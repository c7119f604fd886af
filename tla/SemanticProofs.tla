--------------------------- MODULE SemanticProofs ---------------------------
(***************************************************************************)
(* The analyzer binds names lexically in every program and reports what    *)
(* the rules of the language say, no more and no less: the properties of   *)
(* module SemanticAnalyzer, proved.                                        *)
(***************************************************************************)
EXTENDS SemanticAnalyzer, FiniteSetTheorems, StackLemmas

Kinds == {"global", "function", "parameter", "local", "block", "close", "exprstmt", "condition",
          "return"}

(* The pieces that a program is made of.                                   *)
Text ==
  {p \in [kind : Kinds, of : Variable \union Header \union Parameter \union Expr \union {None}] :
     /\ p.kind \in {"global", "local"} => p.of \in Variable
     /\ p.kind = "function" => p.of \in Header
     /\ p.kind = "parameter" => p.of \in Parameter
     /\ p.kind \in {"exprstmt", "condition"} => p.of \in Expr
     /\ p.kind = "return" => p.of \in Expr \union {None}}

TextOK == program \in Seq(Text)

Grows(p) == p \in Text /\ program' = Append(program, p)

-----------------------------------------------------------------------------
(* The depth, as the text grows.                                           *)

LEMMA GrowsFacts ==
  ASSUME TextOK, NEW p, Grows(p)
  PROVE  /\ Len(program) \in Nat /\ Len(program') = Len(program) + 1
         /\ \A i \in 1..Len(program) : program'[i] = program[i]
         /\ program'[Len(program) + 1] = p
         /\ TextOK'
  BY AppendProperties DEF TextOK, Grows

LEMMA CountFacts ==
  ASSUME TextOK, NEW kinds, NEW i \in 0..Len(program)
  PROVE  Count(kinds, i) \in Nat /\ Count(kinds, 0) = 0
<1>1. i \in Nat
  BY DEF TextOK
<1>2. IsFiniteSet(1..i)
  BY <1>1, FS_Interval
<1>3. IsFiniteSet({j \in 1..i : program[j].kind \in kinds})
  BY <1>2, FS_Subset
<1>4. {j \in 1..0 : program[j].kind \in kinds} = {}
  OBVIOUS
<1> QED
  BY <1>3, <1>4, FS_CardinalityType, FS_EmptySet DEF Count

LEMMA CountGrows ==
  ASSUME TextOK, NEW p, Grows(p), NEW kinds, NEW n, n = Len(program)
  PROVE  /\ \A i \in 0..n : Count(kinds, i)' = Count(kinds, i)
         /\ Count(kinds, n + 1)' = Count(kinds, n) + (IF p.kind \in kinds THEN 1 ELSE 0)
<1> DEFINE C == {j \in 1..n : program[j].kind \in kinds}
           D == {j \in 1..(n + 1) : program'[j].kind \in kinds}
<1>1. n \in Nat /\ (\A i \in 1..n : program'[i] = program[i]) /\ program'[n + 1] = p
  BY GrowsFacts
<1>2. ASSUME NEW i \in 0..n
      PROVE  Count(kinds, i)' = Count(kinds, i)
  <2>1. \A j \in 1..i : program'[j] = program[j]
    BY <1>1
  <2>2. {j \in 1..i : program'[j].kind \in kinds} = {j \in 1..i : program[j].kind \in kinds}
    BY <2>1
  <2> QED
    BY <2>2 DEF Count
<1>3. IsFiniteSet(C)
  <2>1. IsFiniteSet(1..n)
    BY <1>1, FS_Interval
  <2> QED
    BY <2>1, FS_Subset
<1>4. D = IF p.kind \in kinds THEN C \union {n + 1} ELSE C
  BY <1>1
<1>5. n + 1 \notin C
  BY <1>1
<1> HIDE DEF C, D
<1>6. Cardinality(D) = Cardinality(C) + (IF p.kind \in kinds THEN 1 ELSE 0)
  <2>1. Cardinality(C) \in Nat /\ Cardinality(C \union {n + 1}) = Cardinality(C) + 1
    BY <1>3, <1>5, FS_AddElement, FS_CardinalityType
  <2> QED
    BY <1>4, <2>1
<1>7. Count(kinds, n) = Cardinality(C) /\ Count(kinds, n + 1)' = Cardinality(D)
  BY DEF Count, C, D
<1> QED
  BY <1>2, <1>6, <1>7

LEMMA DepthFacts ==
  ASSUME TextOK, NEW i \in 0..Len(program)
  PROVE  Depth(i) \in Int /\ Depth(0) = 0
<1>1. /\ Count({"function", "block"}, i) \in Nat /\ Count({"close"}, i) \in Nat
      /\ Count({"function", "block"}, 0) = 0 /\ Count({"close"}, 0) = 0
  BY CountFacts
<1> QED
  BY <1>1 DEF Depth

LEMMA DepthGrows ==
  ASSUME TextOK, NEW p, Grows(p), NEW n, n = Len(program)
  PROVE  /\ \A i \in 0..n : Depth(i)' = Depth(i)
         /\ Depth(n + 1)' =
              IF p.kind \in {"function", "block"} THEN Depth(n) + 1
              ELSE IF p.kind = "close" THEN Depth(n) - 1
              ELSE Depth(n)
<1> DEFINE o == Count({"function", "block"}, n)
           c == Count({"close"}, n)
<1>1. n \in Nat /\ o \in Nat /\ c \in Nat
  BY GrowsFacts, CountFacts
<1>2. Count({"function", "block"}, n + 1)' = o + (IF p.kind \in {"function", "block"} THEN 1 ELSE 0)
  BY CountGrows
<1>3. Count({"close"}, n + 1)' = c + (IF p.kind \in {"close"} THEN 1 ELSE 0)
  BY CountGrows
<1>4. \A i \in 0..n : Count({"function", "block"}, i)' = Count({"function", "block"}, i)
                      /\ Count({"close"}, i)' = Count({"close"}, i)
  BY CountGrows
<1>5. Depth(n) = o - c
  BY DEF Depth
<1>6. Depth(n + 1)' = Count({"function", "block"}, n + 1)' - Count({"close"}, n + 1)'
  BY DEF Depth
<1>7. \A i \in 0..n : Depth(i)' = Depth(i)
  BY <1>4 DEF Depth
<1> HIDE DEF o, c
<1> QED
  BY <1>1, <1>2, <1>3, <1>5, <1>6, <1>7

-----------------------------------------------------------------------------
(* What is in scope, as the text grows.                                    *)

LEMMA InScopeFacts ==
  ASSUME TextOK, NEW i \in 1..(Len(program) + 1), NEW j \in InScope(i)
  PROVE  /\ j \in 1..Len(program) /\ j < i /\ program[j].kind \in Declaring
         /\ j - 1 \in 0..Len(program) /\ i - 1 \in 0..Len(program)
         /\ Depth(j - 1) \in Int /\ Depth(i - 1) \in Int
         /\ Depth(i - 1) >= Depth(j - 1)
         /\ \A k \in j..(i - 1) : Depth(k) >= Depth(j - 1)
<1>1. j \in 1..(i - 1) /\ program[j].kind \in Declaring
      /\ \A k \in j..(i - 1) : Depth(k) >= Depth(j - 1)
  BY DEF InScope
<1>2. Len(program) \in Nat
  BY DEF TextOK
<1>3. j \in 1..Len(program) /\ j < i /\ j - 1 \in 0..Len(program) /\ i - 1 \in 0..Len(program)
      /\ i - 1 \in j..(i - 1)
  BY <1>1, <1>2
<1>4. Depth(j - 1) \in Int /\ Depth(i - 1) \in Int
  BY <1>3, DepthFacts
<1> QED
  BY <1>1, <1>3, <1>4

LEMMA InScopeSame ==
  ASSUME TextOK, NEW p, Grows(p), NEW i \in 1..(Len(program) + 1)
  PROVE  InScope(i)' = InScope(i)
<1> DEFINE n == Len(program)
<1>1. PICK m : m = Len(program)
  OBVIOUS
<1>2. m \in Nat /\ \A j \in 1..m : program'[j] = program[j]
  BY <1>1, GrowsFacts
<1>3. \A k \in 0..m : Depth(k)' = Depth(k)
  BY <1>1, DepthGrows
<1>4. i \in 1..(m + 1)
  BY <1>1
<1>5. ASSUME NEW j \in 1..(i - 1)
      PROVE  /\ program'[j] = program[j] /\ Depth(j - 1)' = Depth(j - 1)
             /\ \A k \in j..(i - 1) : Depth(k)' = Depth(k)
  <2>1. j \in 1..m /\ j - 1 \in 0..m /\ \A k \in j..(i - 1) : k \in 0..m
    BY <1>2, <1>4
  <2> QED
    BY <1>2, <1>3, <2>1
<1> QED
  BY <1>5 DEF InScope

LEMMA InScopeGrows ==
  ASSUME TextOK, NEW p, Grows(p), NEW n, n = Len(program)
  PROVE  InScope(n + 2)' =
           {j \in InScope(n + 1) : Depth(n + 1)' >= Depth(j - 1)}
             \union {j \in {n + 1} : p.kind \in Declaring /\ Depth(n + 1)' >= Depth(n)}
<1>1. n \in Nat /\ (\A j \in 1..n : program'[j] = program[j]) /\ program'[n + 1] = p
  BY GrowsFacts
<1>2. \A k \in 0..n : Depth(k)' = Depth(k)
  BY DepthGrows
<1> DEFINE In(j) == program'[j].kind \in Declaring /\ \A k \in j..(n + 1) : Depth(k)' >= Depth(j - 1)'
<1>3. InScope(n + 2)' = {j \in 1..(n + 1) : In(j)}
  <2>1. n + 2 - 1 = n + 1
    BY <1>1
  <2> QED
    BY <2>1 DEF InScope
<1>4. ASSUME NEW j \in 1..n
      PROVE  In(j) <=> j \in InScope(n + 1) /\ Depth(n + 1)' >= Depth(j - 1)
  <2>1. program'[j] = program[j] /\ Depth(j - 1)' = Depth(j - 1) /\ n + 1 - 1 = n /\ n + 1 \in j..(n + 1)
    <3>1. j - 1 \in 0..n
      BY <1>1
    <3> QED
      BY <1>1, <1>2, <3>1
  <2>2. \A k \in j..n : k \in j..(n + 1) /\ k \in 0..n
    BY <1>1
  <2>3. \A k \in j..(n + 1) : k = n + 1 \/ k \in j..n
    BY <1>1
  <2>4. (\A k \in j..(n + 1) : Depth(k)' >= Depth(j - 1))
          <=> (\A k \in j..n : Depth(k) >= Depth(j - 1)) /\ Depth(n + 1)' >= Depth(j - 1)
    <3>1. ASSUME \A k \in j..(n + 1) : Depth(k)' >= Depth(j - 1)
          PROVE  (\A k \in j..n : Depth(k) >= Depth(j - 1)) /\ Depth(n + 1)' >= Depth(j - 1)
      <4>1. Depth(n + 1)' >= Depth(j - 1)
        BY <2>1, <3>1
      <4>2. ASSUME NEW k \in j..n
            PROVE  Depth(k) >= Depth(j - 1)
        <5>1. Depth(k)' >= Depth(j - 1) /\ Depth(k)' = Depth(k)
          BY <1>2, <2>2, <3>1
        <5> QED
          BY <5>1
      <4> QED
        BY <4>1, <4>2
    <3>2. ASSUME \A k \in j..n : Depth(k) >= Depth(j - 1), Depth(n + 1)' >= Depth(j - 1),
                 NEW k \in j..(n + 1)
          PROVE  Depth(k)' >= Depth(j - 1)
      <4>1. CASE k = n + 1
        BY <3>2, <4>1
      <4>2. CASE k \in j..n
        <5>1. Depth(k)' = Depth(k) /\ Depth(k) >= Depth(j - 1)
          BY <1>2, <2>2, <3>2, <4>2
        <5> QED
          BY <5>1
      <4> QED
        BY <2>3, <4>1, <4>2
    <3> QED
      BY <3>1, <3>2
  <2>5. j \in InScope(n + 1) <=>
          program[j].kind \in Declaring /\ \A k \in j..n : Depth(k) >= Depth(j - 1)
    BY <2>1 DEF InScope
  <2> QED
    BY <2>1, <2>4, <2>5
<1>5. In(n + 1) <=> p.kind \in Declaring /\ Depth(n + 1)' >= Depth(n)
  <2>1. n + 1 - 1 = n /\ (\A k \in (n + 1)..(n + 1) : k = n + 1) /\ n + 1 \in (n + 1)..(n + 1)
        /\ n \in 0..n
    BY <1>1
  <2>2. Depth(n)' = Depth(n)
    BY <1>2, <2>1
  <2> QED
    BY <1>1, <2>1, <2>2
<1> HIDE DEF In
<1>6. \A j \in InScope(n + 1) : j \in 1..n
  <2>1. n + 1 - 1 = n
    BY <1>1
  <2> QED
    BY <2>1 DEF InScope
<1>7. \A j \in 1..(n + 1) : j = n + 1 \/ j \in 1..n
  BY <1>1
<1>8. n + 1 \in 1..(n + 1) /\ \A j \in 1..n : j \in 1..(n + 1)
  BY <1>1
<1> QED
  BY <1>3, <1>4, <1>5, <1>6, <1>7, <1>8

LEMMA InScopeNew ==
  ASSUME TextOK, NEW p, Grows(p), NEW n, n = Len(program), NEW j
  PROVE  j \in InScope(n + 2)' <=>
           \/ j \in InScope(n + 1) /\ Depth(n + 1)' >= Depth(j - 1)
           \/ j = n + 1 /\ p.kind \in Declaring /\ Depth(n + 1)' >= Depth(n)
  BY InScopeGrows

LEMMA RedeclaresGrows ==
  ASSUME TextOK, NEW p, Grows(p), NEW n, n = Len(program)
  PROVE  /\ \A i \in 1..n : Redeclares(i)' <=> Redeclares(i)
         /\ Redeclares(n + 1)' <=>
              \/ \E j \in InScope(n + 1) :
                   program[j].of.name = p.of.name /\ Depth(j - 1) = Depth(n)
              \/ p.of.name \in BuiltIns /\ Depth(n) = 0
<1>1. n \in Nat /\ (\A j \in 1..n : program'[j] = program[j]) /\ program'[n + 1] = p
  BY GrowsFacts
<1>2. \A k \in 0..n : Depth(k)' = Depth(k)
  BY DepthGrows
<1>3. \A i \in 1..(n + 1) : InScope(i)' = InScope(i)
  BY InScopeSame
<1>4. ASSUME NEW i \in 1..(n + 1), NEW j \in InScope(i)
      PROVE  j \in 1..n /\ program'[j] = program[j] /\ Depth(j - 1)' = Depth(j - 1)
  <2>1. j \in 1..n /\ j - 1 \in 0..n
    BY InScopeFacts
  <2> QED
    BY <1>1, <1>2, <2>1
<1>5. \A i \in 1..(n + 1) : i - 1 \in 0..n /\ Depth(i - 1)' = Depth(i - 1)
  <2>1. \A i \in 1..(n + 1) : i - 1 \in 0..n
    BY <1>1
  <2> QED
    BY <1>2, <2>1
<1>6. ASSUME NEW i \in 1..n
      PROVE  Redeclares(i)' <=> Redeclares(i)
  <2>1. i \in 1..(n + 1) /\ program'[i] = program[i]
    BY <1>1
  <2>2. InScope(i)' = InScope(i) /\ Depth(i - 1)' = Depth(i - 1)
    BY <1>3, <1>5, <2>1
  <2>3. \A j \in InScope(i) : program'[j] = program[j] /\ Depth(j - 1)' = Depth(j - 1)
    BY <1>4, <2>1
  <2> QED
    BY <2>1, <2>2, <2>3 DEF Redeclares, DeclarationsOf, SameScope
<1>7. Redeclares(n + 1)' <=>
        \/ \E j \in InScope(n + 1) :
             program[j].of.name = p.of.name /\ Depth(j - 1) = Depth(n)
        \/ p.of.name \in BuiltIns /\ Depth(n) = 0
  <2>1. n + 1 \in 1..(n + 1) /\ n + 1 - 1 = n
    BY <1>1
  <2>2. InScope(n + 1)' = InScope(n + 1) /\ Depth(n)' = Depth(n)
    BY <1>3, <1>5, <2>1
  <2>3. \A j \in InScope(n + 1) : program'[j] = program[j] /\ Depth(j - 1)' = Depth(j - 1)
    BY <1>4, <2>1
  <2> QED
    BY <1>1, <2>1, <2>2, <2>3 DEF Redeclares, DeclarationsOf, SameScope
<1> QED
  BY <1>6, <1>7

-----------------------------------------------------------------------------
(* What a name denotes, as the text grows.                                 *)

Valid(name, i) == {j \in DeclarationsOf(name, i) : ~Redeclares(j)}

(* Two valid declarations of a name are not in one scope.                  *)
LEMMA ValidUnique ==
  ASSUME TextOK, NEW name, NEW i \in 1..(Len(program) + 1),
         NEW j \in Valid(name, i), NEW k \in Valid(name, i), Depth(j - 1) = Depth(k - 1)
  PROVE  j = k
<1>1. ASSUME NEW a \in Valid(name, i), NEW b \in Valid(name, i), Depth(a - 1) = Depth(b - 1), a < b
      PROVE  FALSE
  <2>1. a \in InScope(i) /\ program[a].of.name = name /\ program[b].of.name = name
        /\ b \in InScope(i) /\ ~ Redeclares(b)
    BY DEF Valid, DeclarationsOf
  <2>2. /\ a \in 1..Len(program) /\ b \in 1..Len(program) /\ b < i /\ Len(program) \in Nat
        /\ program[a].kind \in Declaring
        /\ \A l \in a..(i - 1) : Depth(l) >= Depth(a - 1)
    BY <2>1, InScopeFacts DEF TextOK
  <2>3. a \in 1..(b - 1) /\ \A l \in a..(b - 1) : l \in a..(i - 1)
    BY <1>1, <2>2
  <2>4. a \in InScope(b)
    BY <2>2, <2>3 DEF InScope
  <2> QED
    BY <1>1, <2>1, <2>4 DEF Redeclares, DeclarationsOf, SameScope
<1>2. j \in Nat /\ k \in Nat
  BY InScopeFacts DEF Valid, DeclarationsOf
<1> QED
  BY <1>1, <1>2

(* There is an innermost one.                                              *)
LEMMA ValidInnermost ==
  ASSUME TextOK, NEW name, NEW i \in 1..(Len(program) + 1), Valid(name, i) # {}
  PROVE  \E j \in Valid(name, i) : \A k \in Valid(name, i) : Depth(k - 1) <= Depth(j - 1)
<1> DEFINE V == Valid(name, i)
           top == Depth(i - 1)
           T == {top - Depth(j - 1) : j \in V}
<1>1. \A j \in V : Depth(j - 1) \in Int /\ top \in Int /\ top >= Depth(j - 1)
  BY InScopeFacts DEF Valid, DeclarationsOf
<1> HIDE DEF top, V
<1>2. T \subseteq Nat /\ T # {}
  BY <1>1 DEF V
<1>3. PICK m \in T : \A k \in T : m <= k
  <2> HIDE DEF T
  <2> QED
    BY <1>2, LeastNumber
<1>4. PICK j \in V : m = top - Depth(j - 1)
  OBVIOUS
<1>5. ASSUME NEW k \in V
      PROVE  Depth(k - 1) <= Depth(j - 1)
  <2>1. m <= top - Depth(k - 1)
    BY <1>3
  <2> QED
    BY <1>1, <1>4, <2>1
<1> QED
  BY <1>4, <1>5 DEF V

DenotesRight ==
  \A i \in 1..(Len(program) + 1) : \A name :
    /\ Valid(name, i) = {} => Denotes(name, i) = 0
    /\ \A j \in Valid(name, i) :
         (\A k \in Valid(name, i) : Depth(k - 1) <= Depth(j - 1)) => Denotes(name, i) = j
    /\ Valid(name, i) # {} =>
         /\ Denotes(name, i) \in Valid(name, i)
         /\ \A k \in Valid(name, i) : Depth(k - 1) <= Depth(Denotes(name, i) - 1)

LEMMA DenotesFacts == TextOK => DenotesRight
<1> SUFFICES ASSUME TextOK, NEW i \in 1..(Len(program) + 1), NEW name
             PROVE  /\ Valid(name, i) = {} => Denotes(name, i) = 0
                    /\ \A j \in Valid(name, i) :
                         (\A k \in Valid(name, i) : Depth(k - 1) <= Depth(j - 1)) =>
                           Denotes(name, i) = j
                    /\ Valid(name, i) # {} =>
                         /\ Denotes(name, i) \in Valid(name, i)
                         /\ \A k \in Valid(name, i) : Depth(k - 1) <= Depth(Denotes(name, i) - 1)
  BY DEF DenotesRight
<1> DEFINE V == Valid(name, i)
           Best(j) == \A k \in V : Depth(k - 1) <= Depth(j - 1)
<1>1. Denotes(name, i) = IF V = {} THEN 0 ELSE CHOOSE j \in V : Best(j)
  BY DEF Denotes, Valid
<1>2. \A j, k \in V : Depth(j - 1) = Depth(k - 1) => j = k
  BY ValidUnique
<1>3. \A j \in V : Depth(j - 1) \in Int
  BY InScopeFacts DEF Valid, DeclarationsOf
<1>4. V # {} => \E j \in V : Best(j)
  BY ValidInnermost
<1> HIDE DEF V
<1>5. \A j, k \in V : Best(j) /\ Best(k) => j = k
  BY <1>2, <1>3
<1> HIDE DEF Best
<1>6. V # {} => Denotes(name, i) \in V /\ Best(Denotes(name, i))
  BY <1>1, <1>4
<1>7. \A j \in V : Best(j) => Denotes(name, i) = j
  BY <1>5, <1>6
<1> QED
  BY <1>1, <1>6, <1>7 DEF V, Best

LEMMA ValidSame ==
  ASSUME TextOK, NEW p, Grows(p), NEW i \in 1..(Len(program) + 1), NEW name
  PROVE  Valid(name, i)' = Valid(name, i)
<1>1. PICK m : m = Len(program)
  OBVIOUS
<1>2. i \in 1..(m + 1) /\ InScope(i)' = InScope(i)
  BY <1>1, InScopeSame
<1>3. \A j \in InScope(i) : j \in 1..m /\ program'[j] = program[j]
  BY <1>1, InScopeFacts, GrowsFacts
<1>4. \A j \in 1..m : Redeclares(j)' <=> Redeclares(j)
  BY <1>1, RedeclaresGrows
<1> QED
  BY <1>2, <1>3, <1>4 DEF Valid, DeclarationsOf

LEMMA DenotesSame ==
  ASSUME TextOK, NEW p, Grows(p), NEW i \in 1..(Len(program) + 1), NEW name
  PROVE  Denotes(name, i)' = Denotes(name, i)
<1>1. DenotesRight'
  <2>1. TextOK'
    BY GrowsFacts
  <2> QED
    BY <2>1, DenotesFacts, PTL
<1>2. DenotesRight
  BY DenotesFacts
<1>3. Valid(name, i)' = Valid(name, i)
  BY ValidSame
<1>4. \A j \in Valid(name, i) : Depth(j - 1)' = Depth(j - 1)
  <2>1. PICK m : m = Len(program)
    OBVIOUS
  <2>2. \A j \in Valid(name, i) : j - 1 \in 0..m
    BY <2>1, InScopeFacts DEF Valid, DeclarationsOf
  <2> QED
    BY <2>1, <2>2, DepthGrows
<1>5. i \in 1..(Len(program') + 1)
  BY GrowsFacts
<1>6. CASE Valid(name, i) = {}
  <2>1. Denotes(name, i) = 0
    BY <1>2, <1>6 DEF DenotesRight
  <2>2. Denotes(name, i)' = 0
    BY <1>1, <1>3, <1>5, <1>6 DEF DenotesRight
  <2> QED
    BY <2>1, <2>2
<1>7. CASE Valid(name, i) # {}
  <2>1. PICK j \in Valid(name, i) :
          Denotes(name, i) = j /\ \A k \in Valid(name, i) : Depth(k - 1) <= Depth(j - 1)
    BY <1>2, <1>7 DEF DenotesRight
  <2>2. Denotes(name, i)' = j
    <3>1. \A k \in Valid(name, i) : Depth(k - 1)' <= Depth(j - 1)'
      BY <1>4, <2>1
    <3> QED
      BY <1>1, <1>3, <1>5, <3>1 DEF DenotesRight
  <2> QED
    BY <2>1, <2>2
<1> QED
  BY <1>6, <1>7

LEMMA MeaningSame ==
  ASSUME TextOK, NEW p, Grows(p), NEW i \in 1..(Len(program) + 1), NEW name
  PROVE  Meaning(name, i)' = Meaning(name, i)
<1>1. Denotes(name, i)' = Denotes(name, i)
  BY DenotesSame
<1>2. Denotes(name, i) = 0 \/ Denotes(name, i) \in 1..Len(program)
  BY DenotesFacts, InScopeFacts DEF DenotesRight, Valid, DeclarationsOf
<1>3. Denotes(name, i) # 0 => program'[Denotes(name, i)] = program[Denotes(name, i)]
  BY <1>2, GrowsFacts
<1> DEFINE j == Denotes(name, i)
<1>4. PICK d : d = j
  OBVIOUS
<1>5. d # 0 => program'[d] = program[d]
  BY <1>3, <1>4
<1>6. Denotes(name, i)' = d
  BY <1>1, <1>4
<1> HIDE DEF j
<1> QED
  BY <1>4, <1>5, <1>6 DEF j, Meaning, SymbolOf, input, output, Symbol, FunctionSymbol, ParameterSymbol, VariableSymbol, Recorded

-----------------------------------------------------------------------------
(* The invariant.                                                          *)

Names ==
  BuiltIns \union {v.name : v \in Variable} \union {h.name : h \in Header}
    \union {p.name : p \in Parameter}
    \union {e.name : e \in {x \in Expr : x.kind = "var"}}
    \union {e.callee : e \in {x \in Expr : x.kind = "call"}}

Symbols ==
  [kind : {"variable", "parameter", "function"}, name : Names, type : Types, size : Nat,
   params : Seq(Types), builtin : BOOLEAN]

Maps == UNION {[S -> Nat] : S \in SUBSET Names}
Scopes == [order : Nat, declared : Seq(Nat), byName : Maps]

Uses == [role : {"var", "call", "declaration"}, name : Names, symbol : Nat]

Typed ==
  /\ TextOK
  /\ annotations \in Seq(SUBSET Uses)
  /\ storage \in Seq(Symbols)
  /\ Len(storage) >= 2 /\ storage[1] = input /\ storage[2] = output
  /\ scopes \in Seq(Scopes)
  /\ parameters \in Seq(Parameter)
  /\ reports \in Seq([order : Nat, depth : Int, symbols : Seq(Nat)])
  /\ nextOrder \in Nat

(* The open scopes are as many as the braces that are open.                *)
Nesting ==
  /\ ~finished => Len(scopes) >= 1 /\ Depth(Len(program)) = Len(scopes) - 1
  /\ \A i \in 0..Len(program) : Depth(i) >= 0
  /\ finished => scopes = <<>> /\ parameters = <<>>
  /\ parameters # <<>> => Len(scopes) = 2

(* Piece j declares name in the k-th of the open scopes.                   *)
Declares(j, k, name) ==
  j \in InScope(Here) /\ Depth(j - 1) = k - 1 /\ program[j].of.name = name

(* The symbol s is that of piece j.                                        *)
Holds(j, name, s) ==
  /\ ~ Redeclares(j)
  /\ annotations[j] = {Use("declaration", name, s)}
  /\ storage[s] = SymbolOf(j)

BuiltIn(k, name) == k = 1 /\ name \in BuiltIns

Entry(k, name) ==
  LET map == scopes[k].byName
  IN /\ name \in DOMAIN map <=> BuiltIn(k, name) \/ \E j \in InScope(Here) : Declares(j, k, name)
     /\ name \in DOMAIN map =>
          \/ \E j \in InScope(Here) : Declares(j, k, name) /\ Holds(j, name, map[name])
          \/ BuiltIn(k, name) /\ map[name] = IF name = "input" THEN 1 ELSE 2

(* The table holds, for each open scope, the first declaration of each     *)
(* name in it that the text has.                                           *)
Table == ~finished => \A k \in 1..Len(scopes) : \A name \in Names : Entry(k, name)

(* Every scope opened is open or has its report; no two have one number.   *)
Numbers(open, closed, next) ==
  /\ Len(open) + Len(closed) = next
  /\ \A k \in 1..Len(open) : open[k].order \in 0..(next - 1)
  /\ \A k \in 1..Len(closed) : closed[k].order \in 0..(next - 1)
  /\ \A k, l \in 1..Len(open) : k < l => open[k].order < open[l].order
  /\ \A k, l \in 1..Len(closed) : closed[k].order = closed[l].order => k = l
  /\ \A k \in 1..Len(open) : \A l \in 1..Len(closed) : open[k].order # closed[l].order
  /\ \A o \in 0..(next - 1) : \/ \E k \in 1..Len(open) : open[k].order = o
                             \/ \E k \in 1..Len(closed) : closed[k].order = o

Numbered == ~finished => Numbers(scopes, reports, nextOrder)

(* The inductive invariant.                                                *)
Inv == Typed /\ TypeOK /\ Nesting /\ Table /\ BindingsExact /\ Numbered


-----------------------------------------------------------------------------
(* Looking names up.                                                       *)

LEMMA LargestNumber ==
  ASSUME NEW n \in Nat, NEW H, H \subseteq 1..n, H # {}
  PROVE  \E k \in H : \A j \in H : j <= k
<1> DEFINE T == {n - j : j \in H}
<1>1. T \subseteq Nat /\ T # {}
  <2>1. \A j \in H : n - j \in Nat
    OBVIOUS
  <2> QED
    BY <2>1
<1>2. PICK m \in T : \A i \in T : m <= i
  <2> HIDE DEF T
  <2> QED
    BY <1>1, LeastNumber
<1>3. PICK k \in H : m = n - k
  OBVIOUS
<1>4. ASSUME NEW j \in H
      PROVE  j <= k
  <2>1. m <= n - j
    BY <1>2
  <2> QED
    BY <1>3, <2>1
<1> QED
  BY <1>4

(* What lookup answers is what the text means.                             *)
Answers(s, name) ==
  /\ s \in 0..Len(storage)
  /\ s = 0 => Meaning(name, Here) = None /\ Denotes(name, Here) = 0
  /\ s # 0 => Meaning(name, Here) = storage[s] /\ storage[s] # None
  /\ s # 0 /\ Denotes(name, Here) # 0 =>
       annotations[Denotes(name, Here)] = {Use("declaration", name, s)}

LEMMA SymbolFacts ==
  ASSUME TextOK, NEW j \in 1..Len(program), program[j].kind \in Declaring
  PROVE  SymbolOf(j) # None
<1>1. program[j] \in Text
  BY DEF TextOK
<1>2. program[j].kind \in {"global", "function", "parameter", "local"}
  BY DEF Declaring
<1>3. CASE program[j].kind \in {"global", "local"}
  BY <1>1, <1>3, NoneAssumption DEF Text, SymbolOf
<1>4. CASE program[j].kind = "function"
  BY <1>1, <1>4, NoneAssumption DEF Text, SymbolOf
<1>5. CASE program[j].kind = "parameter"
  BY <1>1, <1>5, NoneAssumption DEF Text, SymbolOf
<1> QED
  BY <1>2, <1>3, <1>4, <1>5

LEMMA MeaningOf ==
  ASSUME TextOK, NEW i, NEW name
  PROVE  /\ Denotes(name, i) # 0 => Meaning(name, i) = SymbolOf(Denotes(name, i))
         /\ Denotes(name, i) = 0 =>
              Meaning(name, i) = IF name = "input" THEN input
                                 ELSE IF name = "output" THEN output ELSE None
<1> PICK d : d = Denotes(name, i)
  OBVIOUS
<1>1. CASE d # 0
  BY <1>1 DEF Meaning
<1>2. CASE d = 0
  BY <1>2 DEF Meaning
<1> QED
  BY <1>1, <1>2

LEMMA LookupRight ==
  ASSUME Inv, ~ finished, NEW name \in Names
  PROVE  Answers(lookup(name), name)
<1> DEFINE n == Len(program)
           l == Len(scopes)
           H == Holding(name)
           V == Valid(name, Here)
<1>1. n \in Nat /\ l \in Nat /\ l >= 1 /\ Depth(n) = l - 1 /\ Here = n + 1 /\ Here \in 1..(n + 1)
      /\ Here - 1 = n /\ TextOK
  BY DEF Inv, Typed, TextOK, Nesting, Here
<1>2. ASSUME NEW j \in InScope(Here)
      PROVE  /\ Depth(j - 1) \in Int /\ Depth(j - 1) + 1 \in 1..l /\ j \in 1..n
             /\ program[j].kind \in Declaring
  <2>1. /\ Depth(j - 1) \in Int /\ j \in 1..n /\ j - 1 \in 0..n /\ program[j].kind \in Declaring
        /\ Depth(n) >= Depth(j - 1)
    BY <1>1, InScopeFacts
  <2>2. Depth(j - 1) >= 0
    BY <2>1 DEF Inv, Nesting
  <2> QED
    BY <1>1, <2>1, <2>2
<1>3. \A k \in 1..l : Entry(k, name)
  BY DEF Inv, Table
<1>4. \A j \in V : j \in InScope(Here) /\ program[j].of.name = name /\ ~ Redeclares(j)
  BY DEF Valid, DeclarationsOf
<1>5. ASSUME NEW j \in InScope(Here), program[j].of.name = name
      PROVE  Depth(j - 1) + 1 \in H
  <2>1. PICK k \in 1..l : k = Depth(j - 1) + 1
    BY <1>2
  <2>2. Declares(j, k, name)
    BY <1>2, <1>5, <2>1 DEF Declares
  <2>3. name \in DOMAIN scopes[k].byName
    BY <1>3, <2>2 DEF Entry
  <2> QED
    BY <2>1, <2>3 DEF Holding
<1>6. CASE H = {}
  <2>1. lookup(name) = 0
    BY <1>6 DEF lookup
  <2>2. V = {}
    BY <1>4, <1>5, <1>6
  <2>3. Denotes(name, Here) = 0
    BY <1>1, <2>2, DenotesFacts DEF DenotesRight
  <2>4. name \notin BuiltIns
    <3>1. 1 \in 1..l
      BY <1>1
    <3>2. name \notin DOMAIN scopes[1].byName
      BY <1>6, <3>1 DEF Holding
    <3> QED
      BY <1>3, <3>1, <3>2 DEF Entry, BuiltIn
  <2>5. Meaning(name, Here) = None
    BY <1>1, <2>3, <2>4, MeaningOf DEF BuiltIns
  <2>6. 0 \in 0..Len(storage)
    BY DEF Inv, Typed
  <2> QED
    BY <2>1, <2>3, <2>5, <2>6 DEF Answers
<1>7. CASE H # {}
  <2>1. \E k \in H : \A j \in H : j <= k
    <3>1. H \subseteq 1..l
      BY DEF Holding
    <3> HIDE DEF H
    <3> QED
      BY <1>1, <1>7, <3>1, LargestNumber
  <2>2. PICK k \in H : (\A j \in H : j <= k) /\ lookup(name) = scopes[k].byName[name]
    BY <1>7, <2>1 DEF lookup
  <2>3. k \in 1..l /\ name \in DOMAIN scopes[k].byName
    BY DEF Holding
  <2>4. PICK s : s = lookup(name)
    OBVIOUS
  <2>5. Entry(k, name) /\ scopes[k].byName[name] = s
    BY <1>3, <2>2, <2>3, <2>4
  <2>6. s \in 1..Len(storage)
    BY <2>3, <2>5 DEF Inv, TypeOK, ScopeOK
  <2>7. CASE BuiltIn(k, name) /\ s = IF name = "input" THEN 1 ELSE 2
    <3>1. k = 1 /\ name \in BuiltIns
      BY <2>7 DEF BuiltIn
    <3>2. V = {}
      <4>1. ASSUME NEW j \in V
            PROVE  FALSE
        <5>1. Depth(j - 1) + 1 <= 1 /\ Depth(j - 1) + 1 \in 1..l /\ Depth(j - 1) \in Int
          BY <1>2, <1>4, <1>5, <2>2, <3>1
        <5>2. Depth(j - 1) = 0
          BY <5>1
        <5> QED
          BY <1>4, <3>1, <5>2 DEF Redeclares
      <4> QED
        BY <4>1
    <3>3. Denotes(name, Here) = 0
      BY <1>1, <3>2, DenotesFacts DEF DenotesRight
    <3>4. Meaning(name, Here) = storage[s]
      BY <1>1, <2>7, <3>1, <3>3, MeaningOf DEF BuiltIns, Inv, Typed
    <3>5. storage[s] # None
      BY <2>7, NoneAssumption DEF Inv, Typed
    <3> QED
      BY <2>4, <2>6, <3>3, <3>4, <3>5 DEF Answers
  <2>8. CASE \E j \in InScope(Here) : Declares(j, k, name) /\ Holds(j, name, s)
    <3>1. PICK j \in InScope(Here) : Declares(j, k, name) /\ Holds(j, name, s)
      BY <2>8
    <3>2. j \in V /\ Depth(j - 1) = k - 1
      BY <3>1 DEF Valid, DeclarationsOf, Declares, Holds
    <3>3. ASSUME NEW i \in V
          PROVE  Depth(i - 1) <= Depth(j - 1)
      <4>1. Depth(i - 1) + 1 <= k /\ Depth(i - 1) \in Int
        BY <1>2, <1>4, <1>5, <2>2
      <4> QED
        BY <2>3, <3>2, <4>1
    <3>4. Denotes(name, Here) = j
      BY <1>1, <3>2, <3>3, DenotesFacts DEF DenotesRight
    <3>5. j # 0 /\ SymbolOf(j) # None
      <4>1. j \in 1..n /\ program[j].kind \in Declaring
        BY <1>2
      <4> QED
        BY <1>1, <4>1, SymbolFacts
    <3>6. Meaning(name, Here) = SymbolOf(j)
      BY <1>1, <3>4, <3>5, MeaningOf
    <3> QED
      BY <2>4, <2>6, <3>1, <3>4, <3>5, <3>6 DEF Answers, Holds
  <2> QED
    BY <2>3, <2>5, <2>7, <2>8 DEF Entry
<1> QED
  BY <1>6, <1>7

-----------------------------------------------------------------------------
(* What the analysis of an expression gives.                               *)

ErrorMsgs ==
  {"undeclared", "function as a variable", "not an array", "void as a value", "array as a value",
   "argument is not an array", "number of arguments", "not a function",
   "assignment to an array"}
WarningMsgs == {"index past the end", "division by zero"}

Results ==
  [type : Types, errors : SUBSET ErrorMsgs, warnings : SUBSET WarningMsgs, uses : SUBSET Uses]

(* analyzeExpr at e, when f is what is known of the parts of e.            *)
Body(f, e) ==
  CASE e.kind = "num" -> Nothing
    [] e.kind = "var" -> analyzeVarExpr(e, IF e.index = None THEN Nothing ELSE f[e.index])
    [] e.kind = "call" -> analyzeCallExpr(e, [i \in 1..Len(e.args) |-> f[e.args[i]]])
    [] e.kind = "assign" -> analyzeAssign(f[e.target], f[e.value])
    [] e.kind = "binary" -> analyzeBinary(e, f[e.lhs], f[e.rhs])

LEMMA ResultTyped ==
  ASSUME NEW type \in Types, NEW found \in SUBSET ErrorMsgs, NEW warned \in SUBSET WarningMsgs,
         NEW uses \in SUBSET Uses
  PROVE  Result(type, found, warned, uses) \in Results
  BY DEF Result, Results

LEMMA RequireIntTyped ==
  ASSUME NEW type \in Types
  PROVE  requireInt(type) \in SUBSET ErrorMsgs
  BY DEF requireInt, Types, ErrorMsgs

LEMMA NothingTyped == Nothing \in Results
  BY ResultTyped DEF Nothing, Types

LEMMA LookupTyped ==
  ASSUME Typed, TypeOK, NEW name
  PROVE  /\ lookup(name) \in 0..Len(storage)
         /\ lookup(name) # 0 =>
              storage[lookup(name)] \in Symbols /\ storage[lookup(name)].type \in Types
<1>1. CASE Holding(name) = {}
  BY <1>1 DEF lookup, Typed
<1>2. CASE Holding(name) # {}
  <2>1. \E k \in Holding(name) : \A j \in Holding(name) : j <= k
    <3>1. Holding(name) \subseteq 1..Len(scopes) /\ Len(scopes) \in Nat
      BY DEF Holding, Typed
    <3> QED
      BY <1>2, <3>1, LargestNumber
  <2>2. PICK k \in Holding(name) : lookup(name) = scopes[k].byName[name]
    BY <1>2, <2>1 DEF lookup
  <2>3. PICK s : s = lookup(name)
    OBVIOUS
  <2>4. s \in 1..Len(storage)
    BY <2>2, <2>3 DEF Holding, TypeOK, ScopeOK
  <2>5. storage[s] \in Symbols
    BY <2>4 DEF Typed
  <2>6. storage[s].type \in Types
    BY <2>5 DEF Symbols
  <2>7. s \in 0..Len(storage)
    BY <2>4
  <2> QED
    BY <2>3, <2>5, <2>6, <2>7
<1> QED
  BY <1>1, <1>2

LEMMA UseTyped ==
  ASSUME NEW role \in {"var", "call", "declaration"}, NEW name \in Names, NEW s \in Nat
  PROVE  Use(role, name, s) \in Uses
  BY DEF Use, Uses

LEMMA VarNames ==
  ASSUME NEW e \in Expr
  PROVE  /\ e.kind = "var" => e.name \in Names
         /\ e.kind = "call" => e.callee \in Names
  BY DEF Names

LEMMA VarTyped ==
  ASSUME Typed, TypeOK, NEW e \in Expr, e.kind = "var", NEW r \in Results
  PROVE  analyzeVarExpr(e, r) \in Results
<1> DEFINE s == lookup(e.name)
           type == storage[s].type
           missing == s = 0 \/ storage[s].kind = "function"
<1>1. s \in Nat /\ (s # 0 => type \in Types) /\ e.name \in Names
  BY LookupTyped, VarNames DEF Typed
<1>2. Use("var", e.name, 0) \in Uses /\ Use("var", e.name, s) \in Uses
  BY <1>1, UseTyped
<1>3. r.type \in Types /\ r.errors \in SUBSET ErrorMsgs /\ r.warnings \in SUBSET WarningMsgs
      /\ r.uses \in SUBSET Uses
  BY DEF Results
<1>4. analyzeVarExpr(e, r) =
        CASE missing ->
               Result("int",
                      {IF s = 0 THEN "undeclared" ELSE "function as a variable"} \union r.errors,
                      r.warnings, {Use("var", e.name, 0)} \union r.uses)
          [] ~missing /\ e.index = None -> Result(type, {}, {}, {Use("var", e.name, s)})
          [] OTHER ->
               Result("int",
                      r.errors \union requireInt(r.type)
                        \union (IF type = "array" THEN {} ELSE {"not an array"}),
                      r.warnings
                        \union (IF type = "array" THEN PastTheEnd(storage[s], e.index) ELSE {}),
                      {Use("var", e.name, s)} \union r.uses)
  BY DEF analyzeVarExpr
<1> HIDE DEF s, type
<1>5. CASE missing
  <2>1. {IF s = 0 THEN "undeclared" ELSE "function as a variable"} \union r.errors
          \in SUBSET ErrorMsgs
    BY <1>3 DEF ErrorMsgs
  <2>2. analyzeVarExpr(e, r) =
          Result("int",
                 {IF s = 0 THEN "undeclared" ELSE "function as a variable"} \union r.errors,
                 r.warnings, {Use("var", e.name, 0)} \union r.uses)
    BY <1>4, <1>5
  <2>3. "int" \in Types /\ {Use("var", e.name, 0)} \union r.uses \in SUBSET Uses
    BY <1>2, <1>3 DEF Types
  <2> QED
    BY <1>3, <2>1, <2>2, <2>3, ResultTyped
<1>6. CASE ~missing /\ e.index = None
  <2>1. analyzeVarExpr(e, r) = Result(type, {}, {}, {Use("var", e.name, s)})
    BY <1>4, <1>6
  <2> QED
    BY <1>1, <1>2, <1>6, <2>1, ResultTyped
<1>7. CASE ~missing /\ e.index # None
  <2> DEFINE E == r.errors \union requireInt(r.type)
                    \union (IF type = "array" THEN {} ELSE {"not an array"})
             W == r.warnings
                    \union (IF type = "array" THEN PastTheEnd(storage[s], e.index) ELSE {})
  <2>1. E \in SUBSET ErrorMsgs
    <3>1. requireInt(r.type) \in SUBSET ErrorMsgs
      BY <1>3, RequireIntTyped
    <3>2. (IF type = "array" THEN {} ELSE {"not an array"}) \in SUBSET ErrorMsgs
      BY DEF ErrorMsgs
    <3> QED
      BY <1>3, <3>1, <3>2
  <2>2. W \in SUBSET WarningMsgs
    BY <1>3 DEF WarningMsgs, PastTheEnd
  <2>3. analyzeVarExpr(e, r) = Result("int", E, W, {Use("var", e.name, s)} \union r.uses)
    BY <1>4, <1>7
  <2>4. "int" \in Types /\ {Use("var", e.name, s)} \union r.uses \in SUBSET Uses
    BY <1>2, <1>3 DEF Types
  <2> HIDE DEF E, W
  <2> QED
    BY <2>1, <2>2, <2>3, <2>4, ResultTyped
<1> QED
  BY <1>5, <1>6, <1>7

LEMMA CheckArgumentTyped ==
  ASSUME NEW wanted, NEW given \in Types
  PROVE  CheckArgument(wanted, given) \in SUBSET ErrorMsgs
<1>1. requireInt(given) \in SUBSET ErrorMsgs
  BY RequireIntTyped
<1> QED
  BY <1>1 DEF CheckArgument, ErrorMsgs

LEMMA CallTyped ==
  ASSUME Typed, TypeOK, NEW e \in Expr, e.kind = "call", NEW args \in [1..Len(e.args) -> Results]
  PROVE  analyzeCallExpr(e, args) \in Results
<1> DEFINE s == lookup(e.callee)
           callee == storage[s]
           n == Len(e.args)
           inside == UNION {args[i].errors : i \in 1..n}
           warned == UNION {args[i].warnings : i \in 1..n}
           uses == UNION {args[i].uses : i \in 1..n}
           arguments ==
             IF n # Len(callee.params)
             THEN {"number of arguments"}
             ELSE UNION {CheckArgument(callee.params[i], args[i].type) : i \in 1..n}
<1>1. s \in Nat /\ (s # 0 => callee.type \in Types) /\ e.callee \in Names
  BY LookupTyped, VarNames DEF Typed
<1>2. Use("call", e.callee, 0) \in Uses /\ Use("call", e.callee, s) \in Uses
  BY <1>1, UseTyped
<1>3. \A i \in 1..n : args[i].type \in Types /\ args[i].errors \in SUBSET ErrorMsgs
                      /\ args[i].warnings \in SUBSET WarningMsgs /\ args[i].uses \in SUBSET Uses
  BY DEF Results
<1>4. inside \in SUBSET ErrorMsgs /\ warned \in SUBSET WarningMsgs /\ uses \in SUBSET Uses
  BY <1>3
<1>5. arguments \in SUBSET ErrorMsgs
  <2>1. \A i \in 1..n : CheckArgument(callee.params[i], args[i].type) \in SUBSET ErrorMsgs
    BY <1>3, CheckArgumentTyped
  <2>2. UNION {CheckArgument(callee.params[i], args[i].type) : i \in 1..n} \in SUBSET ErrorMsgs
    BY <2>1
  <2> QED
    BY <2>2 DEF ErrorMsgs
<1>6. analyzeCallExpr(e, args) =
        CASE s = 0 ->
               Result("int", {"undeclared"} \union inside, warned,
                      {Use("call", e.callee, 0)} \union uses)
          [] s # 0 /\ callee.kind # "function" ->
               Result("int", {"not a function"} \union inside, warned,
                      {Use("call", e.callee, 0)} \union uses)
          [] OTHER ->
               Result(callee.type, inside \union arguments, warned,
                      {Use("call", e.callee, s)} \union uses)
  BY DEF analyzeCallExpr
<1> HIDE DEF s, callee, n, inside, warned, uses, arguments
<1>7. /\ {"undeclared"} \union inside \in SUBSET ErrorMsgs
      /\ {"not a function"} \union inside \in SUBSET ErrorMsgs
      /\ inside \union arguments \in SUBSET ErrorMsgs
      /\ "int" \in Types
      /\ {Use("call", e.callee, 0)} \union uses \in SUBSET Uses
      /\ {Use("call", e.callee, s)} \union uses \in SUBSET Uses
  BY <1>2, <1>4, <1>5 DEF ErrorMsgs, Types
<1>8. CASE s = 0
  BY <1>4, <1>6, <1>7, <1>8, ResultTyped
<1>9. CASE s # 0 /\ callee.kind # "function"
  BY <1>4, <1>6, <1>7, <1>9, ResultTyped
<1>10. CASE s # 0 /\ callee.kind = "function"
  BY <1>1, <1>4, <1>6, <1>7, <1>10, ResultTyped
<1> QED
  BY <1>8, <1>9, <1>10

LEMMA AssignTyped ==
  ASSUME NEW l \in Results, NEW r \in Results
  PROVE  analyzeAssign(l, r) \in Results
<1>1. requireInt(r.type) \in SUBSET ErrorMsgs
  BY RequireIntTyped DEF Results
<1>2. (IF l.type = "array" THEN {"assignment to an array"} ELSE {}) \in SUBSET ErrorMsgs
  BY DEF ErrorMsgs
<1> DEFINE E == l.errors \union r.errors \union requireInt(r.type)
                  \union (IF l.type = "array" THEN {"assignment to an array"} ELSE {})
<1>3. /\ E \in SUBSET ErrorMsgs /\ l.warnings \union r.warnings \in SUBSET WarningMsgs
      /\ l.uses \union r.uses \in SUBSET Uses /\ "int" \in Types
  BY <1>1, <1>2 DEF Results, Types
<1>4. analyzeAssign(l, r) = Result("int", E, l.warnings \union r.warnings, l.uses \union r.uses)
  BY DEF analyzeAssign
<1> HIDE DEF E
<1> QED
  BY <1>3, <1>4, ResultTyped

LEMMA BinaryTyped ==
  ASSUME NEW e, NEW l \in Results, NEW r \in Results
  PROVE  analyzeBinary(e, l, r) \in Results
<1>1. requireInt(l.type) \in SUBSET ErrorMsgs /\ requireInt(r.type) \in SUBSET ErrorMsgs
  BY RequireIntTyped DEF Results
<1>2. DivisionByZero(e) \in SUBSET WarningMsgs
  BY DEF DivisionByZero, WarningMsgs
<1> DEFINE E == l.errors \union requireInt(l.type) \union r.errors \union requireInt(r.type)
           W == l.warnings \union r.warnings \union DivisionByZero(e)
<1>3. /\ E \in SUBSET ErrorMsgs /\ W \in SUBSET WarningMsgs
      /\ l.uses \union r.uses \in SUBSET Uses /\ "int" \in Types
  BY <1>1, <1>2 DEF Results, Types
<1>4. analyzeBinary(e, l, r) = Result("int", E, W, l.uses \union r.uses)
  BY DEF analyzeBinary
<1> HIDE DEF E, W
<1> QED
  BY <1>3, <1>4, ResultTyped

LEMMA BodyTyped ==
  ASSUME Typed, TypeOK, NEW f, NEW e \in Expr, \A p \in Parts(e) : f[p] \in Results
  PROVE  Body(f, e) \in Results
<1>1. ExprShape(e)
  BY ProgramAssumption
<1>2. CASE e.kind = "num"
  BY <1>2, NothingTyped DEF Body
<1>3. CASE e.kind = "var"
  <2>1. (IF e.index = None THEN Nothing ELSE f[e.index]) \in Results
    BY <1>1, <1>3, NothingTyped DEF ExprShape, Parts
  <2>2. Body(f, e) = analyzeVarExpr(e, IF e.index = None THEN Nothing ELSE f[e.index])
    BY <1>3 DEF Body
  <2> QED
    BY <1>3, <2>1, <2>2, VarTyped
<1>4. CASE e.kind = "call"
  <2>1. [i \in 1..Len(e.args) |-> f[e.args[i]]] \in [1..Len(e.args) -> Results]
    BY <1>1, <1>4 DEF ExprShape, Parts
  <2>2. Body(f, e) = analyzeCallExpr(e, [i \in 1..Len(e.args) |-> f[e.args[i]]])
    BY <1>4 DEF Body
  <2> QED
    BY <1>4, <2>1, <2>2, CallTyped
<1>5. CASE e.kind = "assign"
  <2>1. f[e.target] \in Results /\ f[e.value] \in Results
    BY <1>1, <1>5 DEF ExprShape, Parts
  <2>2. Body(f, e) = analyzeAssign(f[e.target], f[e.value])
    BY <1>5 DEF Body
  <2> QED
    BY <2>1, <2>2, AssignTyped
<1>6. CASE e.kind = "binary"
  <2>1. f[e.lhs] \in Results /\ f[e.rhs] \in Results
    BY <1>1, <1>6 DEF ExprShape, Parts
  <2>2. Body(f, e) = analyzeBinary(e, f[e.lhs], f[e.rhs])
    BY <1>6 DEF Body
  <2> QED
    BY <2>1, <2>2, BinaryTyped
<1> QED
  BY <1>1, <1>2, <1>3, <1>4, <1>5, <1>6 DEF ExprShape

LEMMA PartsFacts ==
  ASSUME NEW e \in Expr
  PROVE  /\ ExprShape(e)
         /\ \A p \in Parts(e) : p \in Expr /\ Height[p] < Height[e]
         /\ e.kind = "var" => Parts(e) = {e.index} \ {None} /\ e.index \in Expr \union {None}
         /\ e.kind = "call" => /\ Parts(e) = {e.args[i] : i \in 1..Len(e.args)}
                               /\ e.args \in Seq(Expr)
                               /\ \A i \in 1..Len(e.args) :
                                    e.args[i] \in Parts(e) /\ e.args[i] \in Expr
         /\ e.kind = "assign" =>
              Parts(e) = {e.target, e.value} /\ e.target \in Expr /\ e.value \in Expr
         /\ e.kind = "binary" =>
              Parts(e) = {e.lhs, e.rhs} /\ e.lhs \in Expr /\ e.rhs \in Expr
<1>1. ExprShape(e) /\ \A p \in Parts(e) : Height[p] < Height[e]
  BY ProgramAssumption
<1>2. CASE e.kind = "num"
  <2>1. Parts(e) = {}
    BY <1>2 DEF Parts
  <2> QED
    BY <1>1, <1>2, <2>1
<1>3. CASE e.kind = "var"
  <2>1. Parts(e) = {e.index} \ {None} /\ e.index \in Expr \union {None}
    BY <1>1, <1>3 DEF Parts, ExprShape
  <2> QED
    BY <1>1, <1>3, <2>1
<1>4. CASE e.kind = "call"
  <2>1. Parts(e) = {e.args[i] : i \in 1..Len(e.args)} /\ e.args \in Seq(Expr)
    BY <1>1, <1>4 DEF Parts, ExprShape
  <2>2. \A i \in 1..Len(e.args) : e.args[i] \in Expr
    BY <2>1
  <2> QED
    BY <1>1, <1>4, <2>1, <2>2
<1>5. CASE e.kind = "assign"
  <2>1. Parts(e) = {e.target, e.value} /\ e.target \in Expr /\ e.value \in Expr
    BY <1>1, <1>5 DEF Parts, ExprShape
  <2> QED
    BY <1>1, <1>5, <2>1
<1>6. CASE e.kind = "binary"
  <2>1. Parts(e) = {e.lhs, e.rhs} /\ e.lhs \in Expr /\ e.rhs \in Expr
    BY <1>1, <1>6 DEF Parts, ExprShape
  <2> QED
    BY <1>1, <1>6, <2>1
<1> QED
  BY <1>1, <1>2, <1>3, <1>4, <1>5, <1>6 DEF ExprShape

(* The recursion of analyzeExpr has the answer that its definition asks    *)
(* for: expressions are finite.                                            *)
LEMMA AnalyzeExprFacts ==
  ASSUME Typed, TypeOK
  PROVE  /\ analyzeExpr \in [Expr -> Results]
         /\ \A e \in Expr : analyzeExpr[e] = Body(analyzeExpr, e)
<1> DEFINE S == [Expr -> Results]
           F == [f \in S |-> [e \in Expr |-> Body(f, e)]]
<1>1. F \in [S -> S]
  <2>1. ASSUME NEW f \in S, NEW e \in Expr
        PROVE  Body(f, e) \in Results
    <3>1. \A p \in Parts(e) : p \in Expr
      BY PartsFacts
    <3>2. \A p \in Parts(e) : f[p] \in Results
      BY <3>1
    <3> QED
      BY <3>2, BodyTyped
  <2> QED
    BY <2>1
<1>2. ASSUME NEW f \in S, NEW g \in S, NEW e \in Expr, Agree(f, g, Expr, Height, Height[e])
      PROVE  Body(f, e) = Body(g, e)
  <2>1. ExprShape(e)
    BY ProgramAssumption
  <2>2. \A p \in Parts(e) : p \in Expr => f[p] = g[p]
    BY <1>2, ProgramAssumption DEF Agree
  <2>3. CASE e.kind = "num"
    BY <2>3 DEF Body
  <2>4. CASE e.kind = "var"
    <3>1. Parts(e) = {e.index} \ {None} /\ e.index \in Expr \union {None}
      BY <2>1, <2>4 DEF Parts, ExprShape
    <3>2. (IF e.index = None THEN Nothing ELSE f[e.index])
            = (IF e.index = None THEN Nothing ELSE g[e.index])
      BY <2>2, <3>1
    <3> QED
      BY <2>4, <3>2 DEF Body
  <2>5. CASE e.kind = "call"
    <3>1. Parts(e) = {e.args[i] : i \in 1..Len(e.args)} /\ e.args \in Seq(Expr)
      BY <2>1, <2>5 DEF Parts, ExprShape
    <3>2. \A i \in 1..Len(e.args) : e.args[i] \in Parts(e) /\ e.args[i] \in Expr
      BY <3>1
    <3>3. \A i \in 1..Len(e.args) : f[e.args[i]] = g[e.args[i]]
      BY <2>2, <3>2
    <3>4. [i \in 1..Len(e.args) |-> f[e.args[i]]] = [i \in 1..Len(e.args) |-> g[e.args[i]]]
      BY <3>3
    <3> QED
      BY <2>5, <3>4 DEF Body
  <2>6. CASE e.kind = "assign"
    <3>1. Parts(e) = {e.target, e.value} /\ e.target \in Expr /\ e.value \in Expr
      BY <2>1, <2>6 DEF Parts, ExprShape
    <3>2. f[e.target] = g[e.target] /\ f[e.value] = g[e.value]
      BY <2>2, <3>1
    <3> QED
      BY <2>6, <3>2 DEF Body
  <2>7. CASE e.kind = "binary"
    <3>1. Parts(e) = {e.lhs, e.rhs} /\ e.lhs \in Expr /\ e.rhs \in Expr
      BY <2>1, <2>7 DEF Parts, ExprShape
    <3>2. f[e.lhs] = g[e.lhs] /\ f[e.rhs] = g[e.rhs]
      BY <2>2, <3>1
    <3> QED
      BY <2>7, <3>2 DEF Body
  <2> QED
    BY <2>1, <2>3, <2>4, <2>5, <2>6, <2>7 DEF ExprShape
<1>3. LowerDecides(Expr, Results, Height, F)
  BY <1>2 DEF LowerDecides
<1>4. \E f \in S : F[f] = f
  <2>1. Nothing \in Results /\ Height \in [Expr -> Nat]
    BY NothingTyped, ProgramAssumption
  <2>2. PICK G : G = F
    OBVIOUS
  <2> HIDE DEF F
  <2>3. G \in [[Expr -> Results] -> [Expr -> Results]] /\ LowerDecides(Expr, Results, Height, G)
    BY <1>1, <1>3, <2>2
  <2>4. Recursion(Expr, Results, Height, G)
    BY <2>1, <2>3 DEF Recursion
  <2>5. Answered(Expr, Results, G)
    BY <2>4, RecursionExists, Zenon
  <2> QED
    BY <2>2, <2>5 DEF Answered
<1>5. PICK f \in S : f = [e \in Expr |-> Body(f, e)]
  BY <1>4
<1>6. f =
      [e \in Expr |->
         CASE e.kind = "num" -> Nothing
           [] e.kind = "var" ->
                analyzeVarExpr(e, IF e.index = None THEN Nothing ELSE f[e.index])
           [] e.kind = "call" ->
                analyzeCallExpr(e, [i \in 1..Len(e.args) |-> f[e.args[i]]])
           [] e.kind = "assign" -> analyzeAssign(f[e.target], f[e.value])
           [] e.kind = "binary" -> analyzeBinary(e, f[e.lhs], f[e.rhs])]
  BY <1>5 DEF Body
<1>7. analyzeExpr =
      [e \in Expr |->
         CASE e.kind = "num" -> Nothing
           [] e.kind = "var" ->
                analyzeVarExpr(e, IF e.index = None THEN Nothing ELSE analyzeExpr[e.index])
           [] e.kind = "call" ->
                analyzeCallExpr(e, [i \in 1..Len(e.args) |-> analyzeExpr[e.args[i]]])
           [] e.kind = "assign" -> analyzeAssign(analyzeExpr[e.target], analyzeExpr[e.value])
           [] e.kind = "binary" -> analyzeBinary(e, analyzeExpr[e.lhs], analyzeExpr[e.rhs])]
  BY <1>6, SMT DEF analyzeExpr
<1>8. analyzeExpr = [e \in Expr |-> Body(analyzeExpr, e)]
  BY <1>7 DEF Body
<1>9. PICK a : a = analyzeExpr
  OBVIOUS
<1>10. a = [e \in Expr |-> Body(a, e)]
  BY <1>8, <1>9
<1>11. \A e \in Expr : a[e] = Body(a, e)
  BY <1>10
<1>12. Expr \subseteq {e \in Expr : a[e] \in Results}
  <2> DEFINE R == {e \in Expr : a[e] \in Results}
  <2>1. ASSUME NEW e \in Expr, \A d \in Expr : Height[d] < Height[e] => d \in R
        PROVE  e \in R
    <3>1. \A p \in Parts(e) : a[p] \in Results
      BY <2>1, PartsFacts
    <3>2. Body(a, e) \in Results
      BY <3>1, BodyTyped
    <3> QED
      BY <1>11, <3>2
  <2>2. Height \in [Expr -> Nat]
    BY ProgramAssumption
  <2> HIDE DEF R
  <2>3. Expr \subseteq R
    BY <2>1, <2>2, TreeInduction
  <2> QED
    BY <2>3 DEF R
<1>13. a \in [Expr -> Results]
  BY <1>10, <1>12
<1> QED
  BY <1>9, <1>11, <1>13

-----------------------------------------------------------------------------
(* The names in an expression.                                             *)

(* An annotation that says of the place at hand what the text says.        *)
Right(u) == u \in Uses /\ u.symbol \in Pointer /\ u.role # "declaration" /\ Bound(u, Here)
AllRight(uses) == \A u \in uses : Right(u)

LEMMA VarRight ==
  ASSUME Inv, ~ finished, NEW name \in Names
  PROVE  /\ lookup(name) = 0 \/ storage[lookup(name)].kind = "function" => Right(Use("var", name, 0))
         /\ lookup(name) # 0 /\ storage[lookup(name)].kind # "function" =>
              Right(Use("var", name, lookup(name)))
<1> PICK s : s = lookup(name)
  OBVIOUS
<1> PICK m : m = Meaning(name, Here)
  OBVIOUS
<1> PICK d : d = Denotes(name, Here)
  OBVIOUS
<1>1. /\ s \in 0..Len(storage) /\ Len(storage) \in Nat
      /\ s = 0 => m = None /\ d = 0
      /\ s # 0 => m = storage[s] /\ storage[s] # None
      /\ s # 0 /\ d # 0 => annotations[d] = {Use("declaration", name, s)}
  BY LookupRight DEF Answers, Inv, Typed
<1>2. Use("var", name, 0) \in Uses /\ Use("var", name, s) \in Uses
  BY <1>1, UseTyped
<1>3. ASSUME s = 0 \/ storage[s].kind = "function"
      PROVE  Right(Use("var", name, 0))
  <2>1. ~ IsVariable(m)
    BY <1>1, <1>3 DEF IsVariable
  <2> QED
    BY <1>2, <2>1 DEF Right, Bound, Use, Pointer
<1>4. ASSUME s # 0, storage[s].kind # "function"
      PROVE  Right(Use("var", name, s))
  <2>1. IsVariable(m) /\ m = storage[s]
    BY <1>1, <1>4 DEF IsVariable
  <2>2. d # 0 => \E a \in annotations[d] : a.symbol = s
    <3>1. PICK a : a = Use("declaration", name, s)
      OBVIOUS
    <3>2. a.symbol = s
      BY <3>1 DEF Use
    <3> QED
      BY <1>1, <1>4, <3>1, <3>2
  <2> PICK u : u = Use("var", name, s)
    OBVIOUS
  <2>3. u.role = "var" /\ u.name = name /\ u.symbol = s
    BY DEF Use
  <2>4. Bound(u, Here)
    BY <1>4, <2>1, <2>2, <2>3 DEF Bound
  <2>5. u \in Uses /\ u.symbol \in Pointer
    BY <1>1, <1>2, <2>3 DEF Pointer
  <2> QED
    BY <2>3, <2>4, <2>5 DEF Right
<1> QED
  BY <1>3, <1>4

LEMMA CallRight ==
  ASSUME Inv, ~ finished, NEW name \in Names
  PROVE  /\ lookup(name) = 0 \/ storage[lookup(name)].kind # "function" => Right(Use("call", name, 0))
         /\ lookup(name) # 0 /\ storage[lookup(name)].kind = "function" =>
              Right(Use("call", name, lookup(name)))
<1> PICK s : s = lookup(name)
  OBVIOUS
<1> PICK m : m = Meaning(name, Here)
  OBVIOUS
<1> PICK d : d = Denotes(name, Here)
  OBVIOUS
<1>1. /\ s \in 0..Len(storage) /\ Len(storage) \in Nat
      /\ s = 0 => m = None /\ d = 0
      /\ s # 0 => m = storage[s] /\ storage[s] # None
      /\ s # 0 /\ d # 0 => annotations[d] = {Use("declaration", name, s)}
  BY LookupRight DEF Answers, Inv, Typed
<1>2. Use("call", name, 0) \in Uses /\ Use("call", name, s) \in Uses
  BY <1>1, UseTyped
<1>3. ASSUME s = 0 \/ storage[s].kind # "function"
      PROVE  Right(Use("call", name, 0))
  <2>1. ~ IsFunction(m)
    BY <1>1, <1>3 DEF IsFunction
  <2> QED
    BY <1>2, <2>1 DEF Right, Bound, Use, Pointer
<1>4. ASSUME s # 0, storage[s].kind = "function"
      PROVE  Right(Use("call", name, s))
  <2>1. IsFunction(m) /\ m = storage[s]
    BY <1>1, <1>4 DEF IsFunction
  <2>2. d # 0 => \E a \in annotations[d] : a.symbol = s
    <3>1. PICK a : a = Use("declaration", name, s)
      OBVIOUS
    <3>2. a.symbol = s
      BY <3>1 DEF Use
    <3> QED
      BY <1>1, <1>4, <3>1, <3>2
  <2> PICK u : u = Use("call", name, s)
    OBVIOUS
  <2>3. u.role = "call" /\ u.name = name /\ u.symbol = s
    BY DEF Use
  <2>4. Bound(u, Here)
    BY <1>4, <2>1, <2>2, <2>3 DEF Bound
  <2>5. u \in Uses /\ u.symbol \in Pointer
    BY <1>1, <1>2, <2>3 DEF Pointer
  <2> QED
    BY <2>3, <2>4, <2>5 DEF Right
<1> QED
  BY <1>3, <1>4

LEMMA ResultUses ==
  ASSUME NEW type, NEW found, NEW warned, NEW uses
  PROVE  Result(type, found, warned, uses).uses = uses
  BY DEF Result

LEMMA VarUses ==
  ASSUME NEW e, NEW r, NEW s, s = lookup(e.name)
  PROVE  /\ s = 0 \/ storage[s].kind = "function" =>
              analyzeVarExpr(e, r).uses = {Use("var", e.name, 0)} \union r.uses
         /\ ~ (s = 0 \/ storage[s].kind = "function") /\ e.index = None =>
              analyzeVarExpr(e, r).uses = {Use("var", e.name, s)}
         /\ ~ (s = 0 \/ storage[s].kind = "function") /\ e.index # None =>
              analyzeVarExpr(e, r).uses = {Use("var", e.name, s)} \union r.uses
<1> DEFINE type == storage[s].type
           missing == s = 0 \/ storage[s].kind = "function"
           E1 == {IF s = 0 THEN "undeclared" ELSE "function as a variable"} \union r.errors
           E2 == r.errors \union requireInt(r.type)
                   \union (IF type = "array" THEN {} ELSE {"not an array"})
           W2 == r.warnings
                   \union (IF type = "array" THEN PastTheEnd(storage[s], e.index) ELSE {})
           U1 == {Use("var", e.name, 0)} \union r.uses
           U2 == {Use("var", e.name, s)}
           U3 == {Use("var", e.name, s)} \union r.uses
<1>1. analyzeVarExpr(e, r) =
        CASE missing -> Result("int", E1, r.warnings, U1)
          [] ~missing /\ e.index = None -> Result(type, {}, {}, U2)
          [] OTHER -> Result("int", E2, W2, U3)
  BY DEF analyzeVarExpr
<1> HIDE DEF type, E1, E2, W2, U1, U2, U3
<1>2. missing => analyzeVarExpr(e, r).uses = U1
  BY <1>1, ResultUses
<1>3. ~ missing /\ e.index = None => analyzeVarExpr(e, r).uses = U2
  BY <1>1, ResultUses
<1>4. ~ missing /\ e.index # None => analyzeVarExpr(e, r).uses = U3
  BY <1>1, ResultUses
<1> QED
  BY <1>2, <1>3, <1>4 DEF U1, U2, U3

LEMMA CallUses ==
  ASSUME NEW e, NEW args, NEW s, s = lookup(e.callee)
  PROVE  LET uses == UNION {args[i].uses : i \in 1..Len(e.args)}
         IN /\ s = 0 \/ storage[s].kind # "function" =>
                 analyzeCallExpr(e, args).uses = {Use("call", e.callee, 0)} \union uses
            /\ ~ (s = 0 \/ storage[s].kind # "function") =>
                 analyzeCallExpr(e, args).uses = {Use("call", e.callee, s)} \union uses
<1> DEFINE callee == storage[s]
           n == Len(e.args)
           inside == UNION {args[i].errors : i \in 1..n}
           warned == UNION {args[i].warnings : i \in 1..n}
           uses == UNION {args[i].uses : i \in 1..n}
           E1 == {"undeclared"} \union inside
           E2 == {"not a function"} \union inside
           E3 == inside \union
                   (IF n # Len(callee.params)
                    THEN {"number of arguments"}
                    ELSE UNION {CheckArgument(callee.params[i], args[i].type) : i \in 1..n})
           U1 == {Use("call", e.callee, 0)} \union uses
           U2 == {Use("call", e.callee, s)} \union uses
<1>1. analyzeCallExpr(e, args) =
        CASE s = 0 -> Result("int", E1, warned, U1)
          [] s # 0 /\ callee.kind # "function" -> Result("int", E2, warned, U1)
          [] OTHER -> Result(callee.type, E3, warned, U2)
  BY DEF analyzeCallExpr
<1> HIDE DEF callee, warned, E1, E2, E3, U1, U2
<1>2. s = 0 => analyzeCallExpr(e, args).uses = U1
  BY <1>1, ResultUses
<1>3. s # 0 /\ callee.kind # "function" => analyzeCallExpr(e, args).uses = U1
  BY <1>1, ResultUses
<1>4. s # 0 /\ callee.kind = "function" => analyzeCallExpr(e, args).uses = U2
  BY <1>1, ResultUses
<1> HIDE DEF uses
<1> QED
  BY <1>2, <1>3, <1>4 DEF U1, U2, uses, callee

LEMMA BodyRight ==
  ASSUME Inv, ~ finished, NEW f, NEW e \in Expr, \A p \in Parts(e) : AllRight(f[p].uses)
  PROVE  AllRight(Body(f, e).uses)
<1>1. ExprShape(e) /\ AllRight({})
  BY PartsFacts DEF AllRight
<1>2. \A uses1, uses2 : AllRight(uses1) /\ AllRight(uses2) => AllRight(uses1 \union uses2)
  BY DEF AllRight
<1>3. Nothing.uses = {}
  BY DEF Nothing, Result
<1>4. CASE e.kind = "num"
  <2>1. Body(f, e) = Nothing
    BY <1>4 DEF Body
  <2> QED
    BY <1>1, <1>3, <2>1
<1>5. CASE e.kind = "var"
  <2> PICK r : r = IF e.index = None THEN Nothing ELSE f[e.index]
    OBVIOUS
  <2> PICK s : s = lookup(e.name)
    OBVIOUS
  <2>1. AllRight(r.uses)
    <3>1. CASE e.index = None
      BY <1>1, <1>3, <3>1
    <3>2. CASE e.index # None
      BY <1>5, <3>2, PartsFacts
    <3> QED
      BY <3>1, <3>2
  <2>2. Body(f, e) = analyzeVarExpr(e, r)
    BY <1>5 DEF Body
  <2>3. e.name \in Names
    BY <1>5, VarNames
  <2>4. CASE s = 0 \/ storage[s].kind = "function"
    <3>1. Body(f, e).uses = {Use("var", e.name, 0)} \union r.uses
      BY <2>2, <2>4, VarUses
    <3>2. AllRight({Use("var", e.name, 0)})
      BY <2>3, <2>4, VarRight DEF AllRight
    <3> QED
      BY <1>2, <2>1, <3>1, <3>2
  <2>5. CASE ~ (s = 0 \/ storage[s].kind = "function")
    <3>1. AllRight({Use("var", e.name, s)})
      BY <2>3, <2>5, VarRight DEF AllRight
    <3>2. CASE e.index = None
      <4>1. Body(f, e).uses = {Use("var", e.name, s)}
        BY <2>2, <2>5, <3>2, VarUses
      <4> QED
        BY <3>1, <4>1
    <3>3. CASE e.index # None
      <4>1. Body(f, e).uses = {Use("var", e.name, s)} \union r.uses
        BY <2>2, <2>5, <3>3, VarUses
      <4> QED
        BY <1>2, <2>1, <3>1, <4>1
    <3> QED
      BY <3>2, <3>3
  <2> QED
    BY <2>4, <2>5
<1>6. CASE e.kind = "call"
  <2> DEFINE args == [i \in 1..Len(e.args) |-> f[e.args[i]]]
             uses == UNION {args[i].uses : i \in 1..Len(e.args)}
  <2> PICK s : s = lookup(e.callee)
    OBVIOUS
  <2>1. AllRight(uses)
    <3>1. \A i \in 1..Len(e.args) : AllRight(args[i].uses)
      BY <1>6, PartsFacts
    <3> HIDE DEF args
    <3> QED
      BY <3>1 DEF AllRight
  <2>2. Body(f, e) = analyzeCallExpr(e, args)
    BY <1>6 DEF Body
  <2>3. e.callee \in Names
    BY <1>6, VarNames
  <2> HIDE DEF args
  <2>4. CASE s = 0 \/ storage[s].kind # "function"
    <3>1. Body(f, e).uses = {Use("call", e.callee, 0)} \union uses
      BY <2>2, <2>4, CallUses
    <3>2. AllRight({Use("call", e.callee, 0)})
      BY <2>3, <2>4, CallRight DEF AllRight
    <3> HIDE DEF uses
    <3> QED
      BY <1>2, <2>1, <3>1, <3>2
  <2>5. CASE ~ (s = 0 \/ storage[s].kind # "function")
    <3>1. Body(f, e).uses = {Use("call", e.callee, s)} \union uses
      BY <2>2, <2>5, CallUses
    <3>2. AllRight({Use("call", e.callee, s)})
      BY <2>3, <2>5, CallRight DEF AllRight
    <3> HIDE DEF uses
    <3> QED
      BY <1>2, <2>1, <3>1, <3>2
  <2> QED
    BY <2>4, <2>5
<1>7. CASE e.kind = "assign"
  <2>1. Body(f, e) = analyzeAssign(f[e.target], f[e.value])
    BY <1>7 DEF Body
  <2>2. Body(f, e).uses = f[e.target].uses \union f[e.value].uses
    <3> DEFINE l == f[e.target]
               r == f[e.value]
               E == l.errors \union r.errors \union requireInt(r.type)
                      \union (IF l.type = "array" THEN {"assignment to an array"} ELSE {})
    <3>1. Body(f, e) = Result("int", E, l.warnings \union r.warnings, l.uses \union r.uses)
      BY <2>1 DEF analyzeAssign
    <3> HIDE DEF l, r, E
    <3>2. Body(f, e).uses = l.uses \union r.uses
      BY <3>1, ResultUses
    <3> QED
      BY <3>2 DEF l, r
  <2>3. AllRight(f[e.target].uses) /\ AllRight(f[e.value].uses)
    BY <1>7, PartsFacts
  <2> QED
    BY <1>2, <2>2, <2>3
<1>8. CASE e.kind = "binary"
  <2>1. Body(f, e) = analyzeBinary(e, f[e.lhs], f[e.rhs])
    BY <1>8 DEF Body
  <2>2. Body(f, e).uses = f[e.lhs].uses \union f[e.rhs].uses
    BY <2>1, ResultUses DEF analyzeBinary
  <2>3. AllRight(f[e.lhs].uses) /\ AllRight(f[e.rhs].uses)
    BY <1>8, PartsFacts
  <2> QED
    BY <1>2, <2>2, <2>3
<1> QED
  BY <1>1, <1>4, <1>5, <1>6, <1>7, <1>8 DEF ExprShape

(* Whatever an expression holds, its names are bound right.                *)
LEMMA UsesRight ==
  ASSUME Inv, ~ finished
  PROVE  \A e \in Expr : AllRight(analyzeExpr[e].uses)
<1>1. PICK a : a = analyzeExpr
  OBVIOUS
<1>2. \A e \in Expr : a[e] = Body(a, e)
  BY <1>1, AnalyzeExprFacts DEF Inv
<1> DEFINE R == {e \in Expr : AllRight(a[e].uses)}
<1>3. ASSUME NEW e \in Expr, \A d \in Expr : Height[d] < Height[e] => d \in R
      PROVE  e \in R
  <2>1. \A p \in Parts(e) : AllRight(a[p].uses)
    BY <1>3, PartsFacts
  <2>2. AllRight(Body(a, e).uses)
    BY <2>1, BodyRight
  <2> QED
    BY <1>2, <2>2
<1>4. Height \in [Expr -> Nat]
  BY ProgramAssumption
<1>5. Expr \subseteq R
  <2> HIDE DEF R
  <2> QED
    BY <1>3, <1>4, TreeInduction
<1> QED
  BY <1>1, <1>5

-----------------------------------------------------------------------------
(* A step of the walk: a piece more, with what is written into it, and     *)
(* perhaps symbols more.                                                   *)

Noted(p, uses) ==
  /\ Grows(p)
  /\ uses \in SUBSET Uses
  /\ annotations' = Append(annotations, uses)
  /\ Len(storage') \in Nat /\ Len(storage') >= Len(storage)
  /\ \A s \in 1..Len(storage) : storage'[s] = storage[s]

LEMMA NotedFacts ==
  ASSUME Inv, NEW p, NEW uses, Noted(p, uses), NEW n, n = Len(program)
  PROVE  /\ n \in Nat /\ Len(annotations) = n /\ Len(program') = n + 1 /\ TextOK /\ TextOK'
         /\ Here = n + 1 /\ Here' = n + 2
         /\ program'[n + 1] = p /\ \A i \in 1..n : program'[i] = program[i]
         /\ annotations'[n + 1] = uses /\ \A i \in 1..n : annotations'[i] = annotations[i]
         /\ Len(annotations') = n + 1 /\ annotations' \in Seq(SUBSET Uses)
<1>1. /\ TextOK /\ annotations \in Seq(SUBSET Uses) /\ Len(annotations) = Len(program)
      /\ Grows(p) /\ uses \in SUBSET Uses /\ annotations' = Append(annotations, uses)
  BY DEF Inv, Typed, TypeOK, Noted
<1>2. /\ n \in Nat /\ Len(program') = n + 1 /\ TextOK'
      /\ program'[n + 1] = p /\ \A i \in 1..n : program'[i] = program[i]
  BY <1>1, GrowsFacts
<1>3. /\ annotations'[n + 1] = uses /\ \A i \in 1..n : annotations'[i] = annotations[i]
      /\ Len(annotations') = n + 1 /\ annotations' \in Seq(SUBSET Uses)
  BY <1>1, <1>2, AppendProperties
<1>4. Here = n + 1 /\ Here' = n + 2
  BY <1>2 DEF Here
<1> QED
  BY <1>1, <1>2, <1>3, <1>4

LEMMA BoundSame ==
  ASSUME Inv, NEW p, NEW uses, Noted(p, uses), NEW i \in 1..(Len(program) + 1),
         NEW u, u.symbol \in Pointer, Bound(u, i)
  PROVE  Bound(u, i)'
<1> PICK n : n = Len(program)
  OBVIOUS
<1>1. TextOK /\ Grows(p) /\ n \in Nat /\ \A j \in 1..n : annotations'[j] = annotations[j]
  BY NotedFacts DEF Noted
<1>2. /\ Meaning(u.name, i)' = Meaning(u.name, i)
      /\ Denotes(u.name, i)' = Denotes(u.name, i)
  BY <1>1, MeaningSame, DenotesSame
<1> PICK m : m = Meaning(u.name, i)
  OBVIOUS
<1> PICK d : d = Denotes(u.name, i)
  OBVIOUS
<1> PICK right : right = (IF u.role = "call" THEN IsFunction(m) ELSE IsVariable(m))
  OBVIOUS
<1>3. d = 0 \/ d \in 1..n
  BY <1>1, DenotesFacts, InScopeFacts DEF DenotesRight, Valid, DeclarationsOf
<1>4. u.symbol # 0 => storage'[u.symbol] = storage[u.symbol]
  BY DEF Noted, Pointer, Inv, Typed
<1>5. /\ u.symbol # 0 <=> right
      /\ right => storage[u.symbol] = m
      /\ right /\ d # 0 => \E a \in annotations[d] : a.symbol = u.symbol
  BY DEF Bound
<1>6. /\ right => storage'[u.symbol] = m
      /\ right /\ d # 0 => \E a \in annotations'[d] : a.symbol = u.symbol
  BY <1>1, <1>3, <1>4, <1>5
<1> QED
  BY <1>2, <1>5, <1>6 DEF Bound, IsFunction, IsVariable

LEMMA BindingsStep ==
  ASSUME Inv, NEW p, NEW uses, Noted(p, uses),
         \A u \in uses : u.role # "declaration" => Right(u)
  PROVE  BindingsExact'
<1> PICK n : n = Len(program)
  OBVIOUS
<1>1. /\ n \in Nat /\ Len(annotations) = n /\ Len(program') = n + 1 /\ Here = n + 1
      /\ annotations'[n + 1] = uses /\ \A i \in 1..n : annotations'[i] = annotations[i]
  BY NotedFacts
<1>2. ASSUME NEW i \in 1..n, NEW u \in annotations[i], u.role # "declaration"
      PROVE  Bound(u, i)'
  <2>1. Bound(u, i)
    BY <1>2 DEF Inv, BindingsExact
  <2>2. u.symbol \in Pointer
    BY <1>1, <1>2 DEF Inv, TypeOK
  <2>3. i \in 1..(Len(program) + 1)
    BY <1>1
  <2> QED
    BY <2>1, <2>2, <2>3, BoundSame
<1>3. ASSUME NEW u \in uses, u.role # "declaration"
      PROVE  Bound(u, n + 1)'
  <2>1. Bound(u, n + 1) /\ u.symbol \in Pointer
    BY <1>1, <1>3 DEF Right
  <2>2. n + 1 \in 1..(Len(program) + 1)
    BY <1>1
  <2> QED
    BY <2>1, <2>2, BoundSame
<1>4. ASSUME NEW i \in 1..(n + 1), NEW u \in annotations'[i], u.role # "declaration"
      PROVE  Bound(u, i)'
  <2>1. CASE i = n + 1
    BY <1>1, <1>3, <1>4, <2>1
  <2>2. CASE i \in 1..n
    BY <1>1, <1>2, <1>4, <2>2
  <2> QED
    BY <1>1, <2>1, <2>2
<1> QED
  BY <1>1, <1>4 DEF BindingsExact

-----------------------------------------------------------------------------
(* The table, as the text grows.                                           *)

LEMMA DeclaresKept ==
  ASSUME Inv, ~ finished, NEW p, NEW uses, Noted(p, uses), NEW n, n = Len(program),
         NEW k \in 1..Len(scopes), NEW name, Depth(n + 1)' >= k - 1
  PROVE  \A j : Declares(j, k, name) => Declares(j, k, name)'
<1>1. /\ n \in Nat /\ TextOK /\ Grows(p) /\ Here = n + 1 /\ Here' = n + 2
      /\ program'[n + 1] = p /\ \A i \in 1..n : program'[i] = program[i]
  BY NotedFacts DEF Noted
<1>2. Depth(n) = Len(scopes) - 1 /\ Len(scopes) \in Nat /\ k \in Nat
  BY DEF Inv, Nesting, Typed
<1>3. InScope(n + 2)' =
        {j \in InScope(n + 1) : Depth(n + 1)' >= Depth(j - 1)}
          \union {j \in {n + 1} : p.kind \in Declaring /\ Depth(n + 1)' >= Depth(n)}
  BY <1>1, InScopeGrows
<1>4. \A i \in 0..n : Depth(i)' = Depth(i)
  BY <1>1, DepthGrows
<1>5. ASSUME NEW j \in InScope(n + 1)
      PROVE  j \in 1..n /\ Depth(j - 1)' = Depth(j - 1) /\ program'[j] = program[j]
  <2>1. n + 1 \in 1..(Len(program) + 1)
    BY <1>1
  <2>2. j \in 1..n /\ j - 1 \in 0..n
    BY <1>1, <2>1, InScopeFacts
  <2> QED
    BY <1>1, <1>4, <2>2
<1>6. ASSUME NEW j, Declares(j, k, name)
      PROVE  Declares(j, k, name)'
  <2>1. j \in InScope(n + 1) /\ Depth(j - 1) = k - 1 /\ program[j].of.name = name
    BY <1>1, <1>6 DEF Declares
  <2>2. j \in InScope(n + 2)'
    BY <1>3, <2>1
  <2>3. Depth(j - 1)' = k - 1 /\ program'[j].of.name = name
    BY <1>5, <2>1
  <2> QED
    BY <1>1, <2>2, <2>3 DEF Declares
<1> QED
  BY <1>6

LEMMA DeclaresSame ==
  ASSUME Inv, ~ finished, NEW p, NEW uses, Noted(p, uses), NEW n, n = Len(program),
         NEW k \in 1..Len(scopes), NEW name, Depth(n + 1)' >= k - 1,
         ~ (p.kind \in Declaring /\ p.of.name = name /\ k = Len(scopes))
  PROVE  \A j : Declares(j, k, name)' <=> Declares(j, k, name)
<1>1. /\ n \in Nat /\ TextOK /\ Grows(p) /\ Here = n + 1 /\ Here' = n + 2
      /\ program'[n + 1] = p /\ \A i \in 1..n : program'[i] = program[i]
  BY NotedFacts DEF Noted
<1>2. Depth(n) = Len(scopes) - 1 /\ Len(scopes) \in Nat /\ k \in Nat
  BY DEF Inv, Nesting, Typed
<1>3. InScope(n + 2)' =
        {j \in InScope(n + 1) : Depth(n + 1)' >= Depth(j - 1)}
          \union {j \in {n + 1} : p.kind \in Declaring /\ Depth(n + 1)' >= Depth(n)}
  BY <1>1, InScopeGrows
<1>4. \A i \in 0..n : Depth(i)' = Depth(i)
  BY <1>1, DepthGrows
<1>5. ASSUME NEW j \in InScope(n + 1)
      PROVE  j \in 1..n /\ Depth(j - 1)' = Depth(j - 1) /\ program'[j] = program[j]
  <2>1. n + 1 \in 1..(Len(program) + 1)
    BY <1>1
  <2>2. j \in 1..n /\ j - 1 \in 0..n
    BY <1>1, <2>1, InScopeFacts
  <2> QED
    BY <1>1, <1>4, <2>2
<1>6. \A j : Declares(j, k, name) => Declares(j, k, name)'
  BY DeclaresKept
<1>7. ASSUME NEW j, Declares(j, k, name)'
      PROVE  Declares(j, k, name)
  <2>1. j \in InScope(n + 2)' /\ Depth(j - 1)' = k - 1 /\ program'[j].of.name = name
    BY <1>1, <1>7 DEF Declares
  <2>2. CASE j \in InScope(n + 1)
    BY <1>1, <1>5, <2>1, <2>2 DEF Declares
  <2>3. CASE j = n + 1 /\ p.kind \in Declaring
    <3>1. p.of.name = name
      BY <1>1, <2>1, <2>3
    <3>2. n + 1 - 1 = n /\ n \in 0..n
      BY <1>1
    <3>3. Depth(n)' = k - 1
      BY <2>1, <2>3, <3>2
    <3>4. Depth(n) = k - 1
      BY <1>4, <3>2, <3>3
    <3>5. k = Len(scopes)
      BY <1>2, <3>4
    <3> QED
      BY <2>3, <3>1, <3>5
  <2> QED
    BY <1>3, <2>1, <2>2, <2>3
<1> QED
  BY <1>6, <1>7

LEMMA HoldsSame ==
  ASSUME Inv, NEW p, NEW uses, Noted(p, uses), NEW j \in 1..Len(program), NEW name,
         NEW s \in 1..Len(storage), Holds(j, name, s)
  PROVE  Holds(j, name, s)'
<1> PICK n : n = Len(program)
  OBVIOUS
<1>1. /\ TextOK /\ Grows(p) /\ \A i \in 1..n : program'[i] = program[i]
      /\ \A i \in 1..n : annotations'[i] = annotations[i]
      /\ storage'[s] = storage[s]
  BY NotedFacts DEF Noted
<1>2. Redeclares(j)' <=> Redeclares(j)
  BY <1>1, RedeclaresGrows
<1>3. SymbolOf(j)' = SymbolOf(j)
  BY <1>1 DEF SymbolOf, FunctionSymbol, ParameterSymbol, VariableSymbol, Symbol, Recorded
<1> QED
  BY <1>1, <1>2, <1>3 DEF Holds

(* A map that has not changed at a name that was not declared.             *)
LEMMA EntrySame ==
  ASSUME Inv, ~ finished, NEW p, NEW uses, Noted(p, uses), NEW n, n = Len(program),
         NEW k \in 1..Len(scopes), NEW name \in Names, Depth(n + 1)' >= k - 1,
         ~ (p.kind \in Declaring /\ p.of.name = name /\ k = Len(scopes)),
         name \in DOMAIN scopes'[k].byName <=> name \in DOMAIN scopes[k].byName,
         name \in DOMAIN scopes[k].byName => scopes'[k].byName[name] = scopes[k].byName[name]
  PROVE  Entry(k, name)'
<1> PICK map : map = scopes[k].byName
  OBVIOUS
<1> PICK new : new = scopes'[k].byName
  OBVIOUS
<1>1. Entry(k, name)
  BY DEF Inv, Table
<1>2. \A j : Declares(j, k, name)' <=> Declares(j, k, name)
  BY DeclaresSame
<1>3. \A j : Declares(j, k, name) => j \in InScope(Here) /\ j \in 1..Len(program)
  <2>1. Here = n + 1 /\ n \in Nat /\ TextOK
    BY NotedFacts
  <2>2. Here \in 1..(Len(program) + 1)
    BY <2>1
  <2> QED
    BY <2>1, <2>2, InScopeFacts DEF Declares
<1>4. \A j : Declares(j, k, name)' => j \in InScope(Here)'
  BY DEF Declares
<1>5. name \in DOMAIN map => map[name] \in 1..Len(storage)
  BY DEF Inv, TypeOK, ScopeOK
<1>6. name \in DOMAIN map <=> BuiltIn(k, name) \/ \E j : Declares(j, k, name)
  BY <1>1, <1>3 DEF Entry
<1>7. name \in DOMAIN map =>
        \/ \E j : Declares(j, k, name) /\ Holds(j, name, map[name])
        \/ BuiltIn(k, name) /\ map[name] = IF name = "input" THEN 1 ELSE 2
  BY <1>1 DEF Entry
<1>8. \A j : Declares(j, k, name) /\ name \in DOMAIN map /\ Holds(j, name, map[name]) =>
               Holds(j, name, map[name])'
  BY <1>3, <1>5, HoldsSame
<1>9. name \in DOMAIN new <=> BuiltIn(k, name) \/ \E j : Declares(j, k, name)'
  BY <1>2, <1>6
<1>10. name \in DOMAIN new =>
         \/ \E j : Declares(j, k, name)' /\ Holds(j, name, new[name])'
         \/ BuiltIn(k, name) /\ new[name] = IF name = "input" THEN 1 ELSE 2
  <2> SUFFICES ASSUME name \in DOMAIN new
               PROVE  \/ \E j : Declares(j, k, name)' /\ Holds(j, name, new[name])'
                      \/ BuiltIn(k, name) /\ new[name] = IF name = "input" THEN 1 ELSE 2
    OBVIOUS
  <2>1. name \in DOMAIN map /\ new[name] = map[name]
    OBVIOUS
  <2>2. PICK s : s = map[name] /\ s = new[name]
    BY <2>1
  <2>3. CASE \E j : Declares(j, k, name) /\ Holds(j, name, s)
    <3>1. PICK j : Declares(j, k, name) /\ Holds(j, name, s)
      BY <2>3
    <3>2. Holds(j, name, s)'
      BY <1>3, <1>5, <2>1, <2>2, <3>1, HoldsSame
    <3>3. Holds(j, name, new[name])'
      BY <2>2, <3>2 DEF Holds
    <3> QED
      BY <1>2, <3>1, <3>3
  <2>4. CASE BuiltIn(k, name) /\ s = IF name = "input" THEN 1 ELSE 2
    BY <2>2, <2>4
  <2> QED
    BY <1>7, <2>1, <2>2, <2>3, <2>4
<1> QED
  BY <1>4, <1>9, <1>10 DEF Entry, BuiltIn

-----------------------------------------------------------------------------
(* Declaring a symbol.                                                     *)

(* What the symbol of a declaration may be.                                *)
SymbolFor(p) ==
  CASE p.kind = "function" -> FunctionSymbol(p.of)
    [] p.kind = "parameter" -> ParameterSymbol(p.of)
    [] OTHER -> VariableSymbol(p.of)

LEMMA SymbolTyped ==
  ASSUME NEW p \in Text, p.kind \in Declaring
  PROVE  SymbolFor(p) \in Symbols /\ SymbolFor(p).name = p.of.name
<1>1. \A type : Recorded(type) \in Types
  BY DEF Recorded, Types
<1>2. CASE p.kind \in {"global", "local"}
  <2>1. p.of \in Variable
    BY <1>2 DEF Text
  <2>2. SymbolFor(p) = VariableSymbol(p.of)
    BY <1>2 DEF SymbolFor
  <2>3. p.of.size \in Nat /\ p.of.name \in Names /\ Recorded(p.of.type) \in Types
    BY <1>1, <2>1, ProgramAssumption DEF Names
  <2>4. (IF p.of.type = "array" THEN p.of.size ELSE 0) \in Nat /\ <<>> \in Seq(Types)
    BY <2>3
  <2> QED
    BY <2>2, <2>3, <2>4 DEF VariableSymbol, Symbol, Symbols
<1>3. CASE p.kind = "parameter"
  <2>1. p.of \in Parameter
    BY <1>3 DEF Text
  <2>2. SymbolFor(p) = ParameterSymbol(p.of)
    BY <1>3 DEF SymbolFor
  <2>3. p.of.name \in Names /\ Recorded(p.of.type) \in Types /\ <<>> \in Seq(Types)
    BY <1>1, <2>1 DEF Names
  <2> QED
    BY <2>2, <2>3 DEF ParameterSymbol, Symbol, Symbols
<1>4. CASE p.kind = "function"
  <2>1. p.of \in Header
    BY <1>4 DEF Text
  <2>2. SymbolFor(p) = FunctionSymbol(p.of)
    BY <1>4 DEF SymbolFor
  <2>3. p.of.name \in Names /\ p.of.type \in Types /\ Len(p.of.params) \in Nat
    BY <2>1, ProgramAssumption DEF Names, Types
  <2> DEFINE params == [i \in 1..Len(p.of.params) |-> Recorded(p.of.params[i].type)]
  <2>4. params \in Seq(Types)
    BY <1>1, <2>3
  <2>5. SymbolFor(p) = Symbol("function", p.of.name, p.of.type, 0, params, FALSE)
    BY <2>2 DEF FunctionSymbol
  <2> HIDE DEF params
  <2> QED
    BY <2>3, <2>4, <2>5 DEF Symbol, Symbols
<1> QED
  BY <1>2, <1>3, <1>4 DEF Declaring

(* The innermost scope holds a name already if and only if the text would  *)
(* declare it again.                                                       *)
LEMMA ExistingRight ==
  ASSUME Inv, ~ finished, NEW p, Grows(p), p.kind \in Declaring, NEW n, n = Len(program)
  PROVE  /\ Len(scopes) \in Nat \ {0}
         /\ Existing(p.of.name) # 0 <=> p.of.name \in DOMAIN scopes[Len(scopes)].byName
         /\ Existing(p.of.name) # 0 <=> Redeclares(n + 1)'
         /\ Existing(p.of.name) \in 0..Len(storage)
<1> PICK l : l = Len(scopes)
  OBVIOUS
<1> PICK name : name = p.of.name
  OBVIOUS
<1> PICK map : map = scopes[l].byName
  OBVIOUS
<1>1. /\ l \in Nat \ {0} /\ l \in 1..Len(scopes) /\ Depth(n) = l - 1
      /\ Len(storage) \in Nat /\ TextOK /\ n \in Nat /\ Here = n + 1
  BY DEF Inv, Nesting, Typed, TextOK, Here
<1>2. name \in Names
  <2>1. CASE p.kind \in {"global", "local"}
    BY <2>1 DEF Grows, Text, Names
  <2>2. CASE p.kind = "parameter"
    BY <2>2 DEF Grows, Text, Names
  <2>3. CASE p.kind = "function"
    BY <2>3 DEF Grows, Text, Names
  <2> QED
    BY <2>1, <2>2, <2>3 DEF Declaring
<1>3. \A x \in DOMAIN map : map[x] \in 1..Len(storage)
  BY <1>1 DEF Inv, TypeOK, ScopeOK
<1>4. Existing(name) = IF name \in DOMAIN map THEN map[name] ELSE 0
  BY DEF Existing, Innermost
<1>5. Existing(name) \in 0..Len(storage) /\ (Existing(name) # 0 <=> name \in DOMAIN map)
  BY <1>1, <1>3, <1>4
<1>6. name \in DOMAIN map <=> BuiltIn(l, name) \/ \E j \in InScope(Here) : Declares(j, l, name)
  BY <1>1, <1>2 DEF Inv, Table, Entry
<1>7. Redeclares(n + 1)' <=>
        \/ \E j \in InScope(n + 1) : program[j].of.name = name /\ Depth(j - 1) = Depth(n)
        \/ name \in BuiltIns /\ Depth(n) = 0
  BY <1>1, RedeclaresGrows
<1>8. (name \in BuiltIns /\ Depth(n) = 0) <=> BuiltIn(l, name)
  BY <1>1 DEF BuiltIn
<1>9. \A j \in InScope(n + 1) :
        Declares(j, l, name) <=> program[j].of.name = name /\ Depth(j - 1) = Depth(n)
  BY <1>1 DEF Declares
<1> QED
  BY <1>1, <1>5, <1>6, <1>7, <1>8, <1>9

(* What declare does to the scopes and to the storage.                     *)
Declared(name, symbol, new, store) ==
  LET l == Len(scopes)
  IN /\ new \in Seq(Scopes) /\ Len(new) = l /\ l \in Nat \ {0}
     /\ \A k \in 1..(l - 1) : new[k] = scopes[k]
     /\ Existing(name) # 0 => new = scopes /\ store = storage
     /\ Existing(name) = 0 =>
          /\ new[l].order = scopes[l].order
          /\ new[l].declared = Append(scopes[l].declared, Inserted)
          /\ new[l].byName = [x \in DOMAIN scopes[l].byName \union {name} |->
                                IF x = name THEN Inserted ELSE scopes[l].byName[x]]
          /\ store = Append(storage, symbol)
     /\ store \in Seq(Symbols)
     /\ Len(store) \in Nat /\ Len(store) >= Len(storage)
     /\ \A s \in 1..Len(storage) : store[s] = storage[s]

LEMMA DeclareFacts ==
  ASSUME Inv, ~ finished, NEW p, Grows(p), p.kind \in Declaring,
         NEW symbol, symbol = SymbolFor(p)
  PROVE  Declared(p.of.name, symbol, declare(symbol), Stored(symbol))
<1> PICK l : l = Len(scopes)
  OBVIOUS
<1>1. p \in Text /\ symbol \in Symbols /\ symbol.name = p.of.name
  BY SymbolTyped DEF Grows
<1>2. /\ scopes \in Seq(Scopes) /\ storage \in Seq(Symbols) /\ l \in Nat \ {0} /\ Inserted \in Nat
      /\ p.of.name \in Names
  BY <1>1 DEF Inv, Typed, Nesting, Symbols, Inserted
<1>3. CASE Existing(p.of.name) # 0
  <2>1. declare(symbol) = scopes /\ Stored(symbol) = storage
    BY <1>1, <1>3 DEF declare, Stored
  <2> QED
    BY <1>2, <1>3, <2>1 DEF Declared
<1>4. CASE Existing(p.of.name) = 0
  <2>1. Stored(symbol) = Append(storage, symbol)
    BY <1>1, <1>4 DEF Stored
  <2>2. /\ Stored(symbol) \in Seq(Symbols)
        /\ Len(Stored(symbol)) \in Nat /\ Len(Stored(symbol)) >= Len(storage)
        /\ \A s \in 1..Len(storage) : Stored(symbol)[s] = storage[s]
    BY <1>1, <1>2, <2>1, AppendProperties
  <2> DEFINE old == scopes[l]
             map == [x \in DOMAIN old.byName \union {p.of.name} |->
                       IF x = p.of.name THEN Inserted ELSE old.byName[x]]
             new == [order |-> old.order, declared |-> Append(old.declared, Inserted),
                     byName |-> map]
  <2>3. old \in Scopes
    BY <1>2
  <2>4. old.order \in Nat /\ old.declared \in Seq(Nat) /\ old.byName \in Maps
        /\ old = [order |-> old.order, declared |-> old.declared, byName |-> old.byName]
    BY <2>3 DEF Scopes
  <2>5. map \in Maps
    <3>1. PICK S \in SUBSET Names : old.byName \in [S -> Nat]
      BY <2>4 DEF Maps
    <3>2. map \in [S \union {p.of.name} -> Nat] /\ S \union {p.of.name} \in SUBSET Names
      BY <1>2, <3>1
    <3> QED
      BY <3>2 DEF Maps
  <2> HIDE DEF map
  <2>6. new \in Scopes
    BY <1>2, <2>4, <2>5 DEF Scopes
  <2>7. declare(symbol) = [scopes EXCEPT ![l] = new]
    <3>1. declare(symbol) =
            [scopes EXCEPT
               ![l].declared = Append(@, Inserted),
               ![l].byName = [x \in DOMAIN @ \union {p.of.name} |->
                                IF x = p.of.name THEN Inserted ELSE @[x]]]
      BY <1>1, <1>4 DEF declare
    <3>2. [old EXCEPT !.declared = Append(@, Inserted),
                      !.byName = [x \in DOMAIN @ \union {p.of.name} |->
                                    IF x = p.of.name THEN Inserted ELSE @[x]]] = new
      <4>1. PICK o : o = old
        OBVIOUS
      <4>2. PICK D : D = Append(old.declared, Inserted)
        OBVIOUS
      <4>3. PICK M : M = map
        OBVIOUS
      <4>4. o \in Scopes /\ D \in Seq(Nat) /\ M \in Maps
        BY <1>2, <2>3, <2>4, <2>5, <4>1, <4>2, <4>3
      <4> HIDE DEF old, new
      <4> DEFINE r == [o EXCEPT !.declared = D, !.byName = M]
      <4>5. r \in Scopes /\ r.order = o.order /\ r.declared = D /\ r.byName = M
        BY <4>4 DEF Scopes
      <4>6. r = [order |-> r.order, declared |-> r.declared, byName |-> r.byName]
        <5> HIDE DEF r
        <5> QED
          BY <4>5 DEF Scopes
      <4>7. r = [order |-> o.order, declared |-> D, byName |-> M]
        <5> HIDE DEF r
        <5> QED
          BY <4>5, <4>6
      <4> QED
        BY <4>1, <4>2, <4>3, <4>7 DEF map, new
    <3> QED
      BY <1>2, <3>1, <3>2
  <2> HIDE DEF new, old
  <2>8. /\ declare(symbol) \in Seq(Scopes) /\ Len(declare(symbol)) = l
        /\ declare(symbol)[l] = new /\ \A k \in 1..(l - 1) : declare(symbol)[k] = scopes[k]
    BY <1>2, <2>6, <2>7
  <2>9. /\ new.order = scopes[l].order
        /\ new.declared = Append(scopes[l].declared, Inserted)
        /\ new.byName = [x \in DOMAIN scopes[l].byName \union {p.of.name} |->
                           IF x = p.of.name THEN Inserted ELSE scopes[l].byName[x]]
    BY DEF new, old, map
  <2> QED
    BY <1>2, <1>4, <2>1, <2>2, <2>8, <2>9 DEF Declared
<1> QED
  BY <1>3, <1>4

(* The table after a declaration; what the declaration may do beyond it is *)
(* to open a scope.                                                        *)
LEMMA DeclaredTable ==
  ASSUME Inv, ~ finished, NEW p, p.kind \in Declaring, NEW symbol, symbol = SymbolFor(p),
         Noted(p, DeclaredAs(symbol)), storage' = Stored(symbol),
         \A k \in 1..Len(scopes) : scopes'[k] = declare(symbol)[k]
  PROVE  \A k \in 1..Len(scopes) : \A name \in Names : Entry(k, name)'
<1> PICK n : n = Len(program)
  OBVIOUS
<1> PICK l : l = Len(scopes)
  OBVIOUS
<1> PICK own : own = p.of.name
  OBVIOUS
<1> PICK uses : uses = DeclaredAs(symbol)
  OBVIOUS
<1>0. Noted(p, uses)
  BY DEF Noted
<1>1. /\ n \in Nat /\ TextOK /\ Grows(p) /\ Here = n + 1 /\ Here' = n + 2
      /\ program'[n + 1] = p /\ annotations'[n + 1] = uses
  <2>1. Grows(p)
    BY <1>0 DEF Noted
  <2> QED
    BY <1>0, <2>1, NotedFacts
<1>2. l \in Nat \ {0} /\ Depth(n) = l - 1
  BY DEF Inv, Nesting, Typed
<1>3. Depth(n + 1)' >= l - 1 /\ Depth(n + 1)' \in Int
  <2>1. p.kind # "close"
    BY DEF Declaring
  <2>2. Depth(n + 1)' = Depth(n) + 1 \/ Depth(n + 1)' = Depth(n)
    BY <1>1, <2>1, DepthGrows
  <2> QED
    BY <1>2, <2>2
<1>4. /\ \A k \in 1..(l - 1) : scopes'[k] = scopes[k]
      /\ Existing(own) # 0 => scopes'[l] = scopes[l]
      /\ Existing(own) = 0 =>
           scopes'[l].byName = [x \in DOMAIN scopes[l].byName \union {own} |->
                                  IF x = own THEN Inserted ELSE scopes[l].byName[x]]
  <2> PICK new : new = declare(symbol)
    OBVIOUS
  <2>1. Declared(own, symbol, new, Stored(symbol))
    BY <1>1, DeclareFacts
  <2>2. \A k \in 1..l : scopes'[k] = new[k]
    OBVIOUS
  <2>3. l \in 1..l /\ \A k \in 1..(l - 1) : k \in 1..l
    BY <1>2
  <2> QED
    BY <2>1, <2>2, <2>3 DEF Declared
<1>5. /\ Existing(own) # 0 <=> own \in DOMAIN scopes[l].byName
      /\ Existing(own) # 0 <=> Redeclares(n + 1)'
  BY <1>1, ExistingRight
<1>6. ASSUME NEW k \in 1..l, NEW name \in Names, ~ (k = l /\ name = own)
      PROVE  Entry(k, name)'
  <2>1. Depth(n + 1)' >= k - 1
    BY <1>2, <1>3
  <2>2. /\ name \in DOMAIN scopes'[k].byName <=> name \in DOMAIN scopes[k].byName
        /\ name \in DOMAIN scopes[k].byName => scopes'[k].byName[name] = scopes[k].byName[name]
    <3>1. CASE k # l
      <4>1. k \in 1..(l - 1)
        BY <1>2, <3>1
      <4> QED
        BY <1>4, <4>1
    <3>2. CASE k = l /\ Existing(own) # 0
      BY <1>4, <3>2
    <3>3. CASE k = l /\ Existing(own) = 0
      BY <1>4, <1>6, <3>3
    <3> QED
      BY <3>1, <3>2, <3>3
  <2> QED
    BY <1>0, <1>6, <2>1, <2>2, EntrySame
<1>7. ASSUME own \in Names
      PROVE  Entry(l, own)'
  <2>1. CASE Existing(own) # 0
    <3> PICK s : s = scopes[l].byName[own]
      OBVIOUS
    <3>1. own \in DOMAIN scopes[l].byName /\ scopes'[l] = scopes[l] /\ l \in 1..l
      BY <1>2, <1>4, <1>5, <2>1
    <3>2. s \in 1..Len(storage)
      BY <3>1 DEF Inv, TypeOK, ScopeOK
    <3>3. \/ \E j \in InScope(Here) : Declares(j, l, own) /\ Holds(j, own, s)
          \/ BuiltIn(l, own) /\ s = IF own = "input" THEN 1 ELSE 2
      BY <1>7, <3>1 DEF Inv, Table, Entry
    <3>4. CASE \E j \in InScope(Here) : Declares(j, l, own) /\ Holds(j, own, s)
      <4>1. PICK j \in InScope(Here) : Declares(j, l, own) /\ Holds(j, own, s)
        BY <3>4
      <4>2. j \in 1..n
        <5>1. Here \in 1..(Len(program) + 1)
          BY <1>1
        <5> QED
          BY <1>1, <5>1, InScopeFacts
      <4>3. Declares(j, l, own)'
        BY <1>0, <1>3, <3>1, <4>1, DeclaresKept
      <4>4. Holds(j, own, s)'
        BY <1>0, <3>2, <4>1, <4>2, HoldsSame
      <4>5. j \in InScope(Here)'
        BY <4>3 DEF Declares
      <4> QED
        BY <3>1, <4>3, <4>4, <4>5 DEF Entry, Holds
    <3>5. CASE BuiltIn(l, own) /\ s = IF own = "input" THEN 1 ELSE 2
      BY <3>1, <3>5 DEF Entry, BuiltIn
    <3> QED
      BY <3>3, <3>4, <3>5
  <2>2. CASE Existing(own) = 0
    <3>1. own \in DOMAIN scopes'[l].byName /\ scopes'[l].byName[own] = Inserted
      BY <1>4, <2>2
    <3>2. p \in Text /\ symbol.name = own
      BY <1>1, SymbolTyped DEF Grows
    <3>3. ~ Redeclares(n + 1)'
      BY <1>5, <2>2
    <3>4. annotations'[n + 1] = {Use("declaration", own, Inserted)}
      BY <1>1, <2>2, <3>2 DEF DeclaredAs
    <3>5. storage'[Inserted] = symbol
      <4>1. storage' = Append(storage, symbol)
        BY <2>2, <3>2 DEF Stored
      <4>2. storage \in Seq(Symbols)
        BY DEF Inv, Typed
      <4>3. symbol \in Symbols
        BY <3>2, SymbolTyped
      <4> QED
        BY <4>1, <4>2, <4>3, AppendProperties DEF Inserted
    <3>6. SymbolOf(n + 1)' = symbol
      BY <1>1 DEF SymbolOf, SymbolFor, FunctionSymbol, ParameterSymbol, VariableSymbol, Symbol, Recorded
    <3> PICK s : s = Inserted
      OBVIOUS
    <3>7. Holds(n + 1, own, s)'
      BY <3>3, <3>4, <3>5, <3>6 DEF Holds
    <3>8. InScope(n + 2)' = InScope(Here)'
      BY <1>1 DEF InScope
    <3>9. n + 1 \in InScope(Here)'
      <4>1. n + 1 \in InScope(n + 2)'
        BY <1>1, <1>2, <1>3, InScopeNew
      <4> QED
        BY <3>8, <4>1
    <3>10. Declares(n + 1, l, own)'
      <4>1. n + 1 - 1 = n /\ n \in 0..n
        BY <1>1
      <4>2. Depth(n)' = l - 1
        BY <1>1, <1>2, <4>1, DepthGrows
      <4> QED
        BY <1>1, <3>9, <4>1, <4>2 DEF Declares
    <3> QED
      BY <3>1, <3>7, <3>9, <3>10 DEF Entry, Holds
  <2> QED
    BY <2>1, <2>2
<1> QED
  BY <1>6, <1>7

-----------------------------------------------------------------------------
(* Types and numbers, step by step.                                        *)

Reports == [order : Nat, depth : Int, symbols : Seq(Nat)]

LEMMA WiderSeq ==
  ASSUME NEW a \in Nat, NEW b \in Nat, a <= b, NEW s \in Seq(1..a)
  PROVE  s \in Seq(1..b)
<1>1. \A i \in 1..a : i \in 1..b
  OBVIOUS
<1> QED
  BY <1>1

(* A scope all of whose symbols are among the first b.                     *)
ScopeIn(s, b) ==
  /\ s.order \in Nat
  /\ s.declared \in Seq(1..b)
  /\ \A x \in DOMAIN s.byName : s.byName[x] \in 1..b

LEMMA ScopeWider ==
  ASSUME NEW a \in Nat, NEW b \in Nat, a <= b, NEW s, ScopeIn(s, a)
  PROVE  ScopeIn(s, b)
<1>1. s.declared \in Seq(1..b)
  BY WiderSeq DEF ScopeIn
<1>2. \A x \in DOMAIN s.byName : s.byName[x] \in 1..b
  BY DEF ScopeIn
<1> QED
  BY <1>1, <1>2 DEF ScopeIn

LEMMA DeclaredScopes ==
  ASSUME Inv, ~ finished, NEW name, NEW symbol, NEW new, NEW store,
         Declared(name, symbol, new, store)
  PROVE  \A k \in 1..Len(scopes) : ScopeIn(new[k], Len(store))
<1> PICK l : l = Len(scopes)
  OBVIOUS
<1> PICK b : b = Len(store)
  OBVIOUS
<1>1. /\ l \in Nat \ {0} /\ l \in 1..l /\ Len(storage) \in Nat /\ b \in Nat /\ Len(storage) <= b
      /\ \A k \in 1..l : ScopeIn(scopes[k], Len(storage))
  BY DEF Declared, Inv, Typed, TypeOK, ScopeOK, ScopeIn
<1>2. \A k \in 1..l : ScopeIn(scopes[k], b)
  BY <1>1, ScopeWider
<1>3. CASE Existing(name) # 0
  BY <1>2, <1>3 DEF Declared
<1>4. CASE Existing(name) = 0
  <2>1. /\ new[l].order = scopes[l].order
        /\ new[l].declared = Append(scopes[l].declared, Inserted)
        /\ new[l].byName = [x \in DOMAIN scopes[l].byName \union {name} |->
                             IF x = name THEN Inserted ELSE scopes[l].byName[x]]
        /\ store = Append(storage, symbol)
    BY <1>4 DEF Declared
  <2>2. storage \in Seq(Symbols)
    BY DEF Inv, Typed
  <2>3. b = Inserted /\ Inserted \in 1..b
    <3>1. Len(Append(storage, symbol)) = Len(storage) + 1
      BY <2>2
    <3> QED
      BY <1>1, <2>1, <3>1 DEF Inserted
  <2>4. /\ scopes[l].order \in Nat /\ scopes[l].declared \in Seq(1..b)
        /\ \A x \in DOMAIN scopes[l].byName : scopes[l].byName[x] \in 1..b
    BY <1>1, <1>2 DEF ScopeIn
  <2>5. Append(scopes[l].declared, Inserted) \in Seq(1..b)
    BY <2>3, <2>4, AppendProperties
  <2>6. \A x \in DOMAIN new[l].byName : new[l].byName[x] \in 1..b
    BY <2>1, <2>3, <2>4
  <2>7. ScopeIn(new[l], b)
    BY <2>1, <2>4, <2>5, <2>6 DEF ScopeIn
  <2>8. \A k \in 1..(l - 1) : ScopeIn(new[k], b)
    <3>1. \A k \in 1..(l - 1) : new[k] = scopes[k] /\ k \in 1..l
      BY <1>1 DEF Declared
    <3> QED
      BY <1>2, <3>1
  <2>9. \A k \in 1..l : k = l \/ k \in 1..(l - 1)
    BY <1>1
  <2> QED
    BY <2>7, <2>8, <2>9
<1> QED
  BY <1>3, <1>4

(* What a step leaves behind, apart from the text and its annotations.     *)
Settled(uses) ==
  /\ \A u \in uses : u.symbol \in 0..Len(storage')
  /\ storage' \in Seq(Symbols) /\ scopes' \in Seq(Scopes)
  /\ \A k \in 1..Len(scopes') : ScopeIn(scopes'[k], Len(storage'))
  /\ parameters' \in Seq(Parameter) /\ reports' \in Seq(Reports)
  /\ \A k \in 1..Len(reports') : reports'[k].symbols \in Seq(1..Len(storage'))
  /\ nextOrder' \in Nat /\ finished' \in BOOLEAN

LEMMA TypeStep ==
  ASSUME Inv, NEW p, NEW uses, Noted(p, uses), Settled(uses)
  PROVE  Typed' /\ TypeOK'
<1> PICK n : n = Len(program)
  OBVIOUS
<1>1. /\ n \in Nat /\ Len(annotations) = n /\ Len(program') = n + 1 /\ TextOK'
      /\ annotations'[n + 1] = uses /\ \A i \in 1..n : annotations'[i] = annotations[i]
      /\ Len(annotations') = n + 1 /\ annotations' \in Seq(SUBSET Uses)
  BY NotedFacts
<1> USE DEF Settled
<1>2. /\ Len(storage) \in Nat /\ Len(storage') >= 2 /\ storage[1] = input /\ storage[2] = output
      /\ Len(storage') \in Nat /\ Len(storage') >= Len(storage)
      /\ storage'[1] = storage[1] /\ storage'[2] = storage[2]
  <2>1. /\ Len(storage) \in Nat /\ Len(storage) >= 2 /\ storage[1] = input /\ storage[2] = output
    BY DEF Inv, Typed
  <2>2. 1 \in 1..Len(storage) /\ 2 \in 1..Len(storage)
    BY <2>1
  <2> QED
    BY <2>1, <2>2 DEF Noted
<1>3. input' = input /\ output' = output
  BY DEF input, output, Symbol
<1>4. Typed'
  BY <1>1, <1>2, <1>3 DEF Typed, Reports
<1>5. \A i \in 1..Len(storage') :
        storage'[i].kind \in {"variable", "parameter", "function"} /\ storage'[i].type \in Types
  <2>1. \A i \in 1..Len(storage') : storage'[i] \in Symbols
    OBVIOUS
  <2> QED
    BY <2>1 DEF Symbols
<1>6. \A i \in 1..(n + 1) : \A u \in annotations'[i] : u.symbol \in 0..Len(storage')
  <2>1. \A i \in 1..n : \A u \in annotations[i] : u.symbol \in 0..Len(storage)
    BY <1>1 DEF Inv, TypeOK, Pointer
  <2>2. \A i \in 0..Len(storage) : i \in 0..Len(storage')
    BY <1>2
  <2>3. \A i \in 1..(n + 1) : i = n + 1 \/ i \in 1..n
    BY <1>1
  <2> QED
    BY <1>1, <2>1, <2>2, <2>3
<1>7. \A k \in 1..Len(scopes') : ScopeOK(scopes[k])'
  BY DEF ScopeOK, ScopeIn
<1>8. \A i \in 1..Len(annotations') : \A u \in annotations'[i] : u.symbol \in Pointer'
  BY <1>1, <1>6 DEF Pointer
<1>9. TypeOK'
  BY <1>1, <1>5, <1>7, <1>8 DEF TypeOK
<1> QED
  BY <1>4, <1>9

LEMMA NumbersSame ==
  ASSUME NEW open, NEW new, NEW closed, NEW next, Numbers(open, closed, next),
         Len(new) = Len(open), \A k \in 1..Len(open) : new[k].order = open[k].order
  PROVE  Numbers(new, closed, next)
<1> PICK l : l = Len(open) /\ l = Len(new)
  OBVIOUS
<1>1. l + Len(closed) = next
  BY DEF Numbers
<1>2. \A k \in 1..l : new[k].order \in 0..(next - 1)
  BY DEF Numbers
<1>3. \A k \in 1..Len(closed) : closed[k].order \in 0..(next - 1)
  BY DEF Numbers
<1>4. \A k, j \in 1..l : k < j => new[k].order < new[j].order
  BY DEF Numbers
<1>5. \A k, j \in 1..Len(closed) : closed[k].order = closed[j].order => k = j
  BY DEF Numbers
<1>6. \A k \in 1..l : \A j \in 1..Len(closed) : new[k].order # closed[j].order
  BY DEF Numbers
<1>7. \A o \in 0..(next - 1) : \/ \E k \in 1..l : new[k].order = o
                               \/ \E k \in 1..Len(closed) : closed[k].order = o
  BY DEF Numbers
<1> QED
  BY <1>1, <1>2, <1>3, <1>4, <1>5, <1>6, <1>7 DEF Numbers

LEMMA NumbersPush ==
  ASSUME NEW open, NEW new, NEW closed, NEW next \in Nat, Numbers(open, closed, next),
         NEW l \in Nat, l = Len(open), Len(new) = l + 1, NEW r \in Nat, r = Len(closed),
         \A k \in 1..l : new[k].order = open[k].order, new[l + 1].order = next
  PROVE  Numbers(new, closed, next + 1)
<1>1. l + r = next
  BY DEF Numbers
<1>2. \A k \in 1..l : open[k].order \in 0..(next - 1)
  BY DEF Numbers
<1>3. \A k \in 1..r : closed[k].order \in 0..(next - 1)
  BY DEF Numbers
<1>4. \A k, j \in 1..l : k < j => open[k].order < open[j].order
  BY DEF Numbers
<1>5. \A k, j \in 1..r : closed[k].order = closed[j].order => k = j
  BY DEF Numbers
<1>6. \A k \in 1..l : \A j \in 1..r : open[k].order # closed[j].order
  BY DEF Numbers
<1>7. \A o \in 0..(next - 1) : \/ \E k \in 1..l : open[k].order = o
                               \/ \E k \in 1..r : closed[k].order = o
  BY DEF Numbers
<1>8. \A k \in 1..(l + 1) : k = l + 1 \/ k \in 1..l
  OBVIOUS
<1>9. l + 1 \in 1..(l + 1) /\ \A k \in 1..l : k \in 1..(l + 1)
  OBVIOUS
<1>10. /\ next + 1 - 1 = next
       /\ \A i \in 0..(next - 1) : i \in 0..next /\ i # next
       /\ next \in 0..next /\ \A i \in 0..next : i = next \/ i \in 0..(next - 1)
  OBVIOUS
<1>11. l + 1 + r = next + 1
  BY <1>1
<1>12. \A k \in 1..(l + 1) : new[k].order \in 0..next
  BY <1>2, <1>8, <1>10
<1>13. \A k \in 1..r : closed[k].order \in 0..next
  BY <1>3, <1>10
<1>14. ASSUME NEW k \in 1..(l + 1), NEW j \in 1..(l + 1), k < j
       PROVE  new[k].order < new[j].order
  <2>1. k \in 1..l
    BY <1>14
  <2>2. CASE j = l + 1
    <3>1. new[k].order \in 0..(next - 1)
      BY <1>2, <2>1
    <3> QED
      BY <2>2, <3>1
  <2>3. CASE j \in 1..l
    BY <1>4, <1>14, <2>1, <2>3
  <2> QED
    BY <1>8, <2>2, <2>3
<1>15. ASSUME NEW k \in 1..(l + 1), NEW j \in 1..r
       PROVE  new[k].order # closed[j].order
  <2>1. CASE k = l + 1
    BY <1>3, <1>10, <2>1
  <2>2. CASE k \in 1..l
    BY <1>6, <2>2
  <2> QED
    BY <1>8, <2>1, <2>2
<1>16. ASSUME NEW i \in 0..next
       PROVE  \/ \E k \in 1..(l + 1) : new[k].order = i
              \/ \E k \in 1..r : closed[k].order = i
  <2>1. CASE i = next
    BY <1>9, <2>1
  <2>2. CASE i \in 0..(next - 1)
    BY <1>7, <1>9, <2>2
  <2> QED
    BY <1>10, <2>1, <2>2
<1> PICK m : m = next + 1
  OBVIOUS
<1>17. Len(new) + Len(closed) = m
  BY <1>11
<1>18. /\ \A k \in 1..Len(new) : new[k].order \in 0..(m - 1)
       /\ \A k \in 1..Len(closed) : closed[k].order \in 0..(m - 1)
  BY <1>10, <1>12, <1>13
<1>19. /\ \A k, j \in 1..Len(new) : k < j => new[k].order < new[j].order
       /\ \A k, j \in 1..Len(closed) : closed[k].order = closed[j].order => k = j
  BY <1>5, <1>14
<1>20. \A k \in 1..Len(new) : \A j \in 1..Len(closed) : new[k].order # closed[j].order
  BY <1>15
<1>21. \A i \in 0..(m - 1) : \/ \E k \in 1..Len(new) : new[k].order = i
                             \/ \E k \in 1..Len(closed) : closed[k].order = i
  BY <1>10, <1>16
<1>22. Numbers(new, closed, m)
  BY <1>17, <1>18, <1>19, <1>20, <1>21 DEF Numbers
<1> QED
  BY <1>22

(* The innermost scope is closed, and its report comes last.               *)
LEMMA NumbersPop ==
  ASSUME NEW open, NEW new, NEW closed, NEW more, NEW next \in Nat, Numbers(open, closed, next),
         NEW l \in Nat, l = Len(open), NEW c \in Nat, c = Len(new), l = c + 1,
         NEW r \in Nat, r = Len(closed), NEW d \in Nat, d = Len(more), d = r + 1,
         \A k \in 1..c : new[k] = open[k],
         \A k \in 1..r : more[k] = closed[k], more[r + 1].order = open[l].order
  PROVE  Numbers(new, more, next)
<1>1. l + r = next
  BY DEF Numbers
<1>2. \A k \in 1..l : open[k].order \in 0..(next - 1)
  BY DEF Numbers
<1>3. \A k \in 1..r : closed[k].order \in 0..(next - 1)
  BY DEF Numbers
<1>4. \A k, j \in 1..l : k < j => open[k].order < open[j].order
  BY DEF Numbers
<1>5. \A k, j \in 1..r : closed[k].order = closed[j].order => k = j
  BY DEF Numbers
<1>6. \A k \in 1..l : \A j \in 1..r : open[k].order # closed[j].order
  BY DEF Numbers
<1>7. \A o \in 0..(next - 1) : \/ \E k \in 1..l : open[k].order = o
                               \/ \E k \in 1..r : closed[k].order = o
  BY DEF Numbers
<1>8. \A k \in 1..d : k = r + 1 \/ k \in 1..r
  OBVIOUS
<1>9. r + 1 \in 1..d /\ \A k \in 1..r : k \in 1..d
  OBVIOUS
<1>10. l \in 1..l /\ \A k \in 1..c : k \in 1..l /\ k < l
  OBVIOUS
<1>11. \A k \in 1..l : k = l \/ k \in 1..c
  OBVIOUS
<1>12. c + d = next
  BY <1>1
<1>13. \A k \in 1..c : new[k].order \in 0..(next - 1)
  BY <1>2, <1>10
<1>14. \A k \in 1..d : more[k].order \in 0..(next - 1)
  BY <1>2, <1>3, <1>8, <1>10
<1>15. ASSUME NEW k \in 1..c, NEW j \in 1..c, k < j
       PROVE  new[k].order < new[j].order
  BY <1>4, <1>10, <1>15
<1>16. ASSUME NEW k \in 1..d, NEW j \in 1..d, more[k].order = more[j].order
       PROVE  k = j
  <2>1. CASE k \in 1..r /\ j \in 1..r
    BY <1>5, <1>16, <2>1
  <2>2. CASE k \in 1..r /\ j = r + 1
    BY <1>6, <1>10, <1>16, <2>2
  <2>3. CASE k = r + 1 /\ j \in 1..r
    BY <1>6, <1>10, <1>16, <2>3
  <2> QED
    BY <1>8, <2>1, <2>2, <2>3
<1>17. ASSUME NEW k \in 1..c, NEW j \in 1..d
       PROVE  new[k].order # more[j].order
  <2>1. CASE j \in 1..r
    BY <1>6, <1>10, <2>1
  <2>2. CASE j = r + 1
    <3>1. open[k].order < open[l].order
      BY <1>4, <1>10
    <3>2. open[k].order \in 0..(next - 1) /\ open[l].order \in 0..(next - 1)
      BY <1>2, <1>10
    <3>3. open[k].order # open[l].order
      BY <3>1, <3>2
    <3> QED
      BY <2>2, <3>3
  <2> QED
    BY <1>8, <2>1, <2>2
<1>18. ASSUME NEW i \in 0..(next - 1)
       PROVE  \/ \E k \in 1..c : new[k].order = i
              \/ \E k \in 1..d : more[k].order = i
  <2>1. CASE \E k \in 1..l : open[k].order = i
    <3>1. PICK k \in 1..l : open[k].order = i
      BY <2>1
    <3>2. CASE k = l
      BY <1>9, <3>1, <3>2
    <3>3. CASE k \in 1..c
      BY <3>1, <3>3
    <3> QED
      BY <1>11, <3>2, <3>3
  <2>2. CASE \E k \in 1..r : closed[k].order = i
    BY <1>9, <2>2
  <2> QED
    BY <1>7, <2>1, <2>2
<1>19. Len(new) + Len(more) = next
  BY <1>12
<1>20. /\ \A k \in 1..Len(new) : new[k].order \in 0..(next - 1)
       /\ \A k \in 1..Len(more) : more[k].order \in 0..(next - 1)
  BY <1>13, <1>14
<1>21. /\ \A k, j \in 1..Len(new) : k < j => new[k].order < new[j].order
       /\ \A k, j \in 1..Len(more) : more[k].order = more[j].order => k = j
  BY <1>15, <1>16
<1>22. \A k \in 1..Len(new) : \A j \in 1..Len(more) : new[k].order # more[j].order
  BY <1>17
<1>23. \A i \in 0..(next - 1) : \/ \E k \in 1..Len(new) : new[k].order = i
                                \/ \E k \in 1..Len(more) : more[k].order = i
  BY <1>18
<1> QED
  BY <1>19, <1>20, <1>21, <1>22, <1>23 DEF Numbers


-----------------------------------------------------------------------------
(* One step of the walk at a time.                                         *)

LEMMA NestingStep ==
  ASSUME Inv, ~ finished, NEW p, NEW uses, Noted(p, uses), NEW n, n = Len(program),
         finished' = finished, Len(scopes') \in Nat \ {0}, Depth(n + 1)' = Len(scopes') - 1,
         parameters' # <<>> => Len(scopes') = 2
  PROVE  Nesting'
<1>1. n \in Nat /\ TextOK /\ Grows(p) /\ Len(program') = n + 1
  BY NotedFacts DEF Noted
<1>2. \A i \in 0..n : Depth(i)' = Depth(i)
  BY <1>1, DepthGrows
<1>3. \A i \in 0..n : Depth(i) >= 0
  BY DEF Inv, Nesting
<1>4. Depth(n + 1)' >= 0
  OBVIOUS
<1>5. \A i \in 0..(n + 1) : i = n + 1 \/ i \in 0..n
  BY <1>1
<1>6. \A i \in 0..(n + 1) : Depth(i)' >= 0
  BY <1>2, <1>3, <1>4, <1>5
<1>7. Depth(Len(program))' = Depth(n + 1)'
  BY <1>1 DEF Depth, Count
<1> QED
  BY <1>1, <1>6, <1>7 DEF Nesting

LEMMA DeclareNoted ==
  ASSUME Inv, ~ finished, NEW p, Grows(p), p.kind \in Declaring, NEW symbol, symbol = SymbolFor(p),
         annotations' = Append(annotations, DeclaredAs(symbol)), storage' = Stored(symbol)
  PROVE  /\ Noted(p, DeclaredAs(symbol))
         /\ \A u \in DeclaredAs(symbol) : u.role = "declaration" /\ u.symbol \in 0..Len(storage')
<1>1. p \in Text /\ symbol \in Symbols /\ symbol.name = p.of.name
  BY SymbolTyped DEF Grows
<1> PICK new : new = declare(symbol)
  OBVIOUS
<1> PICK store : store = Stored(symbol)
  OBVIOUS
<1>2. Declared(p.of.name, symbol, new, store)
  BY DeclareFacts
<1>3. storage \in Seq(Symbols) /\ Len(storage) \in Nat
  BY DEF Inv, Typed
<1>4. /\ Len(storage') \in Nat /\ Len(storage') >= Len(storage)
      /\ \A s \in 1..Len(storage) : storage'[s] = storage[s]
  BY <1>2 DEF Declared
<1>5. Existing(symbol.name) = 0 => Len(storage') = Len(storage) + 1
  BY <1>1, <1>3 DEF Stored
<1>6. \A u \in DeclaredAs(symbol) :
        /\ u.role = "declaration" /\ u.name = symbol.name
        /\ u.symbol \in Nat /\ u.symbol \in 0..Len(storage')
        /\ u \in Uses
  <2>1. Inserted \in Nat /\ (Existing(symbol.name) = 0 => Inserted \in 0..Len(storage'))
    BY <1>3, <1>5 DEF Inserted
  <2>2. 0 \in 0..Len(storage')
    BY <1>4
  <2>3. symbol.name \in Names
    BY <1>1 DEF Symbols
  <2> QED
    BY <1>1, <2>1, <2>2, <2>3 DEF DeclaredAs, Use, Uses
<1>7. DeclaredAs(symbol) \in SUBSET Uses
  BY <1>6
<1> QED
  BY <1>4, <1>6, <1>7 DEF Noted

(* What holds of the scopes when a symbol is declared in them.             *)
LEMMA DeclareTyped ==
  ASSUME Inv, ~ finished, NEW p, Grows(p), p.kind \in Declaring, NEW symbol, symbol = SymbolFor(p)
  PROVE  /\ declare(symbol) \in Seq(Scopes) /\ Len(declare(symbol)) = Len(scopes)
         /\ Len(scopes) \in Nat \ {0}
         /\ Stored(symbol) \in Seq(Symbols)
         /\ \A k \in 1..Len(scopes) : ScopeIn(declare(symbol)[k], Len(Stored(symbol)))
         /\ \A k \in 1..Len(scopes) : declare(symbol)[k].order = scopes[k].order
<1> PICK new : new = declare(symbol)
  OBVIOUS
<1> PICK store : store = Stored(symbol)
  OBVIOUS
<1> PICK name : name = p.of.name
  OBVIOUS
<1> PICK l : l = Len(scopes)
  OBVIOUS
<1>1. Declared(name, symbol, new, store)
  BY DeclareFacts
<1>2. new \in Seq(Scopes) /\ Len(new) = l /\ l \in Nat \ {0} /\ store \in Seq(Symbols)
  BY <1>1 DEF Declared
<1>3. \A k \in 1..l : ScopeIn(new[k], Len(store))
  BY <1>1, DeclaredScopes
<1>4. \A k \in 1..l : new[k].order = scopes[k].order
  <2>1. \A k \in 1..l : k = l \/ k \in 1..(l - 1)
    BY <1>2
  <2>2. \A k \in 1..(l - 1) : new[k] = scopes[k]
    BY <1>1 DEF Declared
  <2>3. new[l].order = scopes[l].order
    BY <1>1 DEF Declared
  <2> QED
    BY <2>1, <2>2, <2>3
<1> QED
  BY <1>2, <1>3, <1>4

LEMMA DeclarationStep ==
  ASSUME Inv, ~ finished, NEW p, Grows(p), p.kind \in {"global", "parameter", "local"},
         NEW symbol, symbol = SymbolFor(p),
         annotations' = Append(annotations, DeclaredAs(symbol)), storage' = Stored(symbol),
         scopes' = declare(symbol), parameters' \in Seq(Parameter),
         parameters' # <<>> => parameters # <<>>,
         nextOrder' = nextOrder, reports' = reports, finished' = finished
  PROVE  Inv'
<1> PICK n : n = Len(program)
  OBVIOUS
<1> PICK uses : uses = DeclaredAs(symbol)
  OBVIOUS
<1>1. p.kind \in Declaring /\ p.kind \notin {"function", "block", "close"}
  BY DEF Declaring
<1>2. Noted(p, uses) /\ \A u \in uses : u.role = "declaration" /\ u.symbol \in 0..Len(storage')
  BY <1>1, DeclareNoted
<1>3. /\ scopes' \in Seq(Scopes) /\ Len(scopes') = Len(scopes) /\ Len(scopes) \in Nat \ {0}
      /\ storage' \in Seq(Symbols)
      /\ \A k \in 1..Len(scopes) : ScopeIn(scopes'[k], Len(storage'))
      /\ \A k \in 1..Len(scopes) : scopes'[k].order = scopes[k].order
  BY <1>1, DeclareTyped
<1>4. Depth(n + 1)' = Depth(n) /\ Depth(n) = Len(scopes) - 1
  <2>1. TextOK
    BY DEF Inv, Typed
  <2>2. Depth(n + 1)' = Depth(n)
    BY <1>1, <2>1, DepthGrows
  <2> QED
    BY <2>2 DEF Inv, Nesting
<1>5. Nesting'
  <2>1. Depth(n + 1)' = Len(scopes') - 1 /\ Len(scopes') \in Nat \ {0}
    BY <1>3, <1>4
  <2>2. parameters' # <<>> => Len(scopes') = 2
    BY <1>3 DEF Inv, Nesting
  <2> QED
    BY <1>2, <2>1, <2>2, NestingStep
<1>6. Settled(uses)
  <2>1. reports \in Seq(Reports) /\ nextOrder \in Nat /\ finished \in BOOLEAN
    BY DEF Inv, Typed, TypeOK, Reports
  <2>2. \A k \in 1..Len(reports) : reports[k].symbols \in Seq(1..Len(storage'))
    <3>1. \A k \in 1..Len(reports) : reports[k].symbols \in Seq(1..Len(storage))
      BY DEF Inv, TypeOK
    <3>2. Len(storage) \in Nat /\ Len(storage') \in Nat /\ Len(storage) <= Len(storage')
      BY <1>2 DEF Inv, Typed, Noted
    <3> QED
      BY <3>1, <3>2, WiderSeq
  <2> QED
    BY <1>2, <1>3, <2>1, <2>2 DEF Settled
<1>7. Typed' /\ TypeOK'
  BY <1>2, <1>6, TypeStep
<1>8. BindingsExact'
  BY <1>2, BindingsStep
<1>9. Table'
  <2>1. \A k \in 1..Len(scopes) : scopes'[k] = declare(symbol)[k]
    OBVIOUS
  <2>2. Noted(p, DeclaredAs(symbol))
    BY <1>2 DEF Noted
  <2>3. \A k \in 1..Len(scopes) : \A name \in Names : Entry(k, name)'
    BY <1>1, <2>1, <2>2, DeclaredTable
  <2>4. Names' = Names
    BY DEF Names
  <2> QED
    BY <1>3, <2>3, <2>4 DEF Table
<1>10. Numbered'
  <2> PICK old : old = scopes
    OBVIOUS
  <2> PICK new : new = scopes'
    OBVIOUS
  <2>1. Numbers(old, reports, nextOrder)
    BY DEF Inv, Numbered
  <2>2. Len(new) = Len(old) /\ \A k \in 1..Len(old) : new[k].order = old[k].order
    BY <1>3
  <2>3. Numbers(new, reports, nextOrder)
    BY <2>1, <2>2, NumbersSame
  <2>4. Numbers(scopes', reports', nextOrder')
    BY <2>3 DEF Numbers
  <2> QED
    BY <2>4 DEF Numbered, Numbers
<1> QED
  BY <1>5, <1>7, <1>8, <1>9, <1>10 DEF Inv


(* A piece that declares nothing leaves the open scopes as they are.       *)
LEMMA TableKept ==
  ASSUME Inv, ~ finished, NEW p, NEW uses, Noted(p, uses), p.kind \notin Declaring,
         NEW n, n = Len(program), NEW m \in Nat, m <= Len(scopes), Depth(n + 1)' >= m - 1,
         \A k \in 1..m : scopes'[k] = scopes[k]
  PROVE  \A k \in 1..m : \A name \in Names : Entry(k, name)'
<1>1. /\ n \in Nat /\ TextOK /\ Grows(p)
  BY NotedFacts DEF Noted
<1>2. Len(scopes) \in Nat /\ Depth(n + 1)' \in Int
  <2>1. Depth(n) \in Int
    BY <1>1, DepthFacts
  <2> QED
    BY <1>1, <2>1, DepthGrows DEF Inv, Typed
<1>3. ASSUME NEW k \in 1..m, NEW name \in Names
      PROVE  Entry(k, name)'
  <2>1. k \in 1..Len(scopes) /\ Depth(n + 1)' >= k - 1
    BY <1>2
  <2>2. scopes'[k] = scopes[k]
    OBVIOUS
  <2> QED
    BY <2>1, <2>2, EntrySame
<1> QED
  BY <1>3

(* Nothing is declared yet in a scope just opened.                         *)
LEMMA NewScopeEmpty ==
  ASSUME Inv, ~ finished, NEW p, NEW uses, Noted(p, uses), NEW n, n = Len(program),
         NEW l \in Nat \ {0}, l = Len(scopes), Depth(n + 1)' = l,
         scopes'[l + 1].byName = <<>>
  PROVE  \A name \in Names : Entry(l + 1, name)'
<1>1. /\ n \in Nat /\ TextOK /\ Grows(p) /\ Here = n + 1 /\ Here' = n + 2
  BY NotedFacts DEF Noted
<1>2. Depth(n) = l - 1
  BY DEF Inv, Nesting
<1>3. ASSUME NEW j \in InScope(n + 2)'
      PROVE  Depth(j - 1)' < l
  <2>1. CASE j \in InScope(n + 1)
    <3>1. n + 1 \in 1..(Len(program) + 1) /\ n + 1 - 1 = n
      BY <1>1
    <3>2. j - 1 \in 0..n /\ Depth(j - 1) \in Int /\ Depth(n) >= Depth(j - 1)
      BY <1>1, <2>1, <3>1, InScopeFacts
    <3>3. Depth(j - 1)' = Depth(j - 1)
      BY <1>1, <3>2, DepthGrows
    <3> QED
      BY <1>2, <3>2, <3>3
  <2>2. CASE j = n + 1
    <3>1. j - 1 = n /\ n \in 0..n
      BY <1>1, <2>2
    <3>2. Depth(n)' = Depth(n)
      BY <1>1, <3>1, DepthGrows
    <3> QED
      BY <1>2, <3>1, <3>2
  <2>3. j \in InScope(n + 1) \/ j = n + 1
    BY <1>1, InScopeNew
  <2> QED
    BY <2>1, <2>2, <2>3
<1>4. InScope(Here)' = InScope(n + 2)'
  BY <1>1 DEF InScope
<1>5. \A j \in InScope(Here)' : ~ (Depth(j - 1)' = (l + 1) - 1)
  BY <1>3, <1>4
<1>6. \A name : \A j \in InScope(Here)' : ~ Declares(j, l + 1, name)'
  BY <1>5 DEF Declares
<1>7. \A name : ~ BuiltIn(l + 1, name)
  BY DEF BuiltIn
<1>8. \A name : name \notin DOMAIN scopes'[l + 1].byName
  OBVIOUS
<1> QED
  BY <1>6, <1>7, <1>8 DEF Entry, BuiltIn

LEMMA ScopeTyped ==
  ASSUME NEW order \in Nat, NEW b \in Nat
  PROVE  /\ Scope(order) \in Scopes /\ ScopeIn(Scope(order), b)
         /\ Scope(order).order = order /\ Scope(order).byName = <<>>
<1>1. <<>> \in Maps
  <2>1. {} \in SUBSET Names
    OBVIOUS
  <2>2. <<>> \in [{} -> Nat]
    OBVIOUS
  <2> QED
    BY <2>1, <2>2 DEF Maps
<1>2. <<>> \in Seq(Nat) /\ <<>> \in Seq(1..b)
  OBVIOUS
<1> QED
  BY <1>1, <1>2 DEF Scope, Scopes, ScopeIn


Pushed(new, old, order, b) ==
  /\ Len(old) \in Nat /\ new \in Seq(Scopes) /\ Len(new) = Len(old) + 1
  /\ \A k \in 1..Len(old) : new[k] = old[k]
  /\ new[Len(old) + 1].order = order /\ new[Len(old) + 1].byName = <<>>
  /\ \A k \in 1..(Len(old) + 1) : ScopeIn(new[k], b)

LEMMA PushTyped ==
  ASSUME NEW old \in Seq(Scopes), NEW order \in Nat, NEW b \in Nat,
         \A k \in 1..Len(old) : ScopeIn(old[k], b)
  PROVE  Pushed(Append(old, Scope(order)), old, order, b)
<1> PICK s : s = Scope(order)
  OBVIOUS
<1> PICK new : new = Append(old, s)
  OBVIOUS
<1> PICK l : l = Len(old)
  OBVIOUS
<1>1. s \in Scopes /\ ScopeIn(s, b) /\ s.order = order /\ s.byName = <<>>
  BY ScopeTyped
<1>2. /\ l \in Nat /\ new \in Seq(Scopes) /\ Len(new) = l + 1
      /\ \A k \in 1..l : new[k] = old[k]
      /\ new[l + 1] = s
  BY <1>1, AppendProperties
<1>3. \A k \in 1..(l + 1) : k = l + 1 \/ k \in 1..l
  BY <1>2
<1>4. \A k \in 1..(l + 1) : ScopeIn(new[k], b)
  BY <1>1, <1>2, <1>3
<1> QED
  BY <1>1, <1>2, <1>4 DEF Pushed

LEMMA ReportsSettled ==
  ASSUME Inv, Len(storage') \in Nat, Len(storage') >= Len(storage)
  PROVE  /\ reports \in Seq(Reports) /\ nextOrder \in Nat /\ finished \in BOOLEAN
         /\ \A k \in 1..Len(reports) : reports[k].symbols \in Seq(1..Len(storage'))
<1>1. \A k \in 1..Len(reports) : reports[k].symbols \in Seq(1..Len(storage))
  BY DEF Inv, TypeOK
<1>2. Len(storage) \in Nat /\ Len(storage) <= Len(storage')
  BY DEF Inv, Typed
<1>3. \A k \in 1..Len(reports) : reports[k].symbols \in Seq(1..Len(storage'))
  BY <1>1, <1>2, WiderSeq
<1> QED
  BY <1>3 DEF Inv, Typed, TypeOK, Reports

LEMMA OpenNumbered ==
  ASSUME Inv, ~ finished, finished' = finished, nextOrder' = nextOrder + 1, reports' = reports,
         NEW l \in Nat, l = Len(scopes), Len(scopes') = l + 1,
         \A k \in 1..l : scopes'[k].order = scopes[k].order,
         scopes'[l + 1].order = nextOrder
  PROVE  Numbered'
<1> PICK open : open = scopes
  OBVIOUS
<1> PICK new : new = scopes'
  OBVIOUS
<1> PICK closed : closed = reports
  OBVIOUS
<1> PICK next : next = nextOrder
  OBVIOUS
<1> PICK r : r = Len(reports)
  OBVIOUS
<1>1. Numbers(open, closed, next) /\ r \in Nat /\ next \in Nat
  BY DEF Inv, Numbered, Typed
<1>2. l = Len(open) /\ Len(new) = l + 1 /\ r = Len(closed)
      /\ (\A k \in 1..l : new[k].order = open[k].order) /\ new[l + 1].order = next
  OBVIOUS
<1>3. Numbers(new, closed, next + 1)
  BY <1>1, <1>2, NumbersPush
<1>4. Numbers(scopes', reports', nextOrder')
  BY <1>3
<1> QED
  BY <1>4 DEF Numbered, Numbers

(* A scope is opened on the scopes `old'.                                  *)
LEMMA OpenStep ==
  ASSUME Inv, ~ finished, NEW p, NEW uses, Noted(p, uses), p.kind \in Opening,
         \A u \in uses : u.role = "declaration" /\ u.symbol \in 0..Len(storage'),
         storage' \in Seq(Symbols),
         NEW old \in Seq(Scopes), Len(old) = Len(scopes),
         \A k \in 1..Len(scopes) : ScopeIn(old[k], Len(storage')),
         \A k \in 1..Len(scopes) : old[k].order = scopes[k].order,
         scopes' = Append(old, Scope(nextOrder)),
         \A k \in 1..Len(scopes) : \A name \in Names : Entry(k, name)',
         parameters' \in Seq(Parameter), parameters' # <<>> => Len(scopes) = 1,
         nextOrder' = nextOrder + 1, reports' = reports, finished' = finished
  PROVE  Inv'
<1> PICK n : n = Len(program)
  OBVIOUS
<1> PICK l : l = Len(scopes)
  OBVIOUS
<1> PICK order : order = nextOrder
  OBVIOUS
<1>1. /\ n \in Nat /\ TextOK /\ Grows(p) /\ l \in Nat \ {0} /\ order \in Nat
      /\ Len(storage') \in Nat /\ Len(storage') >= Len(storage)
  BY NotedFacts DEF Noted, Inv, Nesting, Typed
<1>2. /\ scopes' \in Seq(Scopes) /\ Len(scopes') = l + 1
      /\ \A k \in 1..l : scopes'[k] = old[k]
      /\ scopes'[l + 1].order = order /\ scopes'[l + 1].byName = <<>>
      /\ \A k \in 1..(l + 1) : ScopeIn(scopes'[k], Len(storage'))
  <2> PICK new : new = scopes'
    OBVIOUS
  <2> PICK b : b = Len(storage')
    OBVIOUS
  <2>1. b \in Nat /\ l = Len(old) /\ \A k \in 1..l : ScopeIn(old[k], b)
    BY <1>1
  <2>2. Pushed(Append(old, Scope(order)), old, order, b)
    BY <1>1, <2>1, PushTyped
  <2>3. Pushed(new, old, order, b)
    BY <2>2
  <2> QED
    BY <2>1, <2>3 DEF Pushed
<1>3. Depth(n + 1)' = l
  <2>1. Depth(n + 1)' = Depth(n) + 1
    BY <1>1, DepthGrows DEF Opening
  <2> QED
    BY <1>1, <2>1 DEF Inv, Nesting
<1>4. Nesting'
  <2>1. Depth(n + 1)' = Len(scopes') - 1 /\ Len(scopes') \in Nat \ {0}
    BY <1>1, <1>2, <1>3
  <2>2. parameters' # <<>> => Len(scopes') = 2
    BY <1>2
  <2> QED
    BY <2>1, <2>2, NestingStep
<1>5. Settled(uses)
  <2>1. /\ reports \in Seq(Reports) /\ nextOrder \in Nat /\ finished \in BOOLEAN
        /\ \A k \in 1..Len(reports) : reports[k].symbols \in Seq(1..Len(storage'))
    BY <1>1, ReportsSettled
  <2> QED
    BY <1>1, <1>2, <2>1 DEF Settled
<1>6. Typed' /\ TypeOK'
  BY <1>5, TypeStep
<1>7. BindingsExact'
  BY BindingsStep
<1>8. Table'
  <2>1. \A name \in Names : Entry(l + 1, name)'
    BY <1>1, <1>2, <1>3, NewScopeEmpty
  <2>2. \A k \in 1..(l + 1) : k = l + 1 \/ k \in 1..l
    BY <1>1
  <2>3. \A k \in 1..Len(scopes') : \A name \in Names : Entry(k, name)'
    BY <1>2, <2>1, <2>2
  <2>4. Names' = Names
    BY DEF Names
  <2> QED
    BY <2>3, <2>4 DEF Table
<1>9. Numbered'
  <2>1. \A k \in 1..l : scopes'[k].order = scopes[k].order
    BY <1>2
  <2> QED
    BY <1>1, <1>2, <2>1, OpenNumbered
<1> QED
  BY <1>4, <1>6, <1>7, <1>8, <1>9 DEF Inv


(* A step that declares nothing and keeps every symbol.                    *)
LEMMA PlainNoted ==
  ASSUME Inv, NEW p, Grows(p), NEW uses \in SUBSET Uses,
         annotations' = Append(annotations, uses), storage' = storage
  PROVE  Noted(p, uses)
<1>1. Len(storage) \in Nat
  BY DEF Inv, Typed
<1> QED
  BY <1>1 DEF Noted

(* A statement changes nothing but the text and what is reported.          *)
LEMMA StatementStep ==
  ASSUME Inv, ~ finished, NEW p, Grows(p), p.kind \notin Declaring \union Opening \union {"close"},
         NEW uses, AllRight(uses), annotations' = Append(annotations, uses),
         scopes' = scopes, storage' = storage, parameters' = parameters,
         nextOrder' = nextOrder, reports' = reports, finished' = finished
  PROVE  Inv'
<1> PICK n : n = Len(program)
  OBVIOUS
<1> PICK l : l = Len(scopes)
  OBVIOUS
<1>1. /\ \A u \in uses : u \in Uses /\ u.symbol \in 0..Len(storage)
      /\ \A u \in uses : u.role # "declaration" => Right(u)
  BY DEF AllRight, Right, Pointer
<1>2. Noted(p, uses)
  <2>1. uses \in SUBSET Uses
    BY <1>1
  <2> QED
    BY <2>1, PlainNoted
<1>3. TextOK /\ l \in Nat \ {0} /\ Len(storage) \in Nat /\ Depth(n) = l - 1
  BY DEF Inv, Nesting, Typed
<1>4. p.kind \notin {"function", "block", "close"} /\ p.kind \notin Declaring
  BY DEF Opening
<1>5. Depth(n + 1)' = l - 1
  BY <1>3, <1>4, DepthGrows
<1>6. Nesting'
  <2>1. parameters' # <<>> => Len(scopes') = 2
    BY DEF Inv, Nesting
  <2>2. Depth(n + 1)' = Len(scopes') - 1 /\ Len(scopes') \in Nat \ {0}
    BY <1>3, <1>5
  <2> QED
    BY <1>2, <2>1, <2>2, NestingStep
<1>7. Settled(uses)
  <2>1. /\ reports \in Seq(Reports) /\ nextOrder \in Nat /\ finished \in BOOLEAN
        /\ \A k \in 1..Len(reports) : reports[k].symbols \in Seq(1..Len(storage'))
    BY <1>3, ReportsSettled
  <2>2. /\ storage \in Seq(Symbols) /\ scopes \in Seq(Scopes) /\ parameters \in Seq(Parameter)
        /\ \A k \in 1..Len(scopes) : ScopeIn(scopes[k], Len(storage))
    BY DEF Inv, Typed, TypeOK, ScopeOK, ScopeIn
  <2> QED
    BY <1>1, <2>1, <2>2 DEF Settled
<1>8. Typed' /\ TypeOK'
  BY <1>2, <1>7, TypeStep
<1>9. BindingsExact'
  BY <1>1, <1>2, BindingsStep
<1>10. Table'
  <2>1. \A k \in 1..l : scopes'[k] = scopes[k]
    OBVIOUS
  <2>2. l \in Nat /\ l <= Len(scopes) /\ Depth(n + 1)' >= l - 1
    BY <1>3, <1>5
  <2>3. \A k \in 1..l : \A name \in Names : Entry(k, name)'
    BY <1>2, <1>4, <2>1, <2>2, TableKept
  <2>4. Names' = Names
    BY DEF Names
  <2> QED
    BY <2>3, <2>4 DEF Table
<1>11. Numbered'
  <2>1. Numbers(scopes, reports, nextOrder)
    BY DEF Inv, Numbered
  <2>2. Numbers(scopes', reports', nextOrder')
    BY <2>1
  <2> QED
    BY <2>2 DEF Numbered, Numbers
<1> QED
  BY <1>6, <1>8, <1>9, <1>10, <1>11 DEF Inv

(* A scope is closed and its report comes last.                            *)
LEMMA ReportTyped ==
  ASSUME Inv, ~ finished
  PROVE  /\ ScopeReport \in Reports /\ ScopeReport.order = scopes[Len(scopes)].order
         /\ ScopeReport.symbols \in Seq(1..Len(storage))
<1> PICK l : l = Len(scopes)
  OBVIOUS
<1>1. l \in Nat \ {0} /\ l \in 1..l /\ scopes \in Seq(Scopes)
  BY DEF Inv, Nesting, Typed
<1>2. scopes[l] \in Scopes
  BY <1>1
<1>3. scopes[l].declared \in Seq(1..Len(storage))
  BY <1>1 DEF Inv, TypeOK, ScopeOK
<1>4. l - 1 \in Int /\ scopes[l].order \in Nat /\ scopes[l].declared \in Seq(Nat)
  BY <1>1, <1>2 DEF Scopes
<1>5. ScopeReport = [order |-> scopes[l].order, depth |-> l - 1, symbols |-> scopes[l].declared]
  BY DEF ScopeReport, Innermost, depth
<1> QED
  BY <1>3, <1>4, <1>5 DEF Reports

LEMMA CloseNumbered ==
  ASSUME Inv, ~ finished, finished' = finished, nextOrder' = nextOrder,
         NEW m \in Nat, Len(scopes) = m + 1, Len(scopes') = m,
         \A k \in 1..m : scopes'[k] = scopes[k],
         NEW r \in Nat, Len(reports) = r, Len(reports') = r + 1,
         \A k \in 1..r : reports'[k] = reports[k],
         reports'[r + 1].order = scopes[m + 1].order
  PROVE  Numbered'
<1> PICK open : open = scopes
  OBVIOUS
<1> PICK new : new = scopes'
  OBVIOUS
<1> PICK closed : closed = reports
  OBVIOUS
<1> PICK more : more = reports'
  OBVIOUS
<1> PICK next : next = nextOrder
  OBVIOUS
<1>1. Numbers(open, closed, next) /\ next \in Nat
  BY DEF Inv, Numbered, Typed
<1>2. /\ m + 1 \in Nat /\ m + 1 = Len(open) /\ m = Len(new) /\ r = Len(closed)
      /\ r + 1 \in Nat /\ r + 1 = Len(more)
      /\ \A k \in 1..m : new[k] = open[k]
      /\ \A k \in 1..r : more[k] = closed[k]
      /\ more[r + 1].order = open[m + 1].order
  OBVIOUS
<1>3. Numbers(new, more, next)
  BY <1>1, <1>2, NumbersPop
<1>4. Numbers(scopes', reports', nextOrder')
  BY <1>3
<1> QED
  BY <1>4 DEF Numbered, Numbers

LEMMA CloseStep ==
  ASSUME Inv, ~ finished, Len(scopes) > 1, parameters = <<>>, NEW p, Grows(p), p.kind = "close",
         annotations' = Append(annotations, {}), storage' = storage, scopes' = popScope,
         reports' = Append(reports, ScopeReport), parameters' = parameters,
         nextOrder' = nextOrder, finished' = finished
  PROVE  Inv'
<1> PICK n : n = Len(program)
  OBVIOUS
<1> PICK l : l = Len(scopes)
  OBVIOUS
<1> PICK m : m = l - 1
  OBVIOUS
<1> PICK r : r = Len(reports)
  OBVIOUS
<1> PICK report : report = ScopeReport
  OBVIOUS
<1> PICK uses : uses = {}
  OBVIOUS
<1>1. Noted(p, uses)
  BY PlainNoted
<1>0. /\ TextOK /\ l \in Nat /\ l > 1 /\ Depth(n) = l - 1
      /\ Len(storage) \in Nat /\ scopes \in Seq(Scopes) /\ r \in Nat
  BY DEF Inv, Nesting, Typed
<1>2. /\ TextOK /\ l \in Nat /\ m \in Nat \ {0} /\ l = m + 1 /\ Depth(n) = m
      /\ Len(storage) \in Nat /\ scopes \in Seq(Scopes) /\ r \in Nat
  BY <1>0
<1>3. /\ scopes' \in Seq(Scopes) /\ Len(scopes') = m
      /\ \A k \in 1..m : scopes'[k] = scopes[k]
  <2>1. scopes' = SubSeq(scopes, 1, m)
    BY DEF popScope
  <2> QED
    BY <1>2, <2>1
<1>4. p.kind \notin Declaring
  BY DEF Declaring
<1>5. Depth(n + 1)' = m - 1
  BY <1>2, DepthGrows
<1>6. Nesting'
  <2>1. Depth(n + 1)' = Len(scopes') - 1 /\ Len(scopes') \in Nat \ {0}
    BY <1>2, <1>3, <1>5
  <2> QED
    BY <1>1, <2>1, NestingStep
<1>7. report \in Reports /\ report.order = scopes[l].order /\ report.symbols \in Seq(1..Len(storage))
  BY ReportTyped
<1>8. /\ Len(reports') = r + 1 /\ reports' \in Seq(Reports)
      /\ reports'[r + 1] = report /\ \A k \in 1..r : reports'[k] = reports[k]
  <2>1. reports \in Seq(Reports)
    BY DEF Inv, Typed, Reports
  <2>2. reports' = Append(reports, report)
    OBVIOUS
  <2> QED
    BY <1>7, <2>1, <2>2, AppendProperties
<1>9. Settled(uses)
  <2>1. /\ nextOrder \in Nat /\ finished \in BOOLEAN
        /\ \A k \in 1..Len(reports) : reports[k].symbols \in Seq(1..Len(storage))
    BY <1>2, ReportsSettled
  <2>2. /\ storage \in Seq(Symbols) /\ parameters \in Seq(Parameter)
        /\ \A k \in 1..Len(scopes) : ScopeIn(scopes[k], Len(storage))
    BY DEF Inv, Typed, TypeOK, ScopeOK, ScopeIn
  <2>3. \A k \in 1..m : ScopeIn(scopes'[k], Len(storage))
    BY <1>2, <1>3, <2>2
  <2>4. \A k \in 1..(r + 1) : reports'[k].symbols \in Seq(1..Len(storage))
    <3>1. \A k \in 1..(r + 1) : k = r + 1 \/ k \in 1..r
      BY <1>2
    <3> QED
      BY <1>7, <1>8, <2>1, <3>1
  <2> QED
    BY <1>3, <1>8, <2>1, <2>2, <2>3, <2>4 DEF Settled
<1>10. Typed' /\ TypeOK'
  BY <1>1, <1>9, TypeStep
<1>11. BindingsExact'
  BY <1>1, BindingsStep
<1>12. Table'
  <2>1. m \in Nat /\ m <= Len(scopes) /\ Depth(n + 1)' >= m - 1
    BY <1>2, <1>5
  <2>2. \A k \in 1..m : \A name \in Names : Entry(k, name)'
    BY <1>1, <1>3, <1>4, <2>1, TableKept
  <2>3. Names' = Names
    BY DEF Names
  <2> QED
    BY <1>3, <2>2, <2>3 DEF Table
<1>13. Numbered'
  BY <1>2, <1>3, <1>7, <1>8, CloseNumbered
<1> QED
  BY <1>6, <1>10, <1>11, <1>12, <1>13 DEF Inv


-----------------------------------------------------------------------------
(* The end of the program.                                                 *)

(* Reports numbered from 0 without a gap.                                  *)
Numbering(found) ==
  /\ Len(found) \in Nat
  /\ \A i \in 1..Len(found) : found[i].order \in 0..(Len(found) - 1)
  /\ \A i, j \in 1..Len(found) : found[i].order = found[j].order => i = j
  /\ \A o \in 0..(Len(found) - 1) : \E i \in 1..Len(found) : found[i].order = o

LEMMA BeforeCount ==
  ASSUME NEW found, Numbering(found), NEW i \in 1..Len(found)
  PROVE  Cardinality({j \in 1..Len(found) : found[j].order < found[i].order}) = found[i].order
<1> PICK m : m = Len(found)
  OBVIOUS
<1> PICK o : o = found[i].order
  OBVIOUS
<1> DEFINE S == {j \in 1..m : found[j].order < o}
           T == 0..(o - 1)
           F == [j \in S |-> found[j].order]
<1>1. m \in Nat /\ o \in 0..(m - 1)
  BY DEF Numbering
<1>2. \A j \in 1..m : found[j].order \in 0..(m - 1)
  BY DEF Numbering
<1>3. \A j, k \in 1..m : found[j].order = found[k].order => j = k
  BY DEF Numbering
<1>4. \A k \in 0..(m - 1) : \E j \in 1..m : found[j].order = k
  BY DEF Numbering
<1>5. F \in Injection(S, T)
  <2>1. \A j \in S : found[j].order \in T
    BY <1>1, <1>2
  <2>2. \A j, k \in S : F[j] = F[k] => j = k
    BY <1>3
  <2> QED
    BY <2>1, <2>2 DEF Injection, IsInjective
<1>6. F \in Surjection(S, T)
  <2>1. F \in [S -> T]
    BY <1>5 DEF Injection
  <2>2. ASSUME NEW k \in T
        PROVE  \E j \in S : F[j] = k
    <3>1. k \in 0..(m - 1) /\ k < o
      BY <1>1
    <3>2. PICK j \in 1..m : found[j].order = k
      BY <1>4, <3>1
    <3>3. j \in S
      BY <3>1, <3>2
    <3> QED
      BY <3>2, <3>3
  <2> QED
    BY <2>1, <2>2 DEF Surjection
<1>7. ExistsBijection(S, T)
  BY <1>5, <1>6 DEF ExistsBijection, Bijection
<1>8. IsFiniteSet(S)
  <2>1. IsFiniteSet(1..m)
    BY <1>1, FS_Interval
  <2> QED
    BY <2>1, FS_Subset
<1> HIDE DEF S
<1>9. Cardinality(T) = Cardinality(S)
  BY <1>7, <1>8, FS_Bijection
<1>10. Cardinality(T) = o
  <2>1. 0 \in Int /\ o - 1 \in Int
    BY <1>1
  <2>2. Cardinality(0..(o - 1)) = IF 0 > o - 1 THEN 0 ELSE (o - 1) - 0 + 1
    BY <2>1, FS_Interval
  <2> QED
    BY <1>1, <2>2
<1> QED
  BY <1>9, <1>10 DEF S

LEMMA SortedFacts ==
  ASSUME NEW found, Numbering(found)
  PROVE  /\ Len(found) \in Nat /\ Len(Sorted(found)) = Len(found)
         /\ \A R : found \in Seq(R) => Sorted(found) \in Seq(R)
         /\ \A k \in 1..Len(found) : /\ \E i \in 1..Len(found) : Sorted(found)[k] = found[i]
                                     /\ Sorted(found)[k].order = k - 1
<1> PICK m : m = Len(found)
  OBVIOUS
<1> DEFINE Before(i) == {j \in 1..Len(found) : found[j].order < found[i].order}
           C(k) == CHOOSE i \in 1..Len(found) : Cardinality(Before(i)) = k - 1
<1>1. m \in Nat /\ \A k \in 0..(m - 1) : \E i \in 1..m : found[i].order = k
  BY DEF Numbering
<1>2. \A i \in 1..m : Cardinality(Before(i)) = found[i].order
  BY BeforeCount
<1>3. Sorted(found) = [k \in 1..m |-> found[C(k)]]
  BY DEF Sorted
<1> HIDE DEF Before
<1>4. ASSUME NEW k \in 1..m
      PROVE  C(k) \in 1..m /\ found[C(k)].order = k - 1
  <2>1. k - 1 \in 0..(m - 1)
    BY <1>1
  <2>2. \E i \in 1..m : Cardinality(Before(i)) = k - 1
    BY <1>1, <1>2, <2>1
  <2>3. C(k) \in 1..m /\ Cardinality(Before(C(k))) = k - 1
    BY <2>2
  <2> QED
    BY <1>2, <2>3
<1> HIDE DEF C
<1>5. \A k \in 1..m : Sorted(found)[k] = found[C(k)]
  BY <1>3
<1>6. Len(Sorted(found)) = m
  BY <1>1, <1>3
<1>7. ASSUME NEW R, found \in Seq(R)
      PROVE  Sorted(found) \in Seq(R)
  <2>1. \A k \in 1..m : found[C(k)] \in R
    BY <1>4, <1>7
  <2> QED
    BY <1>1, <1>3, <2>1
<1> QED
  BY <1>1, <1>4, <1>5, <1>6, <1>7

(* The one scope left has joined the reports.                              *)
Joined(open, closed, found) ==
  /\ Len(open) = 1 /\ Len(closed) \in Nat /\ Len(found) = Len(closed) + 1
  /\ \A k \in 1..Len(closed) : found[k] = closed[k]
  /\ found[Len(closed) + 1].order = open[1].order

LEMMA NumbersLast ==
  ASSUME NEW open, NEW closed, NEW found, NEW next \in Nat, Numbers(open, closed, next),
         Joined(open, closed, found)
  PROVE  Numbering(found) /\ Len(found) = next
<1> PICK r \in Nat : r = Len(closed)
  BY DEF Joined
<1>0. /\ Len(open) = 1 /\ Len(found) = r + 1
      /\ \A k \in 1..r : found[k] = closed[k]
      /\ found[r + 1].order = open[1].order
  BY DEF Joined
<1>1. Len(open) + r = next
  BY DEF Numbers
<1>2. next = r + 1
  BY <1>0, <1>1
<1>3. open[1].order \in 0..r /\ \A k \in 1..r : closed[k].order \in 0..r
  BY <1>0, <1>2 DEF Numbers
<1>4. \A k, l \in 1..r : closed[k].order = closed[l].order => k = l
  BY DEF Numbers
<1>5. \A l \in 1..r : open[1].order # closed[l].order
  BY <1>0 DEF Numbers
<1>6. \A o \in 0..r : open[1].order = o \/ \E k \in 1..r : closed[k].order = o
  BY <1>0, <1>2 DEF Numbers
<1>7. \A k \in 1..(r + 1) : k = r + 1 \/ k \in 1..r
  OBVIOUS
<1>8. r + 1 \in 1..(r + 1) /\ \A k \in 1..r : k \in 1..(r + 1)
  OBVIOUS
<1>9. \A k \in 1..(r + 1) : found[k].order \in 0..r
  BY <1>0, <1>3, <1>7
<1>10. ASSUME NEW k \in 1..(r + 1), NEW l \in 1..(r + 1), found[k].order = found[l].order
       PROVE  k = l
  BY <1>0, <1>4, <1>5, <1>7, <1>10
<1>11. ASSUME NEW o \in 0..r
       PROVE  \E k \in 1..(r + 1) : found[k].order = o
  <2>1. CASE open[1].order = o
    BY <1>0, <1>8, <2>1
  <2>2. CASE \E k \in 1..r : closed[k].order = o
    BY <1>0, <1>8, <2>2
  <2> QED
    BY <1>6, <2>1, <2>2
<1>12. r + 1 \in Nat /\ (r + 1) - 1 = r
  OBVIOUS
<1> QED
  BY <1>0, <1>2, <1>9, <1>10, <1>11, <1>12 DEF Numbering

(* The last scope is the global one; with its report they are all there.   *)
LEMMA LastReport ==
  ASSUME Inv, ~ finished, Len(scopes) = 1
  PROVE  /\ Numbering(Append(reports, ScopeReport))
         /\ Len(Append(reports, ScopeReport)) = nextOrder
<1> PICK open : open = scopes
  OBVIOUS
<1> PICK closed : closed = reports
  OBVIOUS
<1> PICK report : report = ScopeReport
  OBVIOUS
<1> PICK found : found = Append(closed, report)
  OBVIOUS
<1> PICK next : next = nextOrder
  OBVIOUS
<1> PICK r : r = Len(closed)
  OBVIOUS
<1>1. Numbers(open, closed, next) /\ next \in Nat /\ r \in Nat /\ closed \in Seq(Reports)
  BY DEF Inv, Numbered, Typed, Reports
<1>2. report \in Reports /\ report.order = open[1].order
  BY ReportTyped
<1>3. /\ Len(found) = r + 1 /\ found[r + 1] = report
      /\ \A k \in 1..r : found[k] = closed[k]
  BY <1>1, <1>2, AppendProperties
<1>4. Joined(open, closed, found)
  BY <1>1, <1>2, <1>3 DEF Joined
<1>5. Numbering(found) /\ Len(found) = next
  BY <1>1, <1>4, NumbersLast
<1> QED
  BY <1>5

(* What a name means is a matter of the text.                              *)
LEMMA TextUnchanged ==
  ASSUME program' = program
  PROVE  /\ \A i : Depth(i)' = Depth(i)
         /\ \A i : InScope(i)' = InScope(i)
         /\ \A i : Redeclares(i)' <=> Redeclares(i)
         /\ \A name, i : Valid(name, i)' = Valid(name, i)
         /\ \A j : SymbolOf(j)' = SymbolOf(j)
<1>1. \A kinds, i : Count(kinds, i)' = Count(kinds, i)
  BY DEF Count
<1>2. \A i : Depth(i)' = Depth(i)
  BY <1>1 DEF Depth
<1>3. \A i : InScope(i)' = InScope(i)
  BY <1>2 DEF InScope
<1>4. \A name, i : DeclarationsOf(name, i)' = DeclarationsOf(name, i)
  BY <1>3 DEF DeclarationsOf
<1>5. \A i : Redeclares(i)' <=> Redeclares(i)
  BY <1>2, <1>4 DEF Redeclares, SameScope
<1>6. \A name, i : Valid(name, i)' = Valid(name, i)
  BY <1>4, <1>5 DEF Valid
<1>7. \A j : SymbolOf(j)' = SymbolOf(j)
  BY DEF SymbolOf, FunctionSymbol, ParameterSymbol, VariableSymbol, Symbol, Recorded
<1> QED
  BY <1>2, <1>3, <1>5, <1>6, <1>7

LEMMA MeaningUnchanged ==
  ASSUME TextOK, program' = program, NEW i \in 1..(Len(program) + 1), NEW name
  PROVE  Denotes(name, i)' = Denotes(name, i) /\ Meaning(name, i)' = Meaning(name, i)
<1>1. DenotesRight
  BY DenotesFacts
<1>2. DenotesRight'
  <2>1. TextOK'
    BY DEF TextOK
  <2> QED
    BY <2>1, DenotesFacts, PTL
<1>3. Valid(name, i)' = Valid(name, i) /\ \A j : Depth(j - 1)' = Depth(j - 1)
  BY TextUnchanged
<1>4. i \in 1..(Len(program') + 1)
  OBVIOUS
<1>5. Denotes(name, i)' = Denotes(name, i)
  <2>1. CASE Valid(name, i) = {}
    <3>1. Denotes(name, i) = 0
      BY <1>1, <2>1 DEF DenotesRight
    <3>2. Denotes(name, i)' = 0
      BY <1>2, <1>3, <1>4, <2>1 DEF DenotesRight
    <3> QED
      BY <3>1, <3>2
  <2>2. CASE Valid(name, i) # {}
    <3>1. PICK j \in Valid(name, i) :
            Denotes(name, i) = j /\ \A k \in Valid(name, i) : Depth(k - 1) <= Depth(j - 1)
      BY <1>1, <2>2 DEF DenotesRight
    <3>2. \A k \in Valid(name, i) : Depth(k - 1)' <= Depth(j - 1)'
      BY <1>3, <3>1
    <3>3. Denotes(name, i)' = j
      BY <1>2, <1>3, <1>4, <3>2 DEF DenotesRight
    <3> QED
      BY <3>1, <3>3
  <2> QED
    BY <2>1, <2>2
<1>6. \A j : SymbolOf(j)' = SymbolOf(j)
  BY TextUnchanged
<1>7. input' = input /\ output' = output
  BY DEF input, output, Symbol
<1>8. Meaning(name, i)' = Meaning(name, i)
  BY <1>5, <1>6, <1>7 DEF Meaning
<1> QED
  BY <1>5, <1>8

LEMMA BoundUnchanged ==
  ASSUME TextOK, program' = program, annotations' = annotations, storage' = storage,
         NEW i \in 1..(Len(program) + 1), NEW u, Bound(u, i)
  PROVE  Bound(u, i)'
  BY MeaningUnchanged DEF Bound, IsFunction, IsVariable

LEMMA EndStep ==
  ASSUME Inv, ~ finished, Len(scopes) = 1, scopes' = popScope,
         reports' = Sorted(Append(reports, ScopeReport)), finished' = TRUE,
         storage' = storage, nextOrder' = nextOrder, program' = program,
         annotations' = annotations, parameters' = parameters
  PROVE  Inv'
<1> PICK report : report = ScopeReport
  OBVIOUS
<1> PICK found : found = Append(reports, report)
  OBVIOUS
<1>1. /\ scopes' = <<>> /\ parameters = <<>>
  <2>1. scopes \in Seq(Scopes) /\ (parameters # <<>> => Len(scopes) = 2)
    BY DEF Inv, Nesting, Typed
  <2>2. SubSeq(scopes, 1, 0) = <<>>
    BY <2>1
  <2>3. scopes' = SubSeq(scopes, 1, 0)
    BY DEF popScope
  <2> QED
    BY <2>1, <2>2, <2>3
<1>2. /\ reports \in Seq(Reports) /\ report \in Reports
      /\ report.symbols \in Seq(1..Len(storage))
      /\ \A k \in 1..Len(reports) : reports[k].symbols \in Seq(1..Len(storage))
  BY ReportTyped DEF Inv, Typed, TypeOK, Reports
<1>3. found \in Seq(Reports) /\ \A k \in 1..Len(found) : found[k].symbols \in Seq(1..Len(storage))
  BY <1>2, AppendProperties
<1>4. Numbering(found)
  BY LastReport
<1>5. /\ Sorted(found) \in Seq(Reports) /\ Len(Sorted(found)) = Len(found)
      /\ \A k \in 1..Len(found) : \E i \in 1..Len(found) : Sorted(found)[k] = found[i]
  BY <1>3, <1>4, SortedFacts
<1> PICK sorted : sorted = Sorted(found)
  OBVIOUS
<1>6. /\ reports' = sorted /\ sorted \in Seq(Reports)
      /\ \A k \in 1..Len(sorted) : sorted[k].symbols \in Seq(1..Len(storage))
  <2>1. sorted \in Seq(Reports) /\ Len(sorted) = Len(found)
    BY <1>5
  <2>2. ASSUME NEW k \in 1..Len(sorted)
        PROVE  sorted[k].symbols \in Seq(1..Len(storage))
    <3>1. PICK i \in 1..Len(found) : sorted[k] = found[i]
      BY <1>5, <2>1
    <3> QED
      BY <1>3, <3>1
  <2> QED
    BY <2>1, <2>2
<1>7. Typed'
  BY <1>1, <1>6 DEF Inv, Typed, TextOK, Reports, input, output, Symbol
<1>8. TypeOK'
  <2>1. \A k \in 1..Len(scopes') : ScopeOK(scopes[k])'
    BY <1>1
  <2>2. \A k \in 1..Len(reports') : reports'[k].symbols \in Seq(1..Len(storage'))
    BY <1>6
  <2>3. \A i \in 1..Len(annotations') : \A u \in annotations'[i] : u.symbol \in Pointer'
    BY DEF Inv, TypeOK, Pointer
  <2>4. /\ \A i \in 1..Len(storage') :
             storage'[i].kind \in {"variable", "parameter", "function"} /\ storage'[i].type \in Types
        /\ Len(annotations') = Len(program') /\ nextOrder' \in Nat /\ finished' \in BOOLEAN
    BY DEF Inv, TypeOK
  <2> QED
    BY <2>1, <2>2, <2>3, <2>4 DEF TypeOK
<1>9. Nesting'
  <2>1. \A i \in 0..Len(program) : Depth(i)' = Depth(i)
    BY DEF Depth, Count
  <2> QED
    BY <1>1, <2>1 DEF Inv, Nesting
<1>10. BindingsExact'
  <2>1. \A i \in 1..Len(program) : \A u \in annotations[i] :
          u.role # "declaration" => Bound(u, i)
    BY DEF Inv, BindingsExact
  <2>2. TextOK /\ \A i \in 1..Len(program) : i \in 1..(Len(program) + 1)
    BY DEF Inv, Typed, TextOK
  <2>3. \A i \in 1..Len(program) : \A u \in annotations[i] :
          u.role # "declaration" => Bound(u, i)'
    BY <2>1, <2>2, BoundUnchanged
  <2> QED
    BY <2>3 DEF BindingsExact
<1> QED
  BY <1>7, <1>8, <1>9, <1>10 DEF Inv, Table, Numbered


-----------------------------------------------------------------------------
(* The invariant holds.                                                    *)

LEMMA InitInv == Init => Inv
<1> SUFFICES ASSUME Init
             PROVE  Inv
  OBVIOUS
<1> DEFINE map == [x \in {"input", "output"} |-> IF x = "input" THEN 1 ELSE 2]
           global == [order |-> 0, declared |-> <<1, 2>>, byName |-> map]
<1>1. /\ storage = <<input, output>> /\ scopes = <<global>> /\ nextOrder = 1
      /\ program = <<>> /\ annotations = <<>> /\ reports = <<>> /\ parameters = <<>>
      /\ finished = FALSE
  BY DEF Init
<1>2. map \in [{"input", "output"} -> Nat] /\ {"input", "output"} \in SUBSET Names
  BY DEF Names, BuiltIns
<1>3. map \in Maps
  BY <1>2 DEF Maps
<1>4. DOMAIN map = BuiltIns /\ map["input"] = 1 /\ map["output"] = 2
      /\ \A x \in BuiltIns : map[x] = IF x = "input" THEN 1 ELSE 2
  BY DEF BuiltIns
<1> HIDE DEF map
<1>5. <<1, 2>> \in Seq(Nat) /\ <<1, 2>> \in Seq(1..2) /\ Len(<<1, 2>>) = 2
  OBVIOUS
<1>6. global \in Scopes /\ global.order = 0 /\ global.byName = map /\ global.declared = <<1, 2>>
  BY <1>3, <1>5 DEF Scopes
<1> HIDE DEF global
<1>7. Len(scopes) = 1 /\ scopes \in Seq(Scopes) /\ scopes[1] = global
  BY <1>1, <1>6
<1>8. input \in Symbols /\ output \in Symbols
  <2>1. <<>> \in Seq(Types) /\ <<"int">> \in Seq(Types)
    BY DEF Types
  <2>2. "input" \in Names /\ "output" \in Names /\ "int" \in Types /\ "void" \in Types
    BY DEF Names, BuiltIns, Types
  <2> QED
    BY <2>1, <2>2 DEF input, output, Symbol, Symbols
<1>9. storage \in Seq(Symbols) /\ Len(storage) = 2 /\ storage[1] = input /\ storage[2] = output
  BY <1>1, <1>8
<1>10. /\ TextOK /\ annotations \in Seq(SUBSET Uses) /\ parameters \in Seq(Parameter)
       /\ reports \in Seq(Reports) /\ nextOrder \in Nat
       /\ Len(program) = 0 /\ Len(annotations) = 0 /\ Len(reports) = 0
  BY <1>1 DEF TextOK
<1>11. Typed
  BY <1>7, <1>9, <1>10 DEF Typed, Reports
<1>12. TypeOK
  <2>1. \A i \in 1..2 : storage[i].kind = "function" /\ storage[i].type \in Types
    BY <1>9 DEF input, output, Symbol, Types
  <2>2. ScopeOK(global)
    BY <1>4, <1>5, <1>6, <1>9 DEF ScopeOK, BuiltIns
  <2>3. \A k \in 1..Len(scopes) : ScopeOK(scopes[k])
    BY <1>7, <2>2
  <2>4. \A i \in 1..Len(storage) :
          storage[i].kind \in {"variable", "parameter", "function"} /\ storage[i].type \in Types
    BY <1>9, <2>1
  <2>5. \A i \in 1..Len(annotations) : \A u \in annotations[i] : u.symbol \in Pointer
    <3>1. \A i : i \notin 1..0
      OBVIOUS
    <3> QED
      BY <1>10, <3>1
  <2>6. \A k \in 1..Len(reports) : reports[k].symbols \in Seq(1..Len(storage))
    BY <1>10
  <2>7. Len(annotations) = Len(program) /\ nextOrder \in Nat /\ finished \in BOOLEAN
    BY <1>1, <1>10
  <2> QED
    BY <2>3, <2>4, <2>5, <2>6, <2>7 DEF TypeOK
<1>13. Nesting
  <2>1. Depth(0) = 0
    BY <1>10, DepthFacts
  <2> QED
    BY <1>1, <1>7, <1>10, <2>1 DEF Nesting
<1>14. Table
  <2>1. InScope(Here) = {}
    BY <1>10 DEF InScope, Here
  <2>2. \A name \in Names : Entry(1, name)
    BY <1>4, <1>6, <1>7, <2>1 DEF Entry, BuiltIn, BuiltIns
  <2> QED
    BY <1>7, <2>2 DEF Table
<1>15. BindingsExact
  BY <1>10 DEF BindingsExact
<1>16. Numbered
  BY <1>1, <1>6, <1>7, <1>10 DEF Numbered, Numbers
<1> QED
  BY <1>11, <1>12, <1>13, <1>14, <1>15, <1>16 DEF Inv


LEMMA VariableStep ==
  ASSUME Inv, NEW kind \in {"global", "local"}, NEW v \in Variable, ~ finished,
         parameters = <<>> \/ Len(scopes) = 1, analyzeVarDecl(kind, v)
  PROVE  Inv'
<1> PICK p : p = Piece(kind, v)
  OBVIOUS
<1> PICK symbol : symbol = VariableSymbol(v)
  OBVIOUS
<1>1. p \in Text /\ p.kind = kind /\ p.of = v /\ symbol = SymbolFor(p)
  BY DEF Piece, Text, Kinds, SymbolFor
<1>2. /\ scopes' = declare(symbol) /\ storage' = Stored(symbol)
      /\ program' = Append(program, p) /\ annotations' = Append(annotations, DeclaredAs(symbol))
      /\ nextOrder' = nextOrder /\ parameters' = parameters /\ reports' = reports
      /\ finished' = finished
  BY DEF analyzeVarDecl, Visit
<1>3. Grows(p)
  BY <1>1, <1>2 DEF Grows
<1>4. parameters' \in Seq(Parameter) /\ (parameters' # <<>> => parameters # <<>>)
  BY <1>2 DEF Inv, Typed
<1> QED
  BY <1>1, <1>2, <1>3, <1>4, DeclarationStep

LEMMA ParameterStep ==
  ASSUME Inv, ~ finished, analyzeParam
  PROVE  Inv'
<1> PICK of : of = Head(parameters)
  OBVIOUS
<1> PICK p : p = Piece("parameter", of)
  OBVIOUS
<1> PICK symbol : symbol = ParameterSymbol(of)
  OBVIOUS
<1>1. parameters \in Seq(Parameter) /\ parameters # <<>>
  BY DEF Inv, Typed, analyzeParam
<1>2. of \in Parameter /\ Tail(parameters) \in Seq(Parameter)
  BY <1>1
<1>3. p \in Text /\ p.kind = "parameter" /\ p.of = of /\ symbol = SymbolFor(p)
  BY <1>2 DEF Piece, Text, Kinds, SymbolFor
<1>4. /\ scopes' = declare(symbol) /\ storage' = Stored(symbol)
      /\ program' = Append(program, p) /\ annotations' = Append(annotations, DeclaredAs(symbol))
      /\ nextOrder' = nextOrder /\ parameters' = Tail(parameters) /\ reports' = reports
      /\ finished' = finished
  BY DEF analyzeParam, Visit
<1>5. Grows(p)
  BY <1>3, <1>4 DEF Grows
<1> QED
  BY <1>1, <1>2, <1>3, <1>4, <1>5, DeclarationStep

LEMMA FunctionStep ==
  ASSUME Inv, OpenFunction
  PROVE  Inv'
<1>1. Len(scopes) = 1 /\ ~ finished
  BY DEF OpenFunction, AtTopLevel
<1> PICK h \in Header :
      LET symbol == FunctionSymbol(h)
      IN /\ scopes' = pushScope(declare(symbol))
         /\ storage' = Stored(symbol)
         /\ nextOrder' = nextOrder + 1
         /\ Visit(Piece("function", h), DeclaredAs(symbol), declareOrDiagnose(symbol), {})
         /\ parameters' = h.params
         /\ currentFunction' = h
         /\ UNCHANGED reports
  BY DEF OpenFunction
<1> PICK p : p = Piece("function", h)
  OBVIOUS
<1> PICK symbol : symbol = FunctionSymbol(h)
  OBVIOUS
<1> PICK old : old = declare(symbol)
  OBVIOUS
<1> PICK uses : uses = DeclaredAs(symbol)
  OBVIOUS
<1>2. p \in Text /\ p.kind = "function" /\ p.of = h /\ symbol = SymbolFor(p)
  BY DEF Piece, Text, Kinds, SymbolFor
<1>3. /\ scopes' = Append(old, Scope(nextOrder)) /\ storage' = Stored(symbol)
      /\ program' = Append(program, p) /\ annotations' = Append(annotations, uses)
      /\ nextOrder' = nextOrder + 1 /\ parameters' = h.params /\ reports' = reports
      /\ finished' = finished
  BY DEF Visit, pushScope
<1>4. Grows(p) /\ p.kind \in Declaring /\ p.kind \in Opening
  BY <1>2, <1>3 DEF Grows, Declaring, Opening
<1>5. Noted(p, uses) /\ \A u \in uses : u.role = "declaration" /\ u.symbol \in 0..Len(storage')
  <2>1. annotations' = Append(annotations, DeclaredAs(symbol))
    BY <1>3
  <2> QED
    BY <1>1, <1>2, <1>3, <1>4, <2>1, DeclareNoted
<1>6. /\ old \in Seq(Scopes) /\ Len(old) = Len(scopes) /\ storage' \in Seq(Symbols)
      /\ \A k \in 1..Len(scopes) : ScopeIn(old[k], Len(storage'))
      /\ \A k \in 1..Len(scopes) : old[k].order = scopes[k].order
  BY <1>1, <1>2, <1>3, <1>4, DeclareTyped
<1>7. \A k \in 1..Len(scopes) : \A name \in Names : Entry(k, name)'
  <2>1. ASSUME NEW k \in 1..Len(scopes)
        PROVE  scopes'[k] = declare(symbol)[k]
    <3>1. scopes'[k] = old[k]
      BY <1>3, <1>6
    <3> QED
      BY <3>1
  <2>2. Noted(p, DeclaredAs(symbol))
    BY <1>5 DEF Noted
  <2> QED
    BY <1>1, <1>2, <1>3, <1>4, <2>1, <2>2, DeclaredTable
<1>8. parameters' \in Seq(Parameter)
  BY <1>3, ProgramAssumption
<1> QED
  BY <1>1, <1>3, <1>4, <1>5, <1>6, <1>7, <1>8, OpenStep

LEMMA BlockStep ==
  ASSUME Inv, ~ finished, OpenBlock
  PROVE  Inv'
<1> PICK p : p = Piece("block", None)
  OBVIOUS
<1> PICK uses : uses = {}
  OBVIOUS
<1> PICK old : old = scopes
  OBVIOUS
<1>1. /\ scopes' = Append(old, Scope(nextOrder)) /\ storage' = storage
      /\ program' = Append(program, p) /\ annotations' = Append(annotations, uses)
      /\ nextOrder' = nextOrder + 1 /\ parameters' = parameters /\ reports' = reports
      /\ finished' = finished /\ parameters = <<>>
  BY DEF OpenBlock, InFunction, Visit, pushScope
<1>2. p \in Text /\ p.kind = "block" /\ Grows(p) /\ p.kind \notin Declaring /\ p.kind \in Opening
  BY <1>1 DEF Piece, Text, Kinds, Grows, Declaring, Opening
<1>3. Noted(p, uses)
  BY <1>1, <1>2, PlainNoted
<1>4. /\ scopes \in Seq(Scopes) /\ Len(scopes) \in Nat \ {0} /\ storage \in Seq(Symbols)
      /\ \A k \in 1..Len(scopes) : ScopeIn(scopes[k], Len(storage))
      /\ Depth(Len(program)) = Len(scopes) - 1 /\ TextOK
  <2>1. scopes \in Seq(Scopes) /\ storage \in Seq(Symbols) /\ TextOK
    BY DEF Inv, Typed
  <2>2. Len(scopes) \in Nat \ {0} /\ Depth(Len(program)) = Len(scopes) - 1
    BY <2>1 DEF Inv, Nesting
  <2>3. \A k \in 1..Len(scopes) : ScopeIn(scopes[k], Len(storage))
    BY DEF Inv, TypeOK, ScopeOK, ScopeIn
  <2> QED
    BY <2>1, <2>2, <2>3
<1>5. \A k \in 1..Len(scopes) : \A name \in Names : Entry(k, name)'
  <2> PICK n : n = Len(program)
    OBVIOUS
  <2> PICK l : l = Len(scopes)
    OBVIOUS
  <2>1. \A k \in 1..l : scopes'[k] = scopes[k]
    BY <1>1, <1>4
  <2>2. Depth(n + 1)' >= l - 1 /\ l \in Nat /\ l <= Len(scopes)
    <3>1. Depth(n + 1)' = Depth(n) + 1
      BY <1>2, <1>4, DepthGrows
    <3> QED
      BY <1>4, <3>1
  <2> QED
    BY <1>2, <1>3, <2>1, <2>2, TableKept
<1>6. /\ old \in Seq(Scopes) /\ Len(old) = Len(scopes) /\ storage' \in Seq(Symbols)
      /\ \A k \in 1..Len(scopes) : ScopeIn(old[k], Len(storage'))
      /\ \A k \in 1..Len(scopes) : old[k].order = scopes[k].order
  BY <1>1, <1>4
<1>7. parameters' \in Seq(Parameter) /\ (parameters' # <<>> => Len(scopes) = 1)
  BY <1>1
<1>8. \A u \in uses : u.role = "declaration" /\ u.symbol \in 0..Len(storage')
  OBVIOUS
<1> QED
  BY <1>1, <1>2, <1>3, <1>5, <1>6, <1>7, <1>8, OpenStep


LEMMA CloseScopeStep ==
  ASSUME Inv, ~ finished, CloseScope
  PROVE  Inv'
<1> PICK p : p = Piece("close", None)
  OBVIOUS
<1>1. /\ scopes' = popScope /\ reports' = Append(reports, ScopeReport) /\ storage' = storage
      /\ program' = Append(program, p) /\ annotations' = Append(annotations, {})
      /\ nextOrder' = nextOrder /\ parameters' = parameters /\ finished' = finished
      /\ Len(scopes) > 1 /\ parameters = <<>>
  BY DEF CloseScope, InFunction, Visit
<1>2. p.kind = "close" /\ Grows(p)
  BY <1>1 DEF Piece, Text, Kinds, Grows
<1> QED
  BY <1>1, <1>2, CloseStep

LEMMA ExpressionStep ==
  ASSUME Inv, ~ finished, NEW kind \in {"exprstmt", "condition", "return"}, NEW e \in Expr,
         NEW found, Statement(kind, e, analyzeExpr[e], found)
  PROVE  Inv'
<1> PICK p : p = Piece(kind, e)
  OBVIOUS
<1> PICK uses : uses = analyzeExpr[e].uses
  OBVIOUS
<1>1. /\ scopes' = scopes /\ reports' = reports /\ storage' = storage
      /\ program' = Append(program, p) /\ annotations' = Append(annotations, uses)
      /\ nextOrder' = nextOrder /\ parameters' = parameters /\ finished' = finished
  BY DEF Statement, Visit, table
<1>2. /\ p.kind = kind /\ p \in Text
      /\ p.kind \notin Declaring \union Opening \union {"close"}
  BY DEF Piece, Text, Kinds, Declaring, Opening
<1>3. Grows(p)
  BY <1>1, <1>2 DEF Grows
<1>4. AllRight(uses)
  BY UsesRight
<1> QED
  BY <1>1, <1>2, <1>3, <1>4, StatementStep

LEMMA ReturnStep ==
  ASSUME Inv, ~ finished, NEW found, Statement("return", None, Nothing, found)
  PROVE  Inv'
<1> PICK p : p = Piece("return", None)
  OBVIOUS
<1> PICK uses : uses = {}
  OBVIOUS
<1>1. /\ scopes' = scopes /\ reports' = reports /\ storage' = storage
      /\ program' = Append(program, p) /\ annotations' = Append(annotations, uses)
      /\ nextOrder' = nextOrder /\ parameters' = parameters /\ finished' = finished
  BY DEF Statement, Visit, table, Nothing, Result
<1>2. /\ p.kind = "return" /\ p \in Text
      /\ p.kind \notin Declaring \union Opening \union {"close"}
  BY DEF Piece, Text, Kinds, Declaring, Opening
<1>3. Grows(p)
  BY <1>1, <1>2 DEF Grows
<1>4. AllRight(uses)
  BY DEF AllRight
<1> QED
  BY <1>1, <1>2, <1>3, <1>4, StatementStep

LEMMA EndProgramStep ==
  ASSUME Inv, EndProgram
  PROVE  Inv'
<1>1. /\ ~ finished /\ Len(scopes) = 1 /\ scopes' = popScope
      /\ reports' = Sorted(Append(reports, ScopeReport)) /\ finished' = TRUE
      /\ storage' = storage /\ nextOrder' = nextOrder /\ program' = program
      /\ annotations' = annotations /\ parameters' = parameters
  BY DEF EndProgram, AtTopLevel
<1> QED
  BY <1>1, EndStep

LEMMA StutterStep ==
  ASSUME Inv, UNCHANGED vars
  PROVE  Inv'
<1>1. /\ scopes' = scopes /\ storage' = storage /\ nextOrder' = nextOrder
      /\ program' = program /\ annotations' = annotations /\ parameters' = parameters
      /\ reports' = reports /\ finished' = finished
  BY DEF vars, table
<1>2. Typed'
  BY <1>1 DEF Inv, Typed, TextOK, input, output, Symbol
<1>3. TypeOK'
  BY <1>1 DEF Inv, TypeOK, ScopeOK, Pointer
<1>4. Nesting'
  BY <1>1, TextUnchanged DEF Inv, Nesting
<1>5. Table'
  <2>1. Here' = Here
    BY <1>1 DEF Here
  <2>2. InScope(Here)' = InScope(Here)
    BY <1>1, <2>1 DEF InScope, Depth, Count
  <2>3. \A j, k, name : Declares(j, k, name)' <=> Declares(j, k, name)
    BY <1>1, <2>2, TextUnchanged DEF Declares
  <2>4. \A j, name, s : Holds(j, name, s)' <=> Holds(j, name, s)
    BY <1>1, TextUnchanged DEF Holds
  <2>5. \A k, name : Entry(k, name) => Entry(k, name)'
    BY <1>1, <2>2, <2>3, <2>4 DEF Entry, BuiltIn
  <2>6. Names' = Names
    BY DEF Names
  <2> QED
    BY <1>1, <2>5, <2>6 DEF Inv, Table
<1>6. BindingsExact'
  <2>1. TextOK /\ \A i \in 1..Len(program) : i \in 1..(Len(program) + 1)
    BY DEF Inv, Typed, TextOK
  <2>2. \A i \in 1..Len(program) : \A u \in annotations[i] :
          u.role # "declaration" => Bound(u, i)
    BY DEF Inv, BindingsExact
  <2>3. \A i \in 1..Len(program) : \A u \in annotations[i] :
          u.role # "declaration" => Bound(u, i)'
    BY <1>1, <2>1, <2>2, BoundUnchanged
  <2> QED
    BY <1>1, <2>3 DEF BindingsExact
<1>7. Numbered'
  BY <1>1 DEF Inv, Numbered, Numbers
<1> QED
  BY <1>2, <1>3, <1>4, <1>5, <1>6, <1>7 DEF Inv

LEMMA NextInv == Inv /\ [Next]_vars => Inv'
<1> SUFFICES ASSUME Inv, [Next]_vars
             PROVE  Inv'
  OBVIOUS
<1>0. /\ finished => Len(scopes) = 0 /\ parameters = <<>>
      /\ parameters # <<>> => Len(scopes) = 2
  BY DEF Inv, Nesting
<1>1. InFunction => ~ finished
  BY <1>0 DEF InFunction
<1>2. CASE GlobalVariable
  <2>1. PICK v \in Variable : analyzeVarDecl("global", v)
    BY <1>2 DEF GlobalVariable
  <2>2. ~ finished /\ Len(scopes) = 1
    BY <1>2 DEF GlobalVariable, AtTopLevel
  <2> QED
    BY <2>1, <2>2, VariableStep
<1>3. CASE OpenFunction
  BY <1>3, FunctionStep
<1>4. CASE analyzeParam
  <2>1. ~ finished
    BY <1>0, <1>4 DEF analyzeParam
  <2> QED
    BY <1>4, <2>1, ParameterStep
<1>5. CASE LocalVariable
  <2>1. PICK v \in Variable : analyzeVarDecl("local", v)
    BY <1>5 DEF LocalVariable
  <2>2. ~ finished /\ parameters = <<>>
    BY <1>1, <1>5 DEF LocalVariable, InFunction
  <2> QED
    BY <2>1, <2>2, VariableStep
<1>6. CASE OpenBlock
  <2>1. ~ finished
    BY <1>1, <1>6 DEF OpenBlock
  <2> QED
    BY <1>6, <2>1, BlockStep
<1>7. CASE CloseScope
  <2>1. ~ finished
    BY <1>1, <1>7 DEF CloseScope
  <2> QED
    BY <1>7, <2>1, CloseScopeStep
<1>8. CASE ExprStatement
  <2>1. ~ finished
    BY <1>1, <1>8 DEF ExprStatement
  <2>2. PICK e \in Expr : Statement("exprstmt", e, analyzeExpr[e], {})
    BY <1>8 DEF ExprStatement
  <2> QED
    BY <2>1, <2>2, ExpressionStep
<1>9. CASE analyzeCondition
  <2>1. ~ finished
    BY <1>1, <1>9 DEF analyzeCondition
  <2>2. PICK e \in Expr : Statement("condition", e, analyzeExpr[e], requireInt(analyzeExpr[e].type))
    BY <1>9 DEF analyzeCondition
  <2> QED
    BY <2>1, <2>2, ExpressionStep
<1>10. CASE analyzeReturn
  <2>1. ~ finished
    BY <1>1, <1>10 DEF analyzeReturn
  <2>2. CASE \E found : Statement("return", None, Nothing, found)
    BY <2>1, <2>2, ReturnStep
  <2>3. CASE \E e \in Expr : \E found : Statement("return", e, analyzeExpr[e], found)
    BY <2>1, <2>3, ExpressionStep
  <2> QED
    BY <1>10, <2>2, <2>3 DEF analyzeReturn
<1>11. CASE EndProgram
  BY <1>11, EndProgramStep
<1>12. CASE UNCHANGED vars
  BY <1>12, StutterStep
<1> QED
  BY <1>2, <1>3, <1>4, <1>5, <1>6, <1>7, <1>8, <1>9, <1>10, <1>11, <1>12 DEF Next

LEMMA InvAlways == Spec => []Inv
  BY InitInv, NextInv, PTL DEF Spec

(* Every pointer that the analysis writes into the tree, a scope or a      *)
(* report leads to a symbol of the table, in every program, wrong ones     *)
(* too (Symbol.cpp, SemanticAnalyzer.cpp).                                 *)
THEOREM TypeCorrect == Spec => []TypeOK
<1>1. Inv => TypeOK
  BY DEF Inv
<1> QED
  BY <1>1, InvAlways, PTL

(* In every program, of any size, each name is bound to the declaration    *)
(* that the braces of the text say, and to nothing if there is none of the *)
(* right kind: the stack of scopes finds what a reader of the text finds   *)
(* (SymbolTable::lookup, declareOrDiagnose, analyzeVarExpr,                *)
(* analyzeCallExpr).                                                       *)
THEOREM BindingsCorrect == Spec => []BindingsExact
<1>1. Inv => BindingsExact
  BY DEF Inv
<1> QED
  BY <1>1, InvAlways, PTL

-----------------------------------------------------------------------------
(* The reports describe the whole program.                                 *)

(* What the reports will say is settled as the scopes go by.               *)
Rising(s) == \A a, b \in 1..Len(s) : a < b => s[a] < s[b]

Occurs(x, s) == \E a \in 1..Len(s) : s[a] = x

Opener(o, k, order) ==
  /\ o \in 1..Len(program) /\ program[o].kind \in Opening
  /\ Depth(o) = k - 1 /\ Count(Opening, o) = order
  /\ \A i \in o..Len(program) : Depth(i) >= k - 1

Placed(order, d) ==
  \/ \E k \in 1..Len(scopes) : scopes[k].order = order /\ d = k - 1
  \/ \E k \in 1..Len(reports) : reports[k].order = order /\ reports[k].depth = d

Filed(order, s) ==
  \/ \E k \in 1..Len(scopes) : scopes[k].order = order /\ Occurs(s, scopes[k].declared)
  \/ \E k \in 1..Len(reports) : reports[k].order = order /\ Occurs(s, reports[k].symbols)

Opened ==
  /\ scopes[1].order = 0
  /\ \A k \in 2..Len(scopes) : \E o : Opener(o, k, scopes[k].order)

AllPlaced ==
  /\ Placed(0, 0)
  /\ \A o \in 1..Len(program) : program[o].kind \in Opening => Placed(Count(Opening, o), Depth(o))

AllFiled ==
  \A j \in 1..Len(program) : \A d \in annotations[j] :
    d.role = "declaration" /\ d.symbol # 0 => Filed(ScopeNumber(j), d.symbol)

AllRising ==
  /\ \A k \in 1..Len(scopes) : Rising(scopes[k].declared)
  /\ \A k \in 1..Len(reports) : Rising(reports[k].symbols)

Recording ==
  /\ nextOrder = Count(Opening, Len(program)) + 1
  /\ ~ finished => Opened /\ AllPlaced /\ AllFiled /\ AllRising
  /\ ReportsComplete

LEMMA CountStep ==
  ASSUME TextOK, NEW kinds, NEW i \in 1..Len(program)
  PROVE  Count(kinds, i) = Count(kinds, i - 1) + (IF program[i].kind \in kinds THEN 1 ELSE 0)
<1> DEFINE C == {j \in 1..(i - 1) : program[j].kind \in kinds}
           D == {j \in 1..i : program[j].kind \in kinds}
<1>1. i \in Nat /\ i - 1 \in Nat /\ Len(program) \in Nat
  BY DEF TextOK
<1>2. IsFiniteSet(C)
  <2>1. IsFiniteSet(1..(i - 1))
    BY <1>1, FS_Interval
  <2> QED
    BY <2>1, FS_Subset
<1>3. D = IF program[i].kind \in kinds THEN C \union {i} ELSE C
  <2>1. \A j \in 1..i : j = i \/ j \in 1..(i - 1)
    BY <1>1
  <2>2. \A j \in 1..(i - 1) : j \in 1..i
    BY <1>1
  <2>3. i \in 1..i
    BY <1>1
  <2> QED
    BY <2>1, <2>2, <2>3
<1>4. i \notin C
  BY <1>1
<1>5. Count(kinds, i) = Cardinality(D) /\ Count(kinds, i - 1) = Cardinality(C)
  BY DEF Count
<1> HIDE DEF C, D
<1>6. Cardinality(C) \in Nat /\ Cardinality(C \union {i}) = Cardinality(C) + 1
  BY <1>2, <1>4, FS_AddElement, FS_CardinalityType
<1> QED
  BY <1>3, <1>5, <1>6

LEMMA DepthStep ==
  ASSUME TextOK, NEW i \in 1..Len(program), program[i].kind \in Opening
  PROVE  Depth(i) = Depth(i - 1) + 1
<1> PICK a : a = Count({"function", "block"}, i - 1)
  OBVIOUS
<1> PICK c : c = Count({"close"}, i - 1)
  OBVIOUS
<1>1. i - 1 \in 0..Len(program)
  BY DEF TextOK
<1>2. a \in Nat /\ c \in Nat
  BY <1>1, CountFacts
<1>3. Count({"function", "block"}, i) = a + 1
  BY CountStep DEF Opening
<1>4. Count({"close"}, i) = c + 0
  BY CountStep DEF Opening
<1> QED
  BY <1>2, <1>3, <1>4 DEF Depth

(* The number of the scope around a piece.                                 *)
NumberRight ==
  \A j \in 1..(Len(program) + 1) :
    /\ OpenAt(j) = {} => ScopeNumber(j) = 0
    /\ \A o \in OpenAt(j) :
         (\A p \in OpenAt(j) : p <= o) => ScopeNumber(j) = Count(Opening, o)

LEMMA NumberFacts == TextOK => NumberRight
<1> SUFFICES ASSUME TextOK, NEW j \in 1..(Len(program) + 1)
             PROVE  /\ OpenAt(j) = {} => ScopeNumber(j) = 0
                    /\ \A o \in OpenAt(j) :
                         (\A p \in OpenAt(j) : p <= o) => ScopeNumber(j) = Count(Opening, o)
  BY DEF NumberRight
<1>1. OpenAt(j) = {} => ScopeNumber(j) = 0
  BY DEF ScopeNumber
<1>2. ASSUME NEW o \in OpenAt(j), \A p \in OpenAt(j) : p <= o
      PROVE  ScopeNumber(j) = Count(Opening, o)
  <2> DEFINE c == CHOOSE q \in OpenAt(j) : \A p \in OpenAt(j) : p <= q
  <2>1. c \in OpenAt(j) /\ \A p \in OpenAt(j) : p <= c
    BY <1>2
  <2>2. o \in Int /\ c \in Int
    BY <1>2, <2>1 DEF OpenAt
  <2>3. c <= o /\ o <= c
    BY <1>2, <2>1
  <2>4. c = o
    BY <2>2, <2>3
  <2>5. ScopeNumber(j) = Count(Opening, c)
    BY <1>2 DEF ScopeNumber
  <2> HIDE DEF c
  <2> QED
    BY <2>4, <2>5
<1> QED
  BY <1>1, <1>2

LEMMA OpenAtSame ==
  ASSUME TextOK, NEW p, Grows(p), NEW j \in 1..(Len(program) + 1)
  PROVE  OpenAt(j)' = OpenAt(j)
<1> PICK m : m = Len(program)
  OBVIOUS
<1>1. m \in Nat /\ \A i \in 1..m : program'[i] = program[i]
  BY GrowsFacts
<1>2. \A i \in 0..m : Depth(i)' = Depth(i)
  BY DepthGrows
<1>3. ASSUME NEW o \in 1..(j - 1)
      PROVE  /\ program'[o] = program[o] /\ Depth(o)' = Depth(o)
             /\ \A i \in o..(j - 1) : Depth(i)' = Depth(i)
  <2>1. o \in 1..m /\ o \in 0..m /\ \A i \in o..(j - 1) : i \in 0..m
    BY <1>1
  <2> QED
    BY <1>1, <1>2, <2>1
<1> QED
  BY <1>3 DEF OpenAt

LEMMA NumberSame ==
  ASSUME TextOK, NEW p, Grows(p), NEW j \in 1..(Len(program) + 1)
  PROVE  ScopeNumber(j)' = ScopeNumber(j)
<1> PICK m : m = Len(program)
  OBVIOUS
<1>1. NumberRight
  BY NumberFacts
<1>2. NumberRight'
  <2>1. TextOK'
    BY GrowsFacts
  <2> QED
    BY <2>1, NumberFacts, PTL
<1>3. OpenAt(j)' = OpenAt(j)
  BY OpenAtSame
<1>4. j \in 1..(Len(program') + 1) /\ m \in Nat
  BY GrowsFacts
<1>5. CASE OpenAt(j) = {}
  <2>1. ScopeNumber(j) = 0
    BY <1>1, <1>5 DEF NumberRight
  <2>2. ScopeNumber(j)' = 0
    BY <1>2, <1>3, <1>4, <1>5 DEF NumberRight
  <2> QED
    BY <2>1, <2>2
<1>6. CASE OpenAt(j) # {}
  <2> PICK S : S = OpenAt(j)
    OBVIOUS
  <2>1. S # {} /\ S \subseteq 1..m
    BY <1>4, <1>6 DEF OpenAt
  <2>2. PICK o \in S : \A q \in S : q <= o
    BY <1>4, <2>1, LargestNumber
  <2>3. ScopeNumber(j) = Count(Opening, o)
    BY <1>1, <2>2 DEF NumberRight
  <2>4. ScopeNumber(j)' = Count(Opening, o)'
    BY <1>2, <1>3, <1>4, <2>2 DEF NumberRight
  <2>5. o \in 0..m
    BY <2>1, <2>2
  <2>6. Count(Opening, o)' = Count(Opening, o)
    BY <2>5, CountGrows
  <2> QED
    BY <2>3, <2>4, <2>6
<1> QED
  BY <1>5, <1>6

(* The number of the innermost scope is that of the text.                  *)
LEMMA NumberHere ==
  ASSUME Inv, Recording, ~ finished, NEW n, n = Len(program), NEW l, l = Len(scopes)
  PROVE  ScopeNumber(n + 1) = scopes[l].order
<1>1. /\ n \in Nat /\ l \in Nat \ {0} /\ Depth(n) = l - 1 /\ TextOK
      /\ \A i \in 0..n : Depth(i) >= 0
  BY DEF Inv, Nesting, Typed, TextOK
<1>2. NumberRight /\ n + 1 \in 1..(Len(program) + 1)
  BY <1>1, NumberFacts
<1>3. \A o : o \in OpenAt(n + 1) <=>
        /\ o \in 1..n /\ program[o].kind \in Opening /\ \A k \in o..n : Depth(k) >= Depth(o)
  <2>1. n + 1 - 1 = n
    BY <1>1
  <2> QED
    BY <2>1 DEF OpenAt
<1>4. \A o \in 1..n : o - 1 \in 0..n /\ o \in 0..n /\ Depth(o) \in Int /\ Depth(o - 1) \in Int
  <2>1. \A o \in 1..n : o - 1 \in 0..n /\ o \in 0..n
    BY <1>1
  <2> QED
    BY <1>1, <2>1, DepthFacts
<1>5. \A o \in 1..n : program[o].kind \in Opening => Depth(o) = Depth(o - 1) + 1
  BY <1>1, DepthStep
<1>6. \A o \in OpenAt(n + 1) : Depth(o) <= l - 1 /\ o \in 1..n
  <2>1. \A o \in 1..n : n \in o..n
    BY <1>1
  <2> QED
    BY <1>1, <1>3, <1>4, <2>1
<1>7. CASE l = 1
  <2>1. ASSUME NEW o \in OpenAt(n + 1)
        PROVE  FALSE
    <3>1. Depth(o) = Depth(o - 1) + 1 /\ Depth(o) <= 0 /\ Depth(o - 1) >= 0
      BY <1>1, <1>3, <1>4, <1>5, <1>6, <1>7, <2>1
    <3> QED
      BY <1>3, <1>4, <2>1, <3>1
  <2>2. ScopeNumber(n + 1) = 0
    BY <1>2, <2>1 DEF NumberRight
  <2> QED
    BY <1>7, <2>2 DEF Recording, Opened
<1>8. CASE l \in 2..Len(scopes)
  <2>1. PICK o : Opener(o, l, scopes[l].order)
    BY <1>8 DEF Recording, Opened
  <2>2. /\ o \in 1..n /\ program[o].kind \in Opening /\ Depth(o) = l - 1
        /\ Count(Opening, o) = scopes[l].order
        /\ \A i \in o..n : Depth(i) >= l - 1
    BY <2>1 DEF Opener
  <2>3. o \in OpenAt(n + 1)
    BY <1>3, <2>2
  <2>4. ASSUME NEW q \in OpenAt(n + 1), ~ (q <= o)
        PROVE  FALSE
    <3>1. q \in 1..n /\ q - 1 \in o..n /\ Depth(q) <= l - 1
      BY <1>6, <2>2, <2>4
    <3>2. Depth(q - 1) >= l - 1 /\ Depth(q) = Depth(q - 1) + 1
      BY <1>3, <1>5, <2>2, <2>4, <3>1
    <3> QED
      BY <1>1, <1>4, <3>1, <3>2
  <2>5. ScopeNumber(n + 1) = Count(Opening, o)
    BY <1>2, <2>3, <2>4 DEF NumberRight
  <2> QED
    BY <2>2, <2>5
<1> QED
  BY <1>1, <1>7, <1>8

(* A scope of old symbols, to which the new one may have been added.       *)
Grown(new, old, b) ==
  /\ new.order = old.order
  /\ new.declared = old.declared \/ new.declared = Append(old.declared, b)

LEMMA RisingAppend ==
  ASSUME NEW b \in Nat, NEW d \in Seq(1..b), Rising(d)
  PROVE  /\ Rising(Append(d, b + 1)) /\ Occurs(b + 1, Append(d, b + 1))
         /\ \A s : Occurs(s, d) => Occurs(s, Append(d, b + 1))
<1> PICK m : m = Len(d)
  OBVIOUS
<1> PICK x : x = b + 1
  OBVIOUS
<1> PICK e : e = Append(d, x)
  OBVIOUS
<1>1. m \in Nat /\ x \in Nat /\ d \in Seq(Nat) /\ \A i \in 1..m : d[i] \in Nat /\ d[i] < x
  OBVIOUS
<1>2. Len(e) = m + 1 /\ e[m + 1] = x /\ \A i \in 1..m : e[i] = d[i]
  BY <1>1, AppendProperties
<1>3. /\ \A i \in 1..(m + 1) : i = m + 1 \/ i \in 1..m
      /\ m + 1 \in 1..(m + 1) /\ \A i \in 1..m : i \in 1..(m + 1)
  BY <1>1
<1>4. ASSUME NEW i \in 1..(m + 1), NEW j \in 1..(m + 1), i < j
      PROVE  e[i] < e[j]
  <2>1. i \in 1..m
    BY <1>1, <1>4
  <2>2. CASE j = m + 1
    <3>1. e[i] = d[i] /\ e[j] = x /\ d[i] < x
      BY <1>1, <1>2, <2>1, <2>2
    <3> QED
      BY <3>1
  <2>3. CASE j \in 1..m
    <3>1. d[i] < d[j]
      BY <1>4, <2>1, <2>3 DEF Rising
    <3> QED
      BY <1>2, <2>1, <2>3, <3>1
  <2> QED
    BY <1>3, <2>2, <2>3
<1>5. Rising(e)
  BY <1>2, <1>4 DEF Rising
<1>6. \A s : Occurs(s, d) => Occurs(s, e)
  BY <1>2, <1>3 DEF Occurs
<1>7. Occurs(x, e)
  BY <1>2, <1>3 DEF Occurs
<1> QED
  BY <1>5, <1>6, <1>7

LEMMA RisingGrows ==
  ASSUME NEW b \in Nat, NEW old, NEW new, Grown(new, old, b + 1), old.declared \in Seq(1..b),
         Rising(old.declared)
  PROVE  /\ Rising(new.declared)
         /\ \A s : Occurs(s, old.declared) => Occurs(s, new.declared)
         /\ new.declared = Append(old.declared, b + 1) => Occurs(b + 1, new.declared)
<1>1. CASE new.declared = Append(old.declared, b + 1)
  BY <1>1, RisingAppend
<1>2. CASE new.declared = old.declared /\ new.declared # Append(old.declared, b + 1)
  BY <1>2
<1> QED
  BY <1>1, <1>2 DEF Grown

(* A step that closes no scope.                                            *)
LEMMA NotedText ==
  ASSUME Inv, NEW p, NEW uses, Noted(p, uses), NEW n, n = Len(program)
  PROVE  /\ n \in Nat /\ Len(program') = n + 1 /\ TextOK /\ TextOK' /\ Grows(p)
         /\ program'[n + 1] = p /\ \A i \in 1..n : program'[i] = program[i]
         /\ annotations'[n + 1] = uses /\ \A i \in 1..n : annotations'[i] = annotations[i]
<1>1. Grows(p)
  BY DEF Noted
<1> QED
  BY <1>1, NotedFacts

Walks(p, uses) ==
  LET l == Len(scopes)
      m == IF p.kind \in Opening THEN 1 ELSE 0
  IN /\ Noted(p, uses) /\ p.kind # "close"
     /\ finished' = finished /\ reports' = reports
     /\ nextOrder' = nextOrder + m
     /\ Len(scopes') = l + m
     /\ \A k \in 1..l : Grown(scopes'[k], scopes[k], Inserted)
     /\ p.kind \in Opening =>
          scopes'[l + 1].order = nextOrder /\ scopes'[l + 1].declared = <<>>
     /\ \A u \in uses : u.role = "declaration" /\ u.symbol # 0 =>
          u.symbol = Inserted /\ scopes'[l].declared = Append(scopes[l].declared, Inserted)

LEMMA WalkStep ==
  ASSUME Inv, Recording, ~ finished, NEW p, NEW uses, Walks(p, uses)
  PROVE  Recording'
<1> PICK n : n = Len(program)
  OBVIOUS
<1>1. /\ n \in Nat /\ Len(program') = n + 1 /\ TextOK /\ TextOK' /\ Grows(p)
      /\ program'[n + 1] = p /\ \A i \in 1..n : program'[i] = program[i]
      /\ annotations'[n + 1] = uses /\ \A i \in 1..n : annotations'[i] = annotations[i]
  <2>1. Noted(p, uses)
    BY DEF Walks
  <2> QED
    BY <2>1, NotedText
<1> PICK l : l = Len(scopes)
  OBVIOUS
<1> PICK m : m = IF p.kind \in Opening THEN 1 ELSE 0
  OBVIOUS
<1>2. /\ Noted(p, uses) /\ p.kind # "close" /\ finished' = finished /\ reports' = reports
      /\ nextOrder' = nextOrder + m /\ Len(scopes') = l + m
      /\ \A k \in 1..l : Grown(scopes'[k], scopes[k], Inserted)
      /\ p.kind \in Opening =>
           scopes'[l + 1].order = nextOrder /\ scopes'[l + 1].declared = <<>>
      /\ \A u \in uses : u.role = "declaration" /\ u.symbol # 0 =>
           u.symbol = Inserted /\ scopes'[l].declared = Append(scopes[l].declared, Inserted)
  BY DEF Walks
<1>3. /\ l \in Nat \ {0} /\ Depth(n) = l - 1 /\ Len(storage) \in Nat
      /\ Inserted = Len(storage) + 1 /\ nextOrder \in Nat
  BY DEF Inv, Nesting, Typed, Inserted
<1>4. Opened /\ AllPlaced /\ AllFiled /\ AllRising /\ nextOrder = Count(Opening, n) + 1
  BY DEF Recording
<1>5. ASSUME NEW k \in 1..l
      PROVE  /\ scopes'[k].order = scopes[k].order
             /\ Rising(scopes'[k].declared)
             /\ \A s : Occurs(s, scopes[k].declared) => Occurs(s, scopes'[k].declared)
             /\ scopes'[k].declared = Append(scopes[k].declared, Inserted) =>
                  Occurs(Inserted, scopes'[k].declared)
  <2> PICK old : old = scopes[k]
    OBVIOUS
  <2> PICK new : new = scopes'[k]
    OBVIOUS
  <2> PICK b : b = Len(storage)
    OBVIOUS
  <2>1. b \in Nat /\ old.declared \in Seq(1..b) /\ Rising(old.declared) /\ Grown(new, old, b + 1)
    BY <1>2, <1>3, <1>4 DEF Inv, TypeOK, ScopeOK, AllRising
  <2>2. /\ Rising(new.declared)
        /\ \A s : Occurs(s, old.declared) => Occurs(s, new.declared)
        /\ new.declared = Append(old.declared, b + 1) => Occurs(b + 1, new.declared)
    BY <2>1, RisingGrows
  <2>3. new.order = old.order
    BY <2>1 DEF Grown
  <2> QED
    BY <1>3, <2>2, <2>3
<1>6. /\ \A i \in 0..n : Depth(i)' = Depth(i)
      /\ Depth(n + 1)' = l - 1 + m
  <2>1. \A i \in 0..n : Depth(i)' = Depth(i)
    BY <1>1, DepthGrows
  <2>2. Depth(n + 1)' = IF p.kind \in {"function", "block"} THEN Depth(n) + 1
                        ELSE IF p.kind = "close" THEN Depth(n) - 1 ELSE Depth(n)
    BY <1>1, DepthGrows
  <2> QED
    BY <1>2, <1>3, <2>1, <2>2 DEF Opening
<1>7. /\ \A i \in 0..n : Count(Opening, i)' = Count(Opening, i)
      /\ Count(Opening, n + 1)' = Count(Opening, n) + m
  BY <1>1, CountGrows
<1>8. \A k \in 1..l : k \in 1..(l + m)
  BY <1>3
<1>9. \A order, d : Placed(order, d) => Placed(order, d)'
  BY <1>2, <1>5, <1>8 DEF Placed
<1>10. \A order, s : Filed(order, s) => Filed(order, s)'
  BY <1>2, <1>5, <1>8 DEF Filed
<1>11. nextOrder' = Count(Opening, Len(program))' + 1
  <2>1. Count(Opening, Len(program))' = Count(Opening, n + 1)'
    BY <1>1 DEF Count
  <2>2. Count(Opening, n) \in Nat
    BY <1>1, <1>3, CountFacts
  <2> QED
    BY <1>2, <1>3, <1>4, <1>7, <2>1, <2>2
<1>12. Opened'
  <2>1. scopes'[1].order = 0
    BY <1>3, <1>4, <1>5 DEF Opened
  <2>2. ASSUME NEW k \in 2..(l + m)
        PROVE  \E o : Opener(o, k, scopes[k].order)'
    <3>1. CASE k \in 2..l
      <4>1. PICK o : Opener(o, k, scopes[k].order)
        BY <1>4, <3>1 DEF Opened
      <4>2. /\ o \in 1..n /\ program[o].kind \in Opening
            /\ Depth(o) = k - 1 /\ Count(Opening, o) = scopes[k].order
            /\ \A i \in o..n : Depth(i) >= k - 1
        BY <4>1 DEF Opener
      <4>3. o \in 0..n /\ o \in 1..(n + 1) /\ k \in 1..l
        BY <1>1, <3>1, <4>2
      <4>4. \A i \in o..(n + 1) : i = n + 1 \/ (i \in o..n /\ i \in 0..n)
        BY <1>1, <4>2
      <4>5. Depth(n + 1)' >= k - 1
        BY <1>3, <1>6, <3>1
      <4>6. \A i \in o..(n + 1) : Depth(i)' >= k - 1
        BY <1>6, <4>2, <4>4, <4>5
      <4>7. program'[o].kind \in Opening /\ Depth(o)' = k - 1 /\ Count(Opening, o)' = scopes'[k].order
        BY <1>1, <1>5, <1>6, <1>7, <4>2, <4>3
      <4> QED
        BY <1>1, <4>3, <4>6, <4>7 DEF Opener, Opening
    <3>2. CASE k = l + 1 /\ p.kind \in Opening
      <4>1. n + 1 \in 1..(n + 1) /\ \A i \in (n + 1)..(n + 1) : i = n + 1
        BY <1>1
      <4>2. Depth(n + 1)' = k - 1 /\ Depth(n + 1)' >= k - 1
        BY <1>3, <1>6, <3>2
      <4>3. Count(Opening, n + 1)' = scopes'[k].order
        BY <1>2, <1>4, <1>7, <3>2
      <4>4. \A i \in (n + 1)..(n + 1) : Depth(i)' >= k - 1
        BY <4>1, <4>2
      <4> QED
        BY <1>1, <3>2, <4>1, <4>2, <4>3, <4>4 DEF Opener, Opening
    <3> QED
      BY <1>3, <3>1, <3>2
  <2> QED
    BY <1>2, <2>1, <2>2 DEF Opened
<1>13. AllPlaced'
  <2>1. Placed(0, 0)'
    BY <1>4, <1>9 DEF AllPlaced
  <2>2. ASSUME NEW o \in 1..(n + 1), program'[o].kind \in Opening
        PROVE  Placed(Count(Opening, o), Depth(o))'
    <3>1. CASE o \in 1..n
      <4>1. program[o].kind \in Opening /\ o \in 0..n
        BY <1>1, <2>2, <3>1
      <4>2. PICK c, d : c = Count(Opening, o) /\ d = Depth(o)
        OBVIOUS
      <4>3. Placed(c, d)
        BY <1>4, <3>1, <4>1, <4>2 DEF AllPlaced
      <4>4. Placed(c, d)'
        BY <1>9, <4>3
      <4>5. Count(Opening, o)' = c /\ Depth(o)' = d
        BY <1>6, <1>7, <4>1, <4>2
      <4> QED
        BY <4>4, <4>5 DEF Placed
    <3>2. CASE o = n + 1
      <4>1. p.kind \in Opening /\ m = 1
        BY <1>1, <2>2, <3>2
      <4>2. l + 1 \in 1..Len(scopes')
        BY <1>2, <1>3, <4>1
      <4>3. scopes'[l + 1].order = Count(Opening, n + 1)' /\ Depth(n + 1)' = (l + 1) - 1
        BY <1>2, <1>3, <1>4, <1>6, <1>7, <4>1
      <4> QED
        BY <3>2, <4>2, <4>3 DEF Placed
    <3> QED
      BY <1>1, <3>1, <3>2
  <2> QED
    BY <1>1, <2>1, <2>2 DEF AllPlaced, Opening
<1>14. AllFiled'
  <2>1. ASSUME NEW j \in 1..(n + 1), NEW d \in annotations'[j], d.role = "declaration", d.symbol # 0
        PROVE  Filed(ScopeNumber(j), d.symbol)'
    <3> PICK s : s = ScopeNumber(j)
      OBVIOUS
    <3>1. ScopeNumber(j)' = s
      BY <1>1, NumberSame
    <3>2. CASE j \in 1..n
      <4>1. Filed(s, d.symbol)
        BY <1>1, <1>4, <2>1, <3>2 DEF AllFiled
      <4>2. Filed(s, d.symbol)'
        BY <1>10, <4>1
      <4> QED
        BY <3>1, <4>2 DEF Filed
    <3>3. CASE j = n + 1
      <4>1. s = scopes[l].order
        BY <3>3, NumberHere
      <4>2. d.symbol = Inserted /\ scopes'[l].declared = Append(scopes[l].declared, Inserted)
        BY <1>2, <1>1, <2>1, <3>3
      <4>3. l \in 1..l /\ l \in 1..Len(scopes')
        BY <1>2, <1>3
      <4>4. Occurs(d.symbol, scopes'[l].declared) /\ scopes'[l].order = s
        BY <1>5, <4>1, <4>2, <4>3
      <4> QED
        BY <3>1, <4>3, <4>4 DEF Filed
    <3> QED
      BY <1>1, <3>2, <3>3
  <2> QED
    BY <1>1, <2>1 DEF AllFiled
<1>15. AllRising'
  <2>1. ASSUME NEW k \in 1..(l + m)
        PROVE  Rising(scopes'[k].declared)
    <3>1. CASE k \in 1..l
      BY <1>5, <3>1
    <3>2. CASE k = l + 1 /\ p.kind \in Opening
      BY <1>2, <3>2 DEF Rising
    <3> QED
      BY <1>3, <3>1, <3>2
  <2> QED
    BY <1>2, <1>4, <2>1 DEF AllRising, Rising
<1>16. ReportsComplete'
  BY <1>2 DEF ReportsComplete
<1> QED
  BY <1>11, <1>12, <1>13, <1>14, <1>15, <1>16 DEF Recording

(* A step that closes the innermost scope.                                 *)
Closes(p, uses) ==
  LET l == Len(scopes)
      r == Len(reports)
  IN /\ Noted(p, uses) /\ p.kind = "close" /\ uses = {}
     /\ l > 1 /\ Len(scopes') = l - 1
     /\ \A k \in 1..(l - 1) : scopes'[k] = scopes[k]
     /\ Len(reports') = r + 1 /\ \A k \in 1..r : reports'[k] = reports[k]
     /\ reports'[r + 1] = [order |-> scopes[l].order, depth |-> l - 1, symbols |-> scopes[l].declared]
     /\ nextOrder' = nextOrder /\ finished' = finished

LEMMA CloseKeeps ==
  ASSUME Inv, Recording, ~ finished, NEW p, NEW uses, Closes(p, uses)
  PROVE  Recording'
<1> PICK n : n = Len(program)
  OBVIOUS
<1>1. /\ n \in Nat /\ Len(program') = n + 1 /\ TextOK /\ TextOK' /\ Grows(p)
      /\ program'[n + 1] = p /\ \A i \in 1..n : program'[i] = program[i]
      /\ annotations'[n + 1] = uses /\ \A i \in 1..n : annotations'[i] = annotations[i]
  <2>1. Noted(p, uses)
    BY DEF Closes
  <2> QED
    BY <2>1, NotedText
<1> PICK l : l = Len(scopes)
  OBVIOUS
<1> PICK c : c = l - 1
  OBVIOUS
<1> PICK r : r = Len(reports)
  OBVIOUS
<1>2. /\ Noted(p, uses) /\ p.kind = "close" /\ uses = {} /\ finished' = finished
      /\ l > 1 /\ Len(scopes') = c /\ \A k \in 1..c : scopes'[k] = scopes[k]
      /\ Len(reports') = r + 1 /\ \A k \in 1..r : reports'[k] = reports[k]
      /\ reports'[r + 1] = [order |-> scopes[l].order, depth |-> c, symbols |-> scopes[l].declared]
      /\ nextOrder' = nextOrder
  BY DEF Closes
<1>3. /\ l \in Nat /\ r \in Nat /\ Depth(n) = l - 1 /\ nextOrder \in Nat
  BY DEF Inv, Nesting, Typed
<1>4. Opened /\ AllPlaced /\ AllFiled /\ AllRising /\ nextOrder = Count(Opening, n) + 1
  BY DEF Recording
<1>5. c \in Nat \ {0} /\ l = c + 1 /\ \A k \in 1..l : k = l \/ k \in 1..c
  BY <1>2, <1>3
<1>6. /\ reports'[r + 1].order = scopes[l].order /\ reports'[r + 1].depth = l - 1
      /\ reports'[r + 1].symbols = scopes[l].declared
  BY <1>2
<1>7. /\ r + 1 \in 1..(r + 1) /\ (\A k \in 1..r : k \in 1..(r + 1))
      /\ \A k \in 1..(r + 1) : k = r + 1 \/ k \in 1..r
  BY <1>3
<1>8. /\ \A i \in 0..n : Depth(i)' = Depth(i)
      /\ Depth(n + 1)' = c - 1
  <2>1. \A i \in 0..n : Depth(i)' = Depth(i)
    BY <1>1, DepthGrows
  <2>2. Depth(n + 1)' = Depth(n) - 1
    BY <1>2, <1>1, DepthGrows
  <2> QED
    BY <1>3, <1>5, <2>1, <2>2
<1>9. /\ \A i \in 0..n : Count(Opening, i)' = Count(Opening, i)
      /\ Count(Opening, n + 1)' = Count(Opening, n) + 0
  <2>1. p.kind \notin Opening
    BY <1>2 DEF Opening
  <2> PICK m : m = IF p.kind \in Opening THEN 1 ELSE 0
    OBVIOUS
  <2>2. /\ \A i \in 0..n : Count(Opening, i)' = Count(Opening, i)
        /\ Count(Opening, n + 1)' = Count(Opening, n) + m
    BY <1>1, CountGrows
  <2>3. m = 0
    BY <2>1
  <2> QED
    BY <2>2, <2>3
<1>10. ASSUME NEW order, NEW d, Placed(order, d)
       PROVE  Placed(order, d)'
  <2>1. CASE \E k \in 1..l : scopes[k].order = order /\ d = k - 1
    <3>1. PICK k \in 1..l : scopes[k].order = order /\ d = k - 1
      BY <2>1
    <3>2. CASE k = l
      BY <1>2, <1>6, <1>7, <3>1, <3>2 DEF Placed
    <3>3. CASE k \in 1..c
      BY <1>2, <3>1, <3>3 DEF Placed
    <3> QED
      BY <1>5, <3>2, <3>3
  <2>2. CASE \E k \in 1..r : reports[k].order = order /\ reports[k].depth = d
    BY <1>2, <1>7, <2>2 DEF Placed
  <2> QED
    BY <1>10, <2>1, <2>2 DEF Placed
<1>11. ASSUME NEW order, NEW s, Filed(order, s)
       PROVE  Filed(order, s)'
  <2>1. CASE \E k \in 1..l : scopes[k].order = order /\ Occurs(s, scopes[k].declared)
    <3>1. PICK k \in 1..l : scopes[k].order = order /\ Occurs(s, scopes[k].declared)
      BY <2>1
    <3>2. CASE k = l
      BY <1>2, <1>6, <1>7, <3>1, <3>2 DEF Filed
    <3>3. CASE k \in 1..c
      BY <1>2, <3>1, <3>3 DEF Filed
    <3> QED
      BY <1>5, <3>2, <3>3
  <2>2. CASE \E k \in 1..r : reports[k].order = order /\ Occurs(s, reports[k].symbols)
    BY <1>2, <1>7, <2>2 DEF Filed
  <2> QED
    BY <1>11, <2>1, <2>2 DEF Filed
<1>12. nextOrder' = Count(Opening, Len(program))' + 1
  <2>1. Count(Opening, Len(program))' = Count(Opening, n + 1)'
    BY <1>1 DEF Count
  <2>2. Count(Opening, n) \in Nat
    BY <1>1, CountFacts
  <2> QED
    BY <1>2, <1>4, <1>9, <2>1, <2>2
<1>13. Opened'
  <2>1. scopes'[1].order = 0
    BY <1>2, <1>4, <1>5 DEF Opened
  <2>2. ASSUME NEW k \in 2..c
        PROVE  \E o : Opener(o, k, scopes[k].order)'
    <3>1. k \in 2..l /\ k \in 1..c
      BY <1>5
    <3>2. PICK o : Opener(o, k, scopes[k].order)
      BY <1>4, <3>1 DEF Opened
    <3>3. /\ o \in 1..n /\ program[o].kind \in Opening
          /\ Depth(o) = k - 1 /\ Count(Opening, o) = scopes[k].order
          /\ \A i \in o..n : Depth(i) >= k - 1
      BY <3>2 DEF Opener
    <3>4. o \in 0..n /\ o \in 1..(n + 1)
      BY <1>1, <3>3
    <3>5. \A i \in o..(n + 1) : i = n + 1 \/ (i \in o..n /\ i \in 0..n)
      BY <1>1, <3>3
    <3>6. Depth(n + 1)' >= k - 1
      BY <1>5, <1>8
    <3>7. \A i \in o..(n + 1) : Depth(i)' >= k - 1
      BY <1>8, <3>3, <3>5, <3>6
    <3>8. program'[o].kind \in Opening /\ Depth(o)' = k - 1 /\ Count(Opening, o)' = scopes'[k].order
      BY <1>2, <1>1, <1>8, <1>9, <3>1, <3>3, <3>4
    <3> QED
      BY <1>1, <3>4, <3>7, <3>8 DEF Opener, Opening
  <2> QED
    BY <1>2, <2>1, <2>2 DEF Opened
<1>14. AllPlaced'
  <2>1. Placed(0, 0)'
    BY <1>4, <1>10 DEF AllPlaced
  <2>2. ASSUME NEW o \in 1..(n + 1), program'[o].kind \in Opening
        PROVE  Placed(Count(Opening, o), Depth(o))'
    <3>1. o \in 1..n
      BY <1>2, <1>1, <2>2 DEF Opening
    <3>2. program[o].kind \in Opening /\ o \in 0..n
      BY <1>1, <2>2, <3>1
    <3>3. PICK k, d : k = Count(Opening, o) /\ d = Depth(o)
      OBVIOUS
    <3>4. Placed(k, d)
      BY <1>4, <3>1, <3>2, <3>3 DEF AllPlaced
    <3>5. Placed(k, d)'
      BY <1>10, <3>4
    <3>6. Count(Opening, o)' = k /\ Depth(o)' = d
      BY <1>8, <1>9, <3>2, <3>3
    <3> QED
      BY <3>5, <3>6 DEF Placed
  <2> QED
    BY <1>1, <2>1, <2>2 DEF AllPlaced, Opening
<1>15. AllFiled'
  <2>1. ASSUME NEW j \in 1..(n + 1), NEW d \in annotations'[j], d.role = "declaration", d.symbol # 0
        PROVE  Filed(ScopeNumber(j), d.symbol)'
    <3> PICK s : s = ScopeNumber(j)
      OBVIOUS
    <3>1. ScopeNumber(j)' = s
      BY <1>1, NumberSame
    <3>2. j \in 1..n
      BY <1>2, <1>1
    <3>3. Filed(s, d.symbol)
      BY <1>1, <1>4, <2>1, <3>2 DEF AllFiled
    <3>4. Filed(s, d.symbol)'
      BY <1>11, <3>3
    <3> QED
      BY <3>1, <3>4 DEF Filed
  <2> QED
    BY <1>1, <2>1 DEF AllFiled
<1>16. AllRising'
  <2>1. \A k \in 1..c : Rising(scopes'[k].declared)
    <3>1. \A k \in 1..c : k \in 1..l
      BY <1>5
    <3> QED
      BY <1>2, <1>4, <3>1 DEF AllRising
  <2>2. \A k \in 1..(r + 1) : Rising(reports'[k].symbols)
    <3>1. l \in 1..l
      BY <1>5
    <3> QED
      BY <1>2, <1>4, <1>6, <1>7, <3>1 DEF AllRising
  <2> QED
    BY <1>2, <2>1, <2>2 DEF AllRising, Rising
<1>17. ReportsComplete'
  BY <1>2 DEF ReportsComplete
<1> QED
  BY <1>12, <1>13, <1>14, <1>15, <1>16, <1>17 DEF Recording

(* The number of a scope finds its report in the sorted ones.              *)
LEMMA SortedEntry ==
  ASSUME NEW found, Numbering(found), NEW i \in 1..Len(found), NEW order, order = found[i].order
  PROVE  order + 1 \in 1..Len(found) /\ Sorted(found)[order + 1] = found[i]
<1> PICK m : m = Len(found)
  OBVIOUS
<1> PICK sorted : sorted = Sorted(found)
  OBVIOUS
<1>1. /\ m \in Nat /\ order \in 0..(m - 1) /\ i \in 1..m
      /\ \A j, k \in 1..m : found[j].order = found[k].order => j = k
  BY DEF Numbering
<1>2. \A k \in 1..m : (\E j \in 1..m : sorted[k] = found[j]) /\ sorted[k].order = k - 1
  BY SortedFacts
<1>3. PICK k \in 1..m : k = order + 1
  BY <1>1
<1>4. PICK j \in 1..m : sorted[k] = found[j]
  BY <1>2
<1>5. sorted[k].order = order
  <2>1. k - 1 = order
    BY <1>1, <1>3
  <2> QED
    BY <1>2, <2>1
<1>6. j = i
  BY <1>1, <1>4, <1>5
<1> QED
  BY <1>3, <1>4, <1>6

LEMMA NumberUnchanged ==
  ASSUME TextOK, program' = program, NEW j \in 1..(Len(program) + 1)
  PROVE  ScopeNumber(j)' = ScopeNumber(j)
<1>1. NumberRight /\ TextOK'
  BY NumberFacts DEF TextOK
<1>2. NumberRight'
  BY <1>1, NumberFacts, PTL
<1>3. \A i : Count(Opening, i)' = Count(Opening, i) /\ Depth(i)' = Depth(i)
  BY DEF Count, Depth, Opening
<1>4. OpenAt(j)' = OpenAt(j)
  BY <1>3 DEF OpenAt
<1>5. CASE OpenAt(j) = {}
  <2>1. ScopeNumber(j) = 0
    BY <1>1, <1>5 DEF NumberRight
  <2>2. ScopeNumber(j)' = 0
    BY <1>2, <1>4, <1>5 DEF NumberRight
  <2> QED
    BY <2>1, <2>2
<1>6. CASE OpenAt(j) # {}
  <2> PICK S : S = OpenAt(j)
    OBVIOUS
  <2> PICK m : m = Len(program)
    OBVIOUS
  <2>1. S # {} /\ S \subseteq 1..m /\ m \in Nat
    BY <1>6 DEF OpenAt, TextOK
  <2>2. PICK o \in S : \A q \in S : q <= o
    BY <2>1, LargestNumber
  <2>3. ScopeNumber(j) = Count(Opening, o)
    BY <1>1, <2>2 DEF NumberRight
  <2>4. ScopeNumber(j)' = Count(Opening, o)'
    BY <1>2, <1>4, <2>2 DEF NumberRight
  <2> QED
    BY <1>3, <2>3, <2>4
<1> QED
  BY <1>5, <1>6

(* The end of the program adds the last report and sorts them all.         *)
LEMMA EndKeeps ==
  ASSUME Inv, Recording, ~ finished, Len(scopes) = 1,
         reports' = Sorted(Append(reports, ScopeReport)), finished' = TRUE,
         nextOrder' = nextOrder, program' = program, annotations' = annotations
  PROVE  Recording'
<1> PICK n : n = Len(program)
  OBVIOUS
<1> PICK r : r = Len(reports)
  OBVIOUS
<1> PICK report : report = ScopeReport
  OBVIOUS
<1> PICK found : found = Append(reports, report)
  OBVIOUS
<1> PICK sorted : sorted = Sorted(found)
  OBVIOUS
<1>1. reports \in Seq(Reports) /\ r \in Nat /\ TextOK /\ n \in Nat
  BY DEF Inv, Typed, TextOK, Reports
<1>2. Opened /\ AllPlaced /\ AllFiled /\ AllRising /\ nextOrder = Count(Opening, n) + 1
  BY DEF Recording
<1>3. report.order = scopes[1].order /\ report.depth = 0 /\ report.symbols = scopes[1].declared
  BY DEF ScopeReport, Innermost, depth
<1>4. report \in Reports
  BY ReportTyped
<1>5. Len(found) = r + 1 /\ found[r + 1] = report /\ \A k \in 1..r : found[k] = reports[k]
  BY <1>1, <1>4, AppendProperties
<1>6. /\ (\A k \in 1..r : k \in 1..(r + 1)) /\ r + 1 \in 1..(r + 1)
      /\ \A k \in 1..(r + 1) : k = r + 1 \/ k \in 1..r
  BY <1>1
<1>7. Numbering(found) /\ Len(found) = nextOrder
  BY LastReport
<1>8. /\ Len(sorted) = r + 1
      /\ \A k \in 1..(r + 1) : (\E i \in 1..(r + 1) : sorted[k] = found[i]) /\ sorted[k].order = k - 1
  <2>1. /\ Len(Sorted(found)) = Len(found)
        /\ \A k \in 1..Len(found) :
             (\E i \in 1..Len(found) : Sorted(found)[k] = found[i]) /\ Sorted(found)[k].order = k - 1
    BY <1>7, SortedFacts
  <2>2. Len(found) = r + 1
    BY <1>5
  <2>3. sorted = Sorted(found)
    OBVIOUS
  <2>4. Len(sorted) = r + 1
    BY <2>1, <2>2
  <2>5. \A k \in 1..(r + 1) : (\E i \in 1..(r + 1) : sorted[k] = found[i]) /\ sorted[k].order = k - 1
    BY ONLY <2>1, <2>2, <2>3
  <2> QED
    BY <2>4, <2>5
<1>9. ASSUME NEW i \in 1..(r + 1)
      PROVE  found[i].order + 1 \in 1..(r + 1) /\ sorted[found[i].order + 1] = found[i]
  <2>1. i \in 1..Len(found) /\ Len(found) = r + 1
    BY <1>5
  <2> PICK order : order = found[i].order
    OBVIOUS
  <2>2. order + 1 \in 1..Len(found) /\ Sorted(found)[order + 1] = found[i]
    BY <1>7, <2>1, SortedEntry
  <2> QED
    BY <2>1, <2>2
<1>10. ASSUME NEW order, NEW d, Placed(order, d)
       PROVE  sorted[order + 1].depth = d
  <2>1. PICK i \in 1..(r + 1) : found[i].order = order /\ found[i].depth = d
    <3>1. CASE \E k \in 1..Len(scopes) : scopes[k].order = order /\ d = k - 1
      <4>1. scopes[1].order = order /\ d = 0
        BY <3>1
      <4> QED
        BY <1>3, <1>5, <1>6, <4>1
    <3>2. CASE \E k \in 1..r : reports[k].order = order /\ reports[k].depth = d
      BY <1>5, <1>6, <3>2
    <3> QED
      BY <1>10, <3>1, <3>2 DEF Placed
  <2> QED
    BY <1>9, <2>1
<1>11. ASSUME NEW order, NEW s, Filed(order, s)
       PROVE  Occurs(s, sorted[order + 1].symbols)
  <2>1. PICK i \in 1..(r + 1) : found[i].order = order /\ Occurs(s, found[i].symbols)
    <3>1. CASE \E k \in 1..Len(scopes) : scopes[k].order = order /\ Occurs(s, scopes[k].declared)
      <4>1. scopes[1].order = order /\ Occurs(s, scopes[1].declared)
        BY <3>1
      <4> QED
        BY <1>3, <1>5, <1>6, <4>1
    <3>2. CASE \E k \in 1..r : reports[k].order = order /\ Occurs(s, reports[k].symbols)
      BY <1>5, <1>6, <3>2
    <3> QED
      BY <1>11, <3>1, <3>2 DEF Filed
  <2> QED
    BY <1>9, <2>1
<1>12. \A k \in 1..(r + 1) : Rising(sorted[k].symbols)
  <2>1. \A i \in 1..(r + 1) : Rising(found[i].symbols)
    <3>1. Rising(report.symbols)
      BY <1>2, <1>3 DEF AllRising
    <3>2. \A k \in 1..r : Rising(reports[k].symbols)
      BY <1>2 DEF AllRising
    <3> QED
      BY <1>5, <1>6, <3>1, <3>2
  <2> QED
    BY <1>8, <2>1
<1>13. /\ \A i : Count(Opening, i)' = Count(Opening, i) /\ Depth(i)' = Depth(i)
       /\ \A j \in 1..n : ScopeNumber(j)' = ScopeNumber(j)
  <2>1. \A j \in 1..n : j \in 1..(n + 1)
    BY <1>1
  <2>2. \A j \in 1..n : ScopeNumber(j)' = ScopeNumber(j)
    BY <1>1, <2>1, NumberUnchanged
  <2>3. \A i : Count(Opening, i)' = Count(Opening, i) /\ Depth(i)' = Depth(i)
    BY DEF Count, Depth, Opening
  <2> QED
    BY <2>2, <2>3
<1>14. reports' = sorted
  OBVIOUS
<1>15. nextOrder' = Count(Opening, Len(program))' + 1
  <2>1. Count(Opening, Len(program))' = Count(Opening, n)'
    BY DEF Count
  <2> QED
    BY <1>2, <1>13, <2>1
<1>16. ReportsComplete'
  <2>1. Len(reports') = Count(Opening, Len(program))' + 1
    BY <1>5, <1>7, <1>8, <1>14, <1>15
  <2>2. \A k \in 1..Len(reports') : reports'[k].order = k - 1 /\ Rising(reports'[k].symbols)
    BY <1>8, <1>12, <1>14
  <2>3. reports'[1].depth = 0
    <3>1. sorted[0 + 1].depth = 0
      BY <1>2, <1>10 DEF AllPlaced
    <3> QED
      BY <1>14, <3>1
  <2>4. \A o \in 1..n : program[o].kind \in Opening =>
           reports'[Count(Opening, o)' + 1].depth = Depth(o)'
    BY <1>2, <1>10, <1>13, <1>14 DEF AllPlaced
  <2>5. \A j \in 1..n : \A d \in annotations[j] :
           d.role = "declaration" /\ d.symbol # 0 =>
             Occurs(d.symbol, reports'[ScopeNumber(j)' + 1].symbols)
    BY <1>2, <1>11, <1>13, <1>14 DEF AllFiled
  <2>6. (\A k \in 1..Len(reports) :
           /\ reports[k].order = k - 1
           /\ \A a, b \in 1..Len(reports[k].symbols) :
                a < b => reports[k].symbols[a] < reports[k].symbols[b])'
    BY <2>2 DEF Rising
  <2>7. (\A o \in 1..Len(program) : program[o].kind \in Opening =>
           reports[Count(Opening, o) + 1].depth = Depth(o))'
    BY <2>4 DEF Opening
  <2>8. (\A j \in 1..Len(program) : \A d \in annotations[j] :
           d.role = "declaration" /\ d.symbol # 0 =>
             \E a \in 1..Len(reports[ScopeNumber(j) + 1].symbols) :
               reports[ScopeNumber(j) + 1].symbols[a] = d.symbol)'
    BY <2>5 DEF Occurs
  <2> QED
    BY <2>1, <2>3, <2>6, <2>7, <2>8 DEF ReportsComplete
<1> QED
  BY <1>15, <1>16 DEF Recording

LEMMA StutterKeeps ==
  ASSUME Inv, Recording, UNCHANGED vars
  PROVE  Recording'
<1>1. /\ scopes' = scopes /\ nextOrder' = nextOrder /\ program' = program
      /\ annotations' = annotations /\ reports' = reports /\ finished' = finished
  BY DEF vars, table
<1>2. TextOK
  BY DEF Inv, Typed
<1>3. \A i : Count(Opening, i)' = Count(Opening, i) /\ Depth(i)' = Depth(i)
  BY <1>1 DEF Count, Depth, Opening
<1>4. \A j \in 1..Len(program) : ScopeNumber(j)' = ScopeNumber(j)
  <2>1. \A j \in 1..Len(program) : j \in 1..(Len(program) + 1)
    BY <1>2 DEF TextOK
  <2> QED
    BY <1>1, <1>2, <2>1, NumberUnchanged
<1>5. nextOrder' = Count(Opening, Len(program))' + 1
  <2>1. Count(Opening, Len(program))' = Count(Opening, Len(program))
    BY <1>1 DEF Count, Opening
  <2> QED
    BY <1>1, <2>1 DEF Recording
<1>6. ASSUME ~ finished
      PROVE  (Opened /\ AllPlaced /\ AllFiled /\ AllRising)'
  <2>1. Opened /\ AllPlaced /\ AllFiled /\ AllRising
    BY <1>6 DEF Recording
  <2>2. Opened'
    <3>1. \A o, k, order : Opener(o, k, order) => Opener(o, k, order)'
      BY <1>1, <1>3 DEF Opener, Opening
    <3> QED
      BY <1>1, <2>1, <3>1 DEF Opened
  <2>3. AllPlaced'
    <3>1. \A order, d : Placed(order, d)' <=> Placed(order, d)
      BY <1>1 DEF Placed
    <3>2. Placed(0, 0)'
      BY <2>1, <3>1 DEF AllPlaced
    <3>3. ASSUME NEW o \in 1..Len(program'), program'[o].kind \in Opening
          PROVE  Placed(Count(Opening, o), Depth(o))'
      <4> PICK c, d : c = Count(Opening, o) /\ d = Depth(o)
        OBVIOUS
      <4>1. Placed(c, d)
        BY <1>1, <2>1, <3>3 DEF AllPlaced
      <4>2. Placed(c, d)'
        BY <3>1, <4>1
      <4> QED
        BY <1>3, <4>2 DEF Placed
    <3> QED
      BY <3>2, <3>3 DEF AllPlaced, Opening
  <2>4. AllFiled'
    <3>1. ASSUME NEW j \in 1..Len(program'), NEW d \in annotations'[j],
                 d.role = "declaration", d.symbol # 0
          PROVE  Filed(ScopeNumber(j), d.symbol)'
      <4> PICK s : s = ScopeNumber(j)
        OBVIOUS
      <4>1. Filed(s, d.symbol)
        BY <1>1, <2>1, <3>1 DEF AllFiled
      <4> QED
        BY <1>1, <1>4, <4>1 DEF Filed
    <3> QED
      BY <3>1 DEF AllFiled
  <2>5. AllRising'
    BY <1>1, <2>1 DEF AllRising
  <2> QED
    BY <2>2, <2>3, <2>4, <2>5
<1>7. ReportsComplete'
  <2>1. CASE ~ finished
    BY <1>1, <2>1 DEF ReportsComplete
  <2>2. CASE finished
    <3>1. ReportsComplete
      BY DEF Recording
    <3>2. \A k \in 1..Len(reports) :
            /\ reports[k].order = k - 1
            /\ \A a, b \in 1..Len(reports[k].symbols) :
                 a < b => reports[k].symbols[a] < reports[k].symbols[b]
      BY <2>2, <3>1 DEF ReportsComplete
    <3>3. /\ Len(reports) = Count(Opening, Len(program)) + 1 /\ reports[1].depth = 0
          /\ \A o \in 1..Len(program) : program[o].kind \in Opening =>
               reports[Count(Opening, o) + 1].depth = Depth(o)
      BY <2>2, <3>1 DEF ReportsComplete
    <3>4. \A j \in 1..Len(program) : \A d \in annotations[j] :
            d.role = "declaration" /\ d.symbol # 0 =>
              Occurs(d.symbol, reports[ScopeNumber(j) + 1].symbols)
      BY <2>2, <3>1 DEF ReportsComplete, Occurs
    <3>5. (Len(reports) = Count(Opening, Len(program)) + 1)'
      <4>1. Count(Opening, Len(program))' = Count(Opening, Len(program))
        BY <1>1 DEF Count, Opening
      <4> QED
        BY <1>1, <3>3, <4>1
    <3>6. (\A k \in 1..Len(reports) :
            /\ reports[k].order = k - 1
            /\ \A a, b \in 1..Len(reports[k].symbols) :
                 a < b => reports[k].symbols[a] < reports[k].symbols[b])'
      BY <1>1, <3>2
    <3>7. (\A o \in 1..Len(program) : program[o].kind \in Opening =>
             reports[Count(Opening, o) + 1].depth = Depth(o))'
      BY <1>1, <1>3, <3>3 DEF Opening
    <3>8. \A j \in 1..Len(program) : \A d \in annotations[j] :
            d.role = "declaration" /\ d.symbol # 0 =>
              Occurs(d.symbol, reports[ScopeNumber(j)' + 1].symbols)
      BY <1>4, <3>4
    <3>9. (\A j \in 1..Len(program) : \A d \in annotations[j] :
             d.role = "declaration" /\ d.symbol # 0 =>
               \E a \in 1..Len(reports[ScopeNumber(j) + 1].symbols) :
                 reports[ScopeNumber(j) + 1].symbols[a] = d.symbol)'
      BY <1>1, <3>8 DEF Occurs
    <3>10. (reports[1].depth = 0)'
      BY <1>1, <3>3
    <3> QED
      BY <3>5, <3>6, <3>7, <3>9, <3>10 DEF ReportsComplete
  <2> QED
    BY <2>1, <2>2
<1> QED
  BY <1>1, <1>5, <1>6, <1>7 DEF Recording

LEMMA InitRecording == Init => Recording
<1> SUFFICES ASSUME Init
             PROVE  Recording
  OBVIOUS
<1>1. /\ Len(scopes) = 1 /\ scopes[1].order = 0 /\ scopes[1].declared = <<1, 2>>
      /\ nextOrder = 1 /\ program = <<>> /\ reports = <<>> /\ finished = FALSE
  BY DEF Init
<1>2. Len(program) = 0 /\ Len(reports) = 0 /\ \A i : i \notin 1..0 /\ i \notin 2..1
  BY <1>1
<1>3. TextOK
  BY InitInv DEF Inv, Typed
<1>4. Count(Opening, 0) = 0
  BY <1>3, CountFacts
<1>5. Opened
  BY <1>1, <1>2 DEF Opened
<1>6. Placed(0, 0)
  <2>1. 1 \in 1..Len(scopes) /\ 0 = 1 - 1
    BY <1>1
  <2> QED
    BY <1>1, <2>1 DEF Placed
<1>7. AllPlaced
  BY <1>2, <1>6 DEF AllPlaced
<1>8. AllFiled
  BY <1>2 DEF AllFiled
<1>9. Rising(<<1, 2>>)
  BY DEF Rising
<1>10. AllRising
  BY <1>1, <1>2, <1>9 DEF AllRising
<1>11. ReportsComplete
  BY <1>1 DEF ReportsComplete
<1> QED
  BY <1>1, <1>2, <1>4, <1>5, <1>7, <1>8, <1>10, <1>11 DEF Recording

(* What each piece does is a walk, the closing of a scope or the end.      *)
LEMMA DeclareWalks ==
  ASSUME Inv, ~ finished, NEW p, Grows(p), p.kind \in Declaring, NEW symbol, symbol = SymbolFor(p),
         annotations' = Append(annotations, DeclaredAs(symbol)), storage' = Stored(symbol),
         reports' = reports, finished' = finished, NEW m, m = IF p.kind \in Opening THEN 1 ELSE 0,
         nextOrder' = nextOrder + m, NEW l, l = Len(scopes), Len(scopes') = l + m,
         \A k \in 1..l : scopes'[k] = declare(symbol)[k],
         p.kind \in Opening =>
           scopes'[l + 1].order = nextOrder /\ scopes'[l + 1].declared = <<>>
  PROVE  Walks(p, DeclaredAs(symbol))
<1> PICK new : new = declare(symbol)
  OBVIOUS
<1> PICK store : store = Stored(symbol)
  OBVIOUS
<1>1. symbol.name = p.of.name
  BY SymbolTyped DEF Grows
<1>2. Declared(p.of.name, symbol, new, store)
  BY DeclareFacts
<1>3. Noted(p, DeclaredAs(symbol))
  BY DeclareNoted
<1>4. l \in Nat \ {0} /\ l \in 1..l /\ \A k \in 1..l : k = l \/ k \in 1..(l - 1)
  BY <1>2 DEF Declared
<1>5. \A k \in 1..(l - 1) : new[k] = scopes[k]
  BY <1>2 DEF Declared
<1>6. CASE Existing(p.of.name) # 0
  <2>1. new = scopes
    BY <1>2, <1>6 DEF Declared
  <2>2. \A k \in 1..l : Grown(scopes'[k], scopes[k], Inserted)
    BY <2>1 DEF Grown
  <2>3. \A u \in DeclaredAs(symbol) : u.symbol = 0
    BY <1>1, <1>6 DEF DeclaredAs, Use
  <2> QED
    BY <1>3, <2>2, <2>3 DEF Walks, Declaring
<1>7. CASE Existing(p.of.name) = 0
  <2>1. /\ new[l].order = scopes[l].order
        /\ new[l].declared = Append(scopes[l].declared, Inserted)
    BY <1>2, <1>7 DEF Declared
  <2>2. \A k \in 1..l : Grown(new[k], scopes[k], Inserted)
    BY <1>4, <1>5, <2>1 DEF Grown
  <2>3. \A k \in 1..l : Grown(scopes'[k], scopes[k], Inserted)
    BY <2>2 DEF Grown
  <2>4. \A u \in DeclaredAs(symbol) : u.symbol = Inserted
    BY <1>1, <1>7 DEF DeclaredAs, Use
  <2>5. scopes'[l].declared = Append(scopes[l].declared, Inserted)
    BY <1>4, <2>1
  <2> QED
    BY <1>3, <2>3, <2>4, <2>5 DEF Walks, Declaring
<1> QED
  BY <1>6, <1>7

LEMMA PlainWalks ==
  ASSUME Inv, ~ finished, NEW p, NEW uses, Noted(p, uses), p.kind # "close",
         \A u \in uses : u.role # "declaration",
         reports' = reports, finished' = finished, NEW m, m = IF p.kind \in Opening THEN 1 ELSE 0,
         nextOrder' = nextOrder + m, NEW l, l = Len(scopes), Len(scopes') = l + m,
         \A k \in 1..l : scopes'[k] = scopes[k],
         p.kind \in Opening =>
           scopes'[l + 1].order = nextOrder /\ scopes'[l + 1].declared = <<>>
  PROVE  Walks(p, uses)
  BY DEF Walks, Grown

LEMMA VariableKeeps ==
  ASSUME Inv, Recording, ~ finished, NEW p, Grows(p), p.kind \in {"global", "parameter", "local"},
         NEW symbol, symbol = SymbolFor(p), annotations' = Append(annotations, DeclaredAs(symbol)),
         storage' = Stored(symbol), scopes' = declare(symbol),
         nextOrder' = nextOrder, reports' = reports, finished' = finished
  PROVE  Recording'
<1> PICK l : l = Len(scopes)
  OBVIOUS
<1> PICK m : m = IF p.kind \in Opening THEN 1 ELSE 0
  OBVIOUS
<1>1. p.kind \in Declaring /\ p.kind \notin Opening /\ m = 0
  BY DEF Declaring, Opening
<1>2. Len(declare(symbol)) = l /\ l \in Nat \ {0}
  BY <1>1, DeclareTyped
<1>3. nextOrder' = nextOrder + m /\ Len(scopes') = l + m
  BY <1>1, <1>2 DEF Inv, Typed
<1>4. \A k \in 1..l : scopes'[k] = declare(symbol)[k]
  OBVIOUS
<1>5. Walks(p, DeclaredAs(symbol))
  BY <1>1, <1>3, <1>4, DeclareWalks
<1> QED
  BY <1>5, WalkStep

LEMMA ScopeAppended ==
  ASSUME NEW old \in Seq(Scopes), NEW order \in Nat, NEW l, l = Len(old)
  PROVE  /\ Len(Append(old, Scope(order))) = l + 1
         /\ \A k \in 1..l : Append(old, Scope(order))[k] = old[k]
         /\ Append(old, Scope(order))[l + 1].order = order
         /\ Append(old, Scope(order))[l + 1].declared = <<>>
<1> PICK s : s = Scope(order)
  OBVIOUS
<1>1. s \in Scopes /\ s.order = order /\ s.declared = <<>>
  <2>1. s \in Scopes
    BY ScopeTyped
  <2> QED
    BY <2>1 DEF Scope
<1>2. /\ Len(Append(old, s)) = l + 1 /\ Append(old, s)[l + 1] = s
      /\ \A k \in 1..l : Append(old, s)[k] = old[k]
  BY <1>1, AppendProperties
<1> QED
  BY <1>1, <1>2

LEMMA FunctionKeeps ==
  ASSUME Inv, Recording, ~ finished, OpenFunction
  PROVE  Recording'
<1> PICK h \in Header :
      LET symbol == FunctionSymbol(h)
      IN /\ scopes' = pushScope(declare(symbol))
         /\ storage' = Stored(symbol)
         /\ nextOrder' = nextOrder + 1
         /\ Visit(Piece("function", h), DeclaredAs(symbol), declareOrDiagnose(symbol), {})
         /\ parameters' = h.params
         /\ currentFunction' = h
         /\ UNCHANGED reports
  BY DEF OpenFunction
<1> PICK p : p = Piece("function", h)
  OBVIOUS
<1> PICK symbol : symbol = FunctionSymbol(h)
  OBVIOUS
<1> PICK old : old = declare(symbol)
  OBVIOUS
<1> PICK l : l = Len(scopes)
  OBVIOUS
<1> PICK m : m = IF p.kind \in Opening THEN 1 ELSE 0
  OBVIOUS
<1>1. p \in Text /\ p.kind = "function" /\ p.of = h /\ symbol = SymbolFor(p)
  BY DEF Piece, Text, Kinds, SymbolFor
<1>2. /\ scopes' = Append(old, Scope(nextOrder)) /\ storage' = Stored(symbol)
      /\ program' = Append(program, p) /\ annotations' = Append(annotations, DeclaredAs(symbol))
      /\ nextOrder' = nextOrder + 1 /\ reports' = reports /\ finished' = finished
  BY DEF Visit, pushScope
<1>3. Grows(p) /\ p.kind \in Declaring /\ p.kind \in Opening /\ m = 1
  BY <1>1, <1>2 DEF Grows, Declaring, Opening
<1>4. old \in Seq(Scopes) /\ Len(old) = l /\ nextOrder \in Nat
  BY <1>1, <1>3, DeclareTyped DEF Inv, Typed
<1>5. /\ Len(scopes') = l + 1 /\ \A k \in 1..l : scopes'[k] = old[k]
      /\ scopes'[l + 1].order = nextOrder /\ scopes'[l + 1].declared = <<>>
  BY <1>2, <1>4, ScopeAppended
<1>6. Walks(p, DeclaredAs(symbol))
  <2>1. \A k \in 1..l : scopes'[k] = declare(symbol)[k]
    BY <1>5
  <2>2. Len(scopes') = l + m /\ nextOrder' = nextOrder + m
    BY <1>2, <1>3, <1>5
  <2> QED
    BY <1>1, <1>2, <1>3, <1>5, <2>1, <2>2, DeclareWalks
<1> QED
  BY <1>6, WalkStep

LEMMA BlockKeeps ==
  ASSUME Inv, Recording, ~ finished, OpenBlock
  PROVE  Recording'
<1> PICK p : p = Piece("block", None)
  OBVIOUS
<1> PICK uses : uses = {}
  OBVIOUS
<1> PICK l : l = Len(scopes)
  OBVIOUS
<1> PICK m : m = IF p.kind \in Opening THEN 1 ELSE 0
  OBVIOUS
<1>1. /\ scopes' = Append(scopes, Scope(nextOrder)) /\ storage' = storage
      /\ program' = Append(program, p) /\ annotations' = Append(annotations, uses)
      /\ nextOrder' = nextOrder + 1 /\ reports' = reports /\ finished' = finished
  BY DEF OpenBlock, Visit, pushScope
<1>2. p.kind = "block" /\ Grows(p) /\ p.kind \in Opening /\ m = 1
  BY <1>1 DEF Piece, Text, Kinds, Grows, Opening
<1>3. Noted(p, uses)
  BY <1>1, <1>2, PlainNoted
<1>4. scopes \in Seq(Scopes) /\ nextOrder \in Nat
  BY DEF Inv, Typed
<1>5. /\ Len(scopes') = l + 1 /\ \A k \in 1..l : scopes'[k] = scopes[k]
      /\ scopes'[l + 1].order = nextOrder /\ scopes'[l + 1].declared = <<>>
  BY <1>1, <1>4, ScopeAppended
<1>6. Walks(p, uses)
  <2>1. Len(scopes') = l + m /\ nextOrder' = nextOrder + m /\ p.kind # "close"
    BY <1>1, <1>2, <1>5
  <2> QED
    BY <1>1, <1>3, <1>5, <2>1, PlainWalks
<1> QED
  BY <1>6, WalkStep

LEMMA StatementKeeps ==
  ASSUME Inv, Recording, ~ finished, NEW p, Grows(p),
         p.kind \notin Declaring \union Opening \union {"close"},
         NEW uses, AllRight(uses), annotations' = Append(annotations, uses),
         scopes' = scopes, storage' = storage,
         nextOrder' = nextOrder, reports' = reports, finished' = finished
  PROVE  Recording'
<1> PICK l : l = Len(scopes)
  OBVIOUS
<1> PICK m : m = IF p.kind \in Opening THEN 1 ELSE 0
  OBVIOUS
<1>1. p.kind # "close" /\ p.kind \notin Opening /\ m = 0
  OBVIOUS
<1>2. \A u \in uses : u \in Uses /\ u.role # "declaration"
  BY DEF AllRight, Right
<1>3. Noted(p, uses)
  <2>1. uses \in SUBSET Uses
    BY <1>2
  <2> QED
    BY <2>1, PlainNoted
<1>4. nextOrder' = nextOrder + m /\ Len(scopes') = l + m
  BY <1>1 DEF Inv, Typed
<1>5. Walks(p, uses)
  BY <1>1, <1>2, <1>3, <1>4, PlainWalks
<1> QED
  BY <1>5, WalkStep

LEMMA CloseScopeKeeps ==
  ASSUME Inv, Recording, ~ finished, CloseScope
  PROVE  Recording'
<1> PICK p : p = Piece("close", None)
  OBVIOUS
<1> PICK uses : uses = {}
  OBVIOUS
<1> PICK l : l = Len(scopes)
  OBVIOUS
<1> PICK r : r = Len(reports)
  OBVIOUS
<1> PICK report : report = ScopeReport
  OBVIOUS
<1>1. /\ scopes' = SubSeq(scopes, 1, l - 1) /\ reports' = Append(reports, report)
      /\ storage' = storage
      /\ program' = Append(program, p) /\ annotations' = Append(annotations, uses)
      /\ nextOrder' = nextOrder /\ finished' = finished /\ l > 1
  BY DEF CloseScope, InFunction, Visit, popScope
<1>2. p.kind = "close" /\ Grows(p)
  BY <1>1 DEF Piece, Text, Kinds, Grows
<1>3. Noted(p, uses)
  BY <1>1, <1>2, PlainNoted
<1>4. /\ scopes \in Seq(Scopes) /\ l \in Nat /\ reports \in Seq(Reports) /\ r \in Nat
  BY DEF Inv, Typed, Reports
<1>5. Len(scopes') = l - 1 /\ \A k \in 1..(l - 1) : scopes'[k] = scopes[k]
  BY <1>1, <1>4
<1>6. report \in Reports
  BY ReportTyped
<1>7. report = [order |-> scopes[l].order, depth |-> l - 1, symbols |-> scopes[l].declared]
  BY DEF ScopeReport, Innermost, depth
<1>8. Len(reports') = r + 1 /\ reports'[r + 1] = report /\ \A k \in 1..r : reports'[k] = reports[k]
  BY <1>1, <1>4, <1>6, AppendProperties
<1>9. Closes(p, uses)
  BY <1>1, <1>2, <1>3, <1>5, <1>7, <1>8 DEF Closes
<1> QED
  BY <1>9, CloseKeeps

LEMMA ExpressionKeeps ==
  ASSUME Inv, Recording, ~ finished, NEW kind \in {"exprstmt", "condition", "return"},
         NEW e \in Expr, NEW found, Statement(kind, e, analyzeExpr[e], found)
  PROVE  Recording'
<1> PICK p : p = Piece(kind, e)
  OBVIOUS
<1> PICK uses : uses = analyzeExpr[e].uses
  OBVIOUS
<1>1. /\ scopes' = scopes /\ reports' = reports /\ storage' = storage
      /\ program' = Append(program, p) /\ annotations' = Append(annotations, uses)
      /\ nextOrder' = nextOrder /\ finished' = finished
  BY DEF Statement, Visit, table
<1>2. /\ p.kind = kind /\ p \in Text
      /\ p.kind \notin Declaring \union Opening \union {"close"}
  BY DEF Piece, Text, Kinds, Declaring, Opening
<1>3. Grows(p) /\ AllRight(uses)
  BY <1>1, <1>2, UsesRight DEF Grows
<1> QED
  BY <1>1, <1>2, <1>3, StatementKeeps

LEMMA ReturnKeeps ==
  ASSUME Inv, Recording, ~ finished, NEW found, Statement("return", None, Nothing, found)
  PROVE  Recording'
<1> PICK p : p = Piece("return", None)
  OBVIOUS
<1> PICK uses : uses = {}
  OBVIOUS
<1>1. /\ scopes' = scopes /\ reports' = reports /\ storage' = storage
      /\ program' = Append(program, p) /\ annotations' = Append(annotations, uses)
      /\ nextOrder' = nextOrder /\ finished' = finished
  BY DEF Statement, Visit, table, Nothing, Result
<1>2. /\ p.kind = "return" /\ p \in Text
      /\ p.kind \notin Declaring \union Opening \union {"close"}
  BY DEF Piece, Text, Kinds, Declaring, Opening
<1>3. Grows(p) /\ AllRight(uses)
  BY <1>1, <1>2 DEF Grows, AllRight
<1> QED
  BY <1>1, <1>2, <1>3, StatementKeeps

LEMMA DeclarationKeeps ==
  ASSUME Inv, Recording, ~ finished, NEW kind \in {"global", "local"}, NEW v \in Variable,
         analyzeVarDecl(kind, v)
  PROVE  Recording'
<1> PICK p : p = Piece(kind, v)
  OBVIOUS
<1> PICK symbol : symbol = VariableSymbol(v)
  OBVIOUS
<1>1. p \in Text /\ p.kind = kind /\ p.of = v /\ symbol = SymbolFor(p)
  BY DEF Piece, Text, Kinds, SymbolFor
<1>2. /\ scopes' = declare(symbol) /\ storage' = Stored(symbol)
      /\ program' = Append(program, p) /\ annotations' = Append(annotations, DeclaredAs(symbol))
      /\ nextOrder' = nextOrder /\ reports' = reports /\ finished' = finished
  BY DEF analyzeVarDecl, Visit
<1>3. Grows(p)
  BY <1>1, <1>2 DEF Grows
<1> QED
  BY <1>1, <1>2, <1>3, VariableKeeps

LEMMA ParameterKeeps ==
  ASSUME Inv, Recording, ~ finished, analyzeParam
  PROVE  Recording'
<1> PICK of : of = Head(parameters)
  OBVIOUS
<1> PICK p : p = Piece("parameter", of)
  OBVIOUS
<1> PICK symbol : symbol = ParameterSymbol(of)
  OBVIOUS
<1>1. parameters \in Seq(Parameter) /\ parameters # <<>>
  BY DEF Inv, Typed, analyzeParam
<1>2. of \in Parameter
  BY <1>1
<1>3. p \in Text /\ p.kind = "parameter" /\ p.of = of /\ symbol = SymbolFor(p)
  BY <1>2 DEF Piece, Text, Kinds, SymbolFor
<1>4. /\ scopes' = declare(symbol) /\ storage' = Stored(symbol)
      /\ program' = Append(program, p) /\ annotations' = Append(annotations, DeclaredAs(symbol))
      /\ nextOrder' = nextOrder /\ reports' = reports /\ finished' = finished
  BY DEF analyzeParam, Visit
<1>5. Grows(p)
  BY <1>3, <1>4 DEF Grows
<1> QED
  BY <1>3, <1>4, <1>5, VariableKeeps

LEMMA EndProgramKeeps ==
  ASSUME Inv, Recording, EndProgram
  PROVE  Recording'
<1>1. /\ ~ finished /\ Len(scopes) = 1
      /\ reports' = Sorted(Append(reports, ScopeReport)) /\ finished' = TRUE
      /\ nextOrder' = nextOrder /\ program' = program /\ annotations' = annotations
  BY DEF EndProgram, AtTopLevel
<1> QED
  BY <1>1, EndKeeps

LEMMA NextRecording == Inv /\ Recording /\ [Next]_vars => Recording'
<1> SUFFICES ASSUME Inv, Recording, [Next]_vars
             PROVE  Recording'
  OBVIOUS
<1>0. finished => Len(scopes) = 0 /\ parameters = <<>>
  BY DEF Inv, Nesting
<1>1. InFunction => ~ finished
  BY <1>0 DEF InFunction
<1>2. CASE GlobalVariable
  <2>1. PICK v \in Variable : analyzeVarDecl("global", v)
    BY <1>2 DEF GlobalVariable
  <2>2. ~ finished
    BY <1>2 DEF GlobalVariable, AtTopLevel
  <2> QED
    BY <2>1, <2>2, DeclarationKeeps
<1>3. CASE OpenFunction
  <2>1. ~ finished
    BY <1>3 DEF OpenFunction, AtTopLevel
  <2> QED
    BY <1>3, <2>1, FunctionKeeps
<1>4. CASE analyzeParam
  <2>1. ~ finished
    BY <1>0, <1>4 DEF analyzeParam
  <2> QED
    BY <1>4, <2>1, ParameterKeeps
<1>5. CASE LocalVariable
  <2>1. PICK v \in Variable : analyzeVarDecl("local", v)
    BY <1>5 DEF LocalVariable
  <2>2. ~ finished
    BY <1>1, <1>5 DEF LocalVariable
  <2> QED
    BY <2>1, <2>2, DeclarationKeeps
<1>6. CASE OpenBlock
  <2>1. ~ finished
    BY <1>1, <1>6 DEF OpenBlock
  <2> QED
    BY <1>6, <2>1, BlockKeeps
<1>7. CASE CloseScope
  <2>1. ~ finished
    BY <1>1, <1>7 DEF CloseScope
  <2> QED
    BY <1>7, <2>1, CloseScopeKeeps
<1>8. CASE ExprStatement
  <2>1. ~ finished
    BY <1>1, <1>8 DEF ExprStatement
  <2>2. PICK e \in Expr : Statement("exprstmt", e, analyzeExpr[e], {})
    BY <1>8 DEF ExprStatement
  <2> QED
    BY <2>1, <2>2, ExpressionKeeps
<1>9. CASE analyzeCondition
  <2>1. ~ finished
    BY <1>1, <1>9 DEF analyzeCondition
  <2>2. PICK e \in Expr : Statement("condition", e, analyzeExpr[e], requireInt(analyzeExpr[e].type))
    BY <1>9 DEF analyzeCondition
  <2> QED
    BY <2>1, <2>2, ExpressionKeeps
<1>10. CASE analyzeReturn
  <2>1. ~ finished
    BY <1>1, <1>10 DEF analyzeReturn
  <2>2. CASE \E found : Statement("return", None, Nothing, found)
    BY <2>1, <2>2, ReturnKeeps
  <2>3. CASE \E e \in Expr : \E found : Statement("return", e, analyzeExpr[e], found)
    BY <2>1, <2>3, ExpressionKeeps
  <2> QED
    BY <1>10, <2>2, <2>3 DEF analyzeReturn
<1>11. CASE EndProgram
  BY <1>11, EndProgramKeeps
<1>12. CASE UNCHANGED vars
  BY <1>12, StutterKeeps
<1> QED
  BY <1>2, <1>3, <1>4, <1>5, <1>6, <1>7, <1>8, <1>9, <1>10, <1>11, <1>12 DEF Next

(* When the analysis of a program is over there is one report for each     *)
(* scope that its braces open, in the order of opening and at the depth it *)
(* had, and every symbol is in the report of the scope around its          *)
(* declaration, in the order of the text, whatever closed in between       *)
(* (SymbolTable::popScope, SemanticAnalyzer::closeScope, analyze).         *)
THEOREM ReportsCorrect == Spec => []ReportsComplete
<1>1. Init => Inv /\ Recording
  BY InitInv, InitRecording
<1>2. Inv /\ Recording /\ [Next]_vars => (Inv /\ Recording)'
  BY NextInv, NextRecording
<1>3. Inv /\ Recording => ReportsComplete
  BY DEF Recording
<1> QED
  BY <1>1, <1>2, <1>3, PTL DEF Spec

-----------------------------------------------------------------------------
(* The parts of an expression.                                             *)

Whole(f, e) == {e} \union UNION {f[p] : p \in Parts(e)}

LEMMA PartsOfExists ==
  \E f \in [Expr -> SUBSET Expr] : f = [e \in Expr |-> Whole(f, e)]
<1> DEFINE S == [Expr -> SUBSET Expr]
           F == [f \in S |-> [e \in Expr |-> Whole(f, e)]]
<1>1. F \in [S -> S]
  <2>1. ASSUME NEW f \in S, NEW e \in Expr
        PROVE  Whole(f, e) \in SUBSET Expr
    BY PartsFacts DEF Whole
  <2> QED
    BY <2>1
<1>2. ASSUME NEW f \in S, NEW g \in S, NEW e \in Expr, Agree(f, g, Expr, Height, Height[e])
      PROVE  Whole(f, e) = Whole(g, e)
  <2>1. \A p \in Parts(e) : f[p] = g[p]
    BY <1>2, PartsFacts DEF Agree
  <2> QED
    BY <2>1 DEF Whole
<1>3. LowerDecides(Expr, SUBSET Expr, Height, F)
  BY <1>2 DEF LowerDecides
<1>4. Height \in [Expr -> Nat] /\ SUBSET Expr # {}
  BY ProgramAssumption
<1>5. PICK V, G : V = SUBSET Expr /\ G = F
  OBVIOUS
<1>6. \A f \in S : F[f] = [e \in Expr |-> Whole(f, e)]
  OBVIOUS
<1> HIDE DEF F
<1>7. Recursion(Expr, V, Height, G)
  BY <1>1, <1>3, <1>4, <1>5 DEF Recursion
<1>8. Answered(Expr, V, G)
  BY <1>7, RecursionExists, Zenon
<1> QED
  BY <1>5, <1>6, <1>8 DEF Answered

LEMMA PartsOfFacts ==
  /\ \A e \in Expr : PartsOf[e] \in SUBSET Expr
  /\ \A e \in Expr : \A q : q \in PartsOf[e] <=> q = e \/ \E p \in Parts(e) : q \in PartsOf[p]
<1>1. \E f : f = [e \in Expr |-> {e} \union UNION {f[p] : p \in Parts(e)}]
  BY PartsOfExists DEF Whole
<1>2. PartsOf = [e \in Expr |-> {e} \union UNION {PartsOf[p] : p \in Parts(e)}]
  BY <1>1, Zenon DEF PartsOf
<1>3. PICK a : a = PartsOf
  OBVIOUS
<1>4. a = [e \in Expr |-> Whole(a, e)]
  <2>1. PartsOf = [e \in Expr |-> Whole(PartsOf, e)]
    BY <1>2, Zenon DEF Whole
  <2> QED
    BY <1>3, <2>1
<1>5. \A e \in Expr : a[e] = Whole(a, e)
  BY <1>4
<1>6. \A e \in Expr : \A q : q \in a[e] <=> q = e \/ \E p \in Parts(e) : q \in a[p]
  BY <1>5 DEF Whole
<1> DEFINE R == {e \in Expr : a[e] \in SUBSET Expr}
<1>7. ASSUME NEW e \in Expr, \A d \in Expr : Height[d] < Height[e] => d \in R
      PROVE  e \in R
  <2>1. \A p \in Parts(e) : a[p] \in SUBSET Expr
    BY <1>7, PartsFacts
  <2> QED
    BY <1>6, <2>1
<1>8. Expr \subseteq R
  <2>1. Height \in [Expr -> Nat]
    BY ProgramAssumption
  <2> HIDE DEF R
  <2> QED
    BY <1>7, <2>1, TreeInduction
<1> QED
  BY <1>3, <1>6, <1>8

LEMMA LegalParts ==
  ASSUME NEW e \in Expr, NEW i
  PROVE  LegalExpr(e, i) <=> LegalPart(e, i) /\ \A p \in Parts(e) : LegalExpr(p, i)
  BY PartsOfFacts, PartsFacts DEF LegalExpr

-----------------------------------------------------------------------------
(* What names mean.                                                        *)

Sound(m) ==
  /\ m.kind \in {"variable", "parameter", "function"} /\ m.type \in Types
  /\ m.kind # "function" => m.type \in {"int", "array"}
  /\ m.kind = "function" => m.type \in {"int", "void"} /\ m.params \in Seq({"int", "array"})
  /\ m.size \in Nat /\ (m.kind = "parameter" => m.size = 0)

LEMMA SymbolSound ==
  ASSUME NEW p \in Text, p.kind \in Declaring
  PROVE  Sound(SymbolFor(p))
<1>1. \A type : Recorded(type) \in {"int", "array"}
  BY DEF Recorded
<1>2. CASE p.kind \in {"global", "local"}
  <2>1. p.of \in Variable
    BY <1>2 DEF Text
  <2>2. SymbolFor(p) = VariableSymbol(p.of)
    BY <1>2 DEF SymbolFor
  <2>3. (IF p.of.type = "array" THEN p.of.size ELSE 0) \in Nat
    BY <2>1, ProgramAssumption
  <2> QED
    BY <1>1, <2>2, <2>3 DEF VariableSymbol, Symbol, Sound, Types
<1>3. CASE p.kind = "parameter"
  <2>1. SymbolFor(p) = ParameterSymbol(p.of)
    BY <1>3 DEF SymbolFor
  <2> QED
    BY <1>1, <2>1 DEF ParameterSymbol, Symbol, Sound, Types
<1>4. CASE p.kind = "function"
  <2>1. p.of \in Header
    BY <1>4 DEF Text
  <2>2. SymbolFor(p) = FunctionSymbol(p.of)
    BY <1>4 DEF SymbolFor
  <2>3. p.of.type \in {"int", "void"} /\ Len(p.of.params) \in Nat
    BY <2>1, ProgramAssumption
  <2> DEFINE params == [i \in 1..Len(p.of.params) |-> Recorded(p.of.params[i].type)]
  <2>4. params \in Seq({"int", "array"})
    BY <1>1, <2>3
  <2>5. SymbolFor(p) = Symbol("function", p.of.name, p.of.type, 0, params, FALSE)
    BY <2>2 DEF FunctionSymbol
  <2> HIDE DEF params
  <2> QED
    BY <2>3, <2>4, <2>5 DEF Symbol, Sound, Types
<1> QED
  BY <1>2, <1>3, <1>4 DEF Declaring

LEMMA MeaningSound ==
  ASSUME TextOK, NEW i \in 1..(Len(program) + 1), NEW name, Meaning(name, i) # None
  PROVE  Sound(Meaning(name, i))
<1> PICK j : j = Denotes(name, i)
  OBVIOUS
<1>1. j = 0 \/ (j \in 1..Len(program) /\ program[j].kind \in Declaring)
  BY DenotesFacts, InScopeFacts DEF DenotesRight, Valid, DeclarationsOf
<1>2. CASE j # 0
  <2>1. program[j] \in Text /\ program[j].kind \in Declaring
    BY <1>1, <1>2 DEF TextOK
  <2>2. Meaning(name, i) = SymbolOf(j)
    BY <1>2, MeaningOf
  <2>3. SymbolOf(j) = SymbolFor(program[j])
    BY DEF SymbolOf, SymbolFor
  <2> QED
    BY <2>1, <2>2, <2>3, SymbolSound
<1>3. CASE j = 0
  <2>1. Meaning(name, i) \in {input, output}
    BY <1>3, MeaningOf
  <2>2. <<>> \in Seq({"int", "array"}) /\ <<"int">> \in Seq({"int", "array"})
    OBVIOUS
  <2>3. Sound(input) /\ Sound(output)
    BY <2>2 DEF input, output, Symbol, Sound, Types
  <2> QED
    BY <2>1, <2>3
<1> QED
  BY <1>2, <1>3

(* What the analyzer finds for a name, by the text.                        *)
LEMMA FoundRight ==
  ASSUME Inv, ~ finished, NEW name \in Names, NEW s, s = lookup(name),
         NEW m, m = Meaning(name, Here)
  PROVE  /\ s = 0 <=> m = None
         /\ s # 0 => m = storage[s] /\ Sound(m)
<1>1. Answers(s, name)
  BY LookupRight
<1>2. Here \in 1..(Len(program) + 1) /\ TextOK
  BY DEF Here, Inv, Typed, TextOK
<1>3. m # None => Sound(m)
  BY <1>2, MeaningSound
<1> QED
  BY <1>1, <1>3 DEF Answers

LEMMA StaticFacts ==
  ASSUME NEW e, NEW i
  PROVE  /\ e.kind = "var" /\ e.index = None /\ IsVariable(Meaning(e.name, i)) =>
              StaticType(e, i) = Meaning(e.name, i).type
         /\ e.kind = "call" /\ IsFunction(Meaning(e.callee, i)) =>
              StaticType(e, i) = Meaning(e.callee, i).type
         /\ e.kind = "var" /\ ~ (e.index = None /\ IsVariable(Meaning(e.name, i))) =>
              StaticType(e, i) = "int"
         /\ e.kind = "call" /\ ~ IsFunction(Meaning(e.callee, i)) => StaticType(e, i) = "int"
         /\ e.kind \notin {"var", "call"} => StaticType(e, i) = "int"
  BY DEF StaticType

LEMMA RequireIntFacts ==
  ASSUME NEW type \in Types
  PROVE  requireInt(type) = {} <=> type = "int"
  BY DEF requireInt, Types

LEMMA CheckArgumentFacts ==
  ASSUME NEW wanted \in {"int", "array"}, NEW given \in Types
  PROVE  CheckArgument(wanted, given) = {} <=> given = wanted
<1>1. requireInt(given) = {} <=> given = "int"
  BY RequireIntFacts
<1> QED
  BY <1>1 DEF CheckArgument

(* An analysis that gives the type and finds fault as the rules do.        *)
Judged(r, e) ==
  /\ r.type = StaticType(e, Here) /\ r.type \in Types
  /\ r.errors = {} <=> LegalExpr(e, Here)

LEMMA ResultFields ==
  ASSUME NEW type, NEW found, NEW warned, NEW uses
  PROVE  /\ Result(type, found, warned, uses).type = type
         /\ Result(type, found, warned, uses).errors = found
         /\ Result(type, found, warned, uses).warnings = warned
  BY DEF Result

LEMMA VarResult ==
  ASSUME NEW e, NEW r, NEW s, s = lookup(e.name), NEW a, a = analyzeVarExpr(e, r)
  PROVE  /\ s = 0 \/ storage[s].kind = "function" =>
              a.type = "int" /\ a.errors # {} /\ a.warnings = r.warnings
         /\ ~ (s = 0 \/ storage[s].kind = "function") /\ e.index = None =>
              a.type = storage[s].type /\ a.errors = {} /\ a.warnings = {}
         /\ ~ (s = 0 \/ storage[s].kind = "function") /\ e.index # None =>
              /\ a.type = "int"
              /\ a.errors = {} <=>
                   r.errors = {} /\ requireInt(r.type) = {} /\ storage[s].type = "array"
              /\ a.warnings = r.warnings
                   \union (IF storage[s].type = "array" THEN PastTheEnd(storage[s], e.index)
                           ELSE {})
<1> DEFINE type == storage[s].type
           missing == s = 0 \/ storage[s].kind = "function"
           E1 == {IF s = 0 THEN "undeclared" ELSE "function as a variable"} \union r.errors
           E2 == r.errors \union requireInt(r.type)
                   \union (IF type = "array" THEN {} ELSE {"not an array"})
           W2 == r.warnings
                   \union (IF type = "array" THEN PastTheEnd(storage[s], e.index) ELSE {})
           U1 == {Use("var", e.name, 0)} \union r.uses
           U2 == {Use("var", e.name, s)}
           U3 == {Use("var", e.name, s)} \union r.uses
<1>1. a = CASE missing -> Result("int", E1, r.warnings, U1)
            [] ~missing /\ e.index = None -> Result(type, {}, {}, U2)
            [] OTHER -> Result("int", E2, W2, U3)
  BY DEF analyzeVarExpr
<1>2. E1 # {}
  OBVIOUS
<1>3. E2 = {} <=> r.errors = {} /\ requireInt(r.type) = {} /\ type = "array"
  OBVIOUS
<1> HIDE DEF E1, E2, W2, U1, U2, U3
<1>4. missing => a.type = "int" /\ a.errors = E1 /\ a.warnings = r.warnings
  BY <1>1, ResultFields
<1>5. ~ missing /\ e.index = None => a.type = type /\ a.errors = {} /\ a.warnings = {}
  BY <1>1, ResultFields
<1>6. ~ missing /\ e.index # None => a.type = "int" /\ a.errors = E2 /\ a.warnings = W2
  BY <1>1, ResultFields
<1> QED
  BY <1>2, <1>3, <1>4, <1>5, <1>6 DEF W2

(* No fault in the arguments, nor between them and the parameters.         *)
Fitting(e, args, params) ==
  /\ \A i \in 1..Len(e.args) : args[i].errors = {}
  /\ Len(e.args) = Len(params)
  /\ \A i \in 1..Len(e.args) : CheckArgument(params[i], args[i].type) = {}

LEMMA CallResult ==
  ASSUME NEW e, NEW args, NEW s, s = lookup(e.callee), NEW a, a = analyzeCallExpr(e, args)
  PROVE  /\ a.warnings = UNION {args[i].warnings : i \in 1..Len(e.args)}
         /\ s = 0 \/ storage[s].kind # "function" => a.type = "int" /\ a.errors # {}
         /\ ~ (s = 0 \/ storage[s].kind # "function") =>
              /\ a.type = storage[s].type
              /\ a.errors = {} <=> Fitting(e, args, storage[s].params)
<1> DEFINE callee == storage[s]
           n == Len(e.args)
           inside == UNION {args[i].errors : i \in 1..n}
           warned == UNION {args[i].warnings : i \in 1..n}
           uses == UNION {args[i].uses : i \in 1..n}
           E1 == {"undeclared"} \union inside
           E2 == {"not a function"} \union inside
           checked == UNION {CheckArgument(callee.params[i], args[i].type) : i \in 1..n}
           E3 == inside \union (IF n # Len(callee.params) THEN {"number of arguments"} ELSE checked)
           U1 == {Use("call", e.callee, 0)} \union uses
           U2 == {Use("call", e.callee, s)} \union uses
<1>1. a = CASE s = 0 -> Result("int", E1, warned, U1)
            [] s # 0 /\ callee.kind # "function" -> Result("int", E2, warned, U1)
            [] OTHER -> Result(callee.type, E3, warned, U2)
  BY DEF analyzeCallExpr
<1>2. E1 # {} /\ E2 # {}
  OBVIOUS
<1>3. inside = {} <=> \A i \in 1..n : args[i].errors = {}
  OBVIOUS
<1>4. checked = {} <=> \A i \in 1..n : CheckArgument(callee.params[i], args[i].type) = {}
  OBVIOUS
<1> HIDE DEF inside, checked
<1>5. E3 = {} <=> inside = {} /\ n = Len(callee.params) /\ checked = {}
  OBVIOUS
<1> HIDE DEF warned, uses, E1, E2, E3, U1, U2
<1>6. s = 0 => a.type = "int" /\ a.errors = E1 /\ a.warnings = warned
  BY <1>1, ResultFields
<1>7. s # 0 /\ callee.kind # "function" => a.type = "int" /\ a.errors = E2 /\ a.warnings = warned
  BY <1>1, ResultFields
<1>8. s # 0 /\ callee.kind = "function" =>
        a.type = callee.type /\ a.errors = E3 /\ a.warnings = warned
  BY <1>1, ResultFields
<1>9. a.warnings = warned
  BY <1>6, <1>7, <1>8
<1>10. s = 0 \/ storage[s].kind # "function" => a.type = "int" /\ a.errors # {}
  BY <1>2, <1>6, <1>7
<1>11. ~ (s = 0 \/ storage[s].kind # "function") =>
        /\ a.type = storage[s].type
        /\ a.errors = {} <=> Fitting(e, args, storage[s].params)
  BY <1>3, <1>4, <1>5, <1>8 DEF Fitting
<1> QED
  BY <1>9, <1>10, <1>11 DEF warned

LEMMA AssignResult ==
  ASSUME NEW l, NEW r, NEW a, a = analyzeAssign(l, r)
  PROVE  /\ a.type = "int" /\ a.warnings = l.warnings \union r.warnings
         /\ a.errors = {} <=>
              l.errors = {} /\ r.errors = {} /\ requireInt(r.type) = {} /\ l.type # "array"
<1> DEFINE E == l.errors \union r.errors \union requireInt(r.type)
                  \union (IF l.type = "array" THEN {"assignment to an array"} ELSE {})
<1>1. a = Result("int", E, l.warnings \union r.warnings, l.uses \union r.uses)
  BY DEF analyzeAssign
<1>2. E = {} <=> l.errors = {} /\ r.errors = {} /\ requireInt(r.type) = {} /\ l.type # "array"
  OBVIOUS
<1> HIDE DEF E
<1> QED
  BY <1>1, <1>2, ResultFields

LEMMA BinaryResult ==
  ASSUME NEW e, NEW l, NEW r, NEW a, a = analyzeBinary(e, l, r)
  PROVE  /\ a.type = "int"
         /\ a.warnings = l.warnings \union r.warnings \union DivisionByZero(e)
         /\ a.errors = {} <=>
              /\ l.errors = {} /\ requireInt(l.type) = {}
              /\ r.errors = {} /\ requireInt(r.type) = {}
<1> DEFINE E == l.errors \union requireInt(l.type) \union r.errors \union requireInt(r.type)
<1>1. a = Result("int", E, l.warnings \union r.warnings \union DivisionByZero(e),
                 l.uses \union r.uses)
  BY DEF analyzeBinary
<1>2. E = {} <=> /\ l.errors = {} /\ requireInt(l.type) = {}
                 /\ r.errors = {} /\ requireInt(r.type) = {}
  OBVIOUS
<1> HIDE DEF E
<1> QED
  BY <1>1, <1>2, ResultFields


(* One clause of the rules for each kind of expression.                    *)
LEMMA LegalPartFacts ==
  ASSUME NEW e, NEW i
  PROVE  /\ e.kind = "num" => LegalPart(e, i)
         /\ e.kind = "var" =>
              (LegalPart(e, i) <=>
                 /\ IsVariable(Meaning(e.name, i))
                 /\ e.index # None => Meaning(e.name, i).type = "array" /\ IsInt(e.index, i))
         /\ e.kind = "call" =>
              (LegalPart(e, i) <=>
                 /\ IsFunction(Meaning(e.callee, i))
                 /\ [k \in 1..Len(e.args) |-> StaticType(e.args[k], i)]
                      = Meaning(e.callee, i).params)
         /\ e.kind = "assign" => (LegalPart(e, i) <=> IsInt(e.target, i) /\ IsInt(e.value, i))
         /\ e.kind = "binary" => (LegalPart(e, i) <=> IsInt(e.lhs, i) /\ IsInt(e.rhs, i))
  BY DEF LegalPart

LEMMA SameTypes ==
  ASSUME NEW S, NEW s \in Seq(S), NEW n \in Nat, NEW T(_)
  PROVE  [k \in 1..n |-> T(k)] = s <=> n = Len(s) /\ \A k \in 1..n : T(k) = s[k]
<1>1. s = [k \in 1..Len(s) |-> s[k]] /\ Len(s) \in Nat
  OBVIOUS
<1>2. ASSUME [k \in 1..n |-> T(k)] = s
      PROVE  n = Len(s) /\ \A k \in 1..n : T(k) = s[k]
  <2>1. DOMAIN s = 1..n /\ \A k \in 1..n : T(k) = s[k]
    BY <1>2
  <2>2. 1..n = 1..Len(s)
    BY <1>1, <2>1
  <2> QED
    BY <1>1, <2>1, <2>2
<1>3. ASSUME n = Len(s), \A k \in 1..n : T(k) = s[k]
      PROVE  [k \in 1..n |-> T(k)] = s
  BY <1>1, <1>3
<1> QED
  BY <1>2, <1>3

LEMMA VarJudged ==
  ASSUME Inv, ~ finished, NEW e \in Expr, e.kind = "var", NEW r \in Results,
         e.index # None => Judged(r, e.index), NEW a, a = analyzeVarExpr(e, r)
  PROVE  Judged(a, e)
<1> PICK s : s = lookup(e.name)
  OBVIOUS
<1> PICK i : i = Here
  OBVIOUS
<1> PICK m : m = Meaning(e.name, i)
  OBVIOUS
<1>1. e.name \in Names
  BY VarNames
<1>2. /\ s = 0 <=> m = None
      /\ s # 0 => m = storage[s] /\ Sound(m)
  BY <1>1, FoundRight
<1>3. /\ Parts(e) = {e.index} \ {None}
      /\ e.index \in Expr \union {None}
  BY PartsFacts
<1>4. LegalExpr(e, i) <=> LegalPart(e, i) /\ (e.index # None => LegalExpr(e.index, i))
  BY <1>3, LegalParts
<1>5. LegalPart(e, i) <=>
        IsVariable(m) /\ (e.index # None => m.type = "array" /\ StaticType(e.index, i) = "int")
  BY LegalPartFacts DEF IsInt
<1>6. /\ e.index = None /\ IsVariable(m) => StaticType(e, i) = m.type
      /\ ~ (e.index = None /\ IsVariable(m)) => StaticType(e, i) = "int"
  BY StaticFacts
<1>7. IsVariable(m) <=> ~ (s = 0 \/ storage[s].kind = "function")
  BY <1>2 DEF IsVariable
<1>8. e.index # None =>
        /\ r.type = StaticType(e.index, i)
        /\ requireInt(r.type) = {} <=> r.type = "int"
        /\ r.errors = {} <=> LegalExpr(e.index, i)
  BY RequireIntFacts DEF Judged
<1>9. "int" \in Types
  BY DEF Types
<1>10. CASE ~ IsVariable(m)
  <2>1. a.type = "int" /\ a.errors # {}
    BY <1>7, <1>10, VarResult
  <2> QED
    BY <1>4, <1>5, <1>6, <1>9, <1>10, <2>1 DEF Judged
<1>11. CASE IsVariable(m) /\ e.index = None
  <2>1. a.type = storage[s].type /\ a.errors = {}
    BY <1>7, <1>11, VarResult
  <2>2. a.type = m.type /\ m.type \in Types
    BY <1>2, <1>7, <1>11, <2>1 DEF Sound
  <2> QED
    BY <1>4, <1>5, <1>6, <1>11, <2>1, <2>2 DEF Judged
<1>12. CASE IsVariable(m) /\ e.index # None
  <2>1. /\ a.type = "int"
        /\ a.errors = {} <=> r.errors = {} /\ requireInt(r.type) = {} /\ storage[s].type = "array"
    BY <1>7, <1>12, VarResult
  <2>2. storage[s] = m
    BY <1>2, <1>7, <1>12
  <2> QED
    BY <1>4, <1>5, <1>6, <1>8, <1>9, <1>12, <2>1, <2>2 DEF Judged
<1> QED
  BY <1>10, <1>11, <1>12

LEMMA CallJudged ==
  ASSUME Inv, ~ finished, NEW e \in Expr, e.kind = "call", NEW args,
         \A k \in 1..Len(e.args) : args[k] \in Results /\ Judged(args[k], e.args[k]),
         NEW a, a = analyzeCallExpr(e, args)
  PROVE  Judged(a, e)
<1> PICK s : s = lookup(e.callee)
  OBVIOUS
<1> PICK i : i = Here
  OBVIOUS
<1> PICK m : m = Meaning(e.callee, i)
  OBVIOUS
<1> PICK n : n = Len(e.args)
  OBVIOUS
<1>1. e.callee \in Names
  BY VarNames
<1>2. /\ s = 0 <=> m = None
      /\ s # 0 => m = storage[s] /\ Sound(m)
  BY <1>1, FoundRight
<1>3. Parts(e) = {e.args[k] : k \in 1..n} /\ n \in Nat
  BY PartsFacts
<1>4. LegalExpr(e, i) <=> LegalPart(e, i) /\ \A k \in 1..n : LegalExpr(e.args[k], i)
  BY <1>3, LegalParts
<1>5. LegalPart(e, i) <=>
        IsFunction(m) /\ [k \in 1..n |-> StaticType(e.args[k], i)] = m.params
  BY LegalPartFacts
<1>6. /\ IsFunction(m) => StaticType(e, i) = m.type
      /\ ~ IsFunction(m) => StaticType(e, i) = "int"
  BY StaticFacts
<1>7. IsFunction(m) <=> ~ (s = 0 \/ storage[s].kind # "function")
  BY <1>2 DEF IsFunction
<1>8. ASSUME NEW k \in 1..n
      PROVE  /\ args[k].type = StaticType(e.args[k], i) /\ args[k].type \in Types
             /\ args[k].errors = {} <=> LegalExpr(e.args[k], i)
  BY DEF Judged
<1>9. "int" \in Types
  BY DEF Types
<1>10. CASE ~ IsFunction(m)
  <2>1. a.type = "int" /\ a.errors # {}
    BY <1>7, <1>10, CallResult
  <2> QED
    BY <1>4, <1>5, <1>6, <1>9, <1>10, <2>1 DEF Judged
<1>11. CASE IsFunction(m)
  <2>1. storage[s] = m /\ m.type \in Types /\ m.params \in Seq({"int", "array"})
    BY <1>2, <1>7, <1>11 DEF Sound, IsFunction
  <2>2. /\ a.type = m.type
        /\ a.errors = {} <=>
             /\ \A k \in 1..n : args[k].errors = {}
             /\ n = Len(m.params)
             /\ \A k \in 1..n : CheckArgument(m.params[k], args[k].type) = {}
    <3>1. a.type = storage[s].type /\ (a.errors = {} <=> Fitting(e, args, storage[s].params))
      BY <1>7, <1>11, CallResult
    <3> QED
      BY <2>1, <3>1 DEF Fitting
  <2>3. ASSUME n = Len(m.params), NEW k \in 1..n
        PROVE  CheckArgument(m.params[k], args[k].type) = {} <=> args[k].type = m.params[k]
    <3>1. m.params[k] \in {"int", "array"}
      BY <2>1, <2>3
    <3>2. args[k].type \in Types
      BY ONLY <1>8, k \in 1..n
    <3> QED
      BY <3>1, <3>2, CheckArgumentFacts
  <2>4. [k \in 1..n |-> StaticType(e.args[k], i)] = m.params <=>
          n = Len(m.params) /\ \A k \in 1..n : StaticType(e.args[k], i) = m.params[k]
    <3> DEFINE T(k) == StaticType(e.args[k], i)
    <3> HIDE DEF T
    <3>1. [k \in 1..n |-> T(k)] = m.params <=>
            n = Len(m.params) /\ \A k \in 1..n : T(k) = m.params[k]
      BY <1>3, <2>1, SameTypes
    <3> QED
      BY <3>1 DEF T
  <2>5. a.errors = {} <=> LegalExpr(e, i)
    <3>1. LegalExpr(e, i) <=>
            /\ \A k \in 1..n : args[k].errors = {}
            /\ n = Len(m.params)
            /\ \A k \in 1..n : args[k].type = m.params[k]
      BY ONLY <1>4, <1>5, <1>8, <1>11, <2>4
    <3>2. a.errors = {} <=>
            /\ \A k \in 1..n : args[k].errors = {}
            /\ n = Len(m.params)
            /\ \A k \in 1..n : args[k].type = m.params[k]
      BY <2>2, <2>3
    <3> QED
      BY <3>1, <3>2
  <2> QED
    BY <1>6, <1>11, <2>1, <2>2, <2>5 DEF Judged
<1> QED
  BY <1>10, <1>11


(* A variable is never void.                                               *)
LEMMA VarType ==
  ASSUME Inv, ~ finished, NEW e \in Expr, e.kind = "var"
  PROVE  StaticType(e, Here) \in {"int", "array"}
<1> PICK s : s = lookup(e.name)
  OBVIOUS
<1> PICK i : i = Here
  OBVIOUS
<1> PICK m : m = Meaning(e.name, i)
  OBVIOUS
<1>1. e.name \in Names
  BY VarNames
<1>2. /\ s = 0 <=> m = None
      /\ s # 0 => m = storage[s] /\ Sound(m)
  BY <1>1, FoundRight
<1>3. /\ e.index = None /\ IsVariable(m) => StaticType(e, i) = m.type
      /\ ~ (e.index = None /\ IsVariable(m)) => StaticType(e, i) = "int"
  BY StaticFacts
<1>4. IsVariable(m) => m.type \in {"int", "array"}
  BY <1>2 DEF IsVariable, Sound
<1> QED
  BY <1>3, <1>4

LEMMA AssignJudged ==
  ASSUME Inv, ~ finished, NEW e \in Expr, e.kind = "assign",
         NEW l, Judged(l, e.target), NEW r, Judged(r, e.value),
         NEW a, a = analyzeAssign(l, r)
  PROVE  Judged(a, e)
<1> PICK i : i = Here
  OBVIOUS
<1>1. Parts(e) = {e.target, e.value} /\ e.target \in Expr /\ e.target.kind = "var"
  BY PartsFacts DEF ExprShape
<1>2. LegalExpr(e, i) <=> LegalPart(e, i) /\ LegalExpr(e.target, i) /\ LegalExpr(e.value, i)
  BY <1>1, LegalParts
<1>3. LegalPart(e, i) <=> StaticType(e.target, i) = "int" /\ StaticType(e.value, i) = "int"
  BY LegalPartFacts DEF IsInt
<1>4. StaticType(e, i) = "int" /\ "int" \in Types
  BY StaticFacts DEF Types
<1>5. /\ l.type = StaticType(e.target, i) /\ r.type = StaticType(e.value, i) /\ r.type \in Types
      /\ l.errors = {} <=> LegalExpr(e.target, i)
      /\ r.errors = {} <=> LegalExpr(e.value, i)
  BY DEF Judged
<1>6. StaticType(e.target, i) \in {"int", "array"}
  BY <1>1, VarType
<1>7. requireInt(r.type) = {} <=> r.type = "int"
  BY <1>5, RequireIntFacts
<1>8. /\ a.type = "int"
      /\ a.errors = {} <=>
           l.errors = {} /\ r.errors = {} /\ requireInt(r.type) = {} /\ l.type # "array"
  BY AssignResult
<1> QED
  BY <1>2, <1>3, <1>4, <1>5, <1>6, <1>7, <1>8 DEF Judged

LEMMA BinaryJudged ==
  ASSUME NEW e \in Expr, e.kind = "binary",
         NEW l, Judged(l, e.lhs), NEW r, Judged(r, e.rhs),
         NEW a, a = analyzeBinary(e, l, r)
  PROVE  Judged(a, e)
<1> PICK i : i = Here
  OBVIOUS
<1>1. Parts(e) = {e.lhs, e.rhs}
  BY PartsFacts
<1>2. LegalExpr(e, i) <=> LegalPart(e, i) /\ LegalExpr(e.lhs, i) /\ LegalExpr(e.rhs, i)
  BY <1>1, LegalParts
<1>3. LegalPart(e, i) <=> StaticType(e.lhs, i) = "int" /\ StaticType(e.rhs, i) = "int"
  BY LegalPartFacts DEF IsInt
<1>4. StaticType(e, i) = "int" /\ "int" \in Types
  BY StaticFacts DEF Types
<1>5. /\ l.type = StaticType(e.lhs, i) /\ l.type \in Types
      /\ r.type = StaticType(e.rhs, i) /\ r.type \in Types
      /\ l.errors = {} <=> LegalExpr(e.lhs, i)
      /\ r.errors = {} <=> LegalExpr(e.rhs, i)
  BY DEF Judged
<1>6. /\ requireInt(l.type) = {} <=> l.type = "int"
      /\ requireInt(r.type) = {} <=> r.type = "int"
  BY <1>5, RequireIntFacts
<1>7. /\ a.type = "int"
      /\ a.errors = {} <=> /\ l.errors = {} /\ requireInt(l.type) = {}
                           /\ r.errors = {} /\ requireInt(r.type) = {}
  BY BinaryResult
<1> QED
  BY <1>2, <1>3, <1>4, <1>5, <1>6, <1>7 DEF Judged

LEMMA NumJudged ==
  ASSUME NEW e \in Expr, e.kind = "num"
  PROVE  Judged(Nothing, e)
<1>1. Parts(e) = {}
  BY DEF Parts
<1>2. LegalExpr(e, Here)
  BY <1>1, LegalParts, LegalPartFacts
<1>3. StaticType(e, Here) = "int" /\ "int" \in Types
  BY StaticFacts DEF Types
<1>4. Nothing.type = "int" /\ Nothing.errors = {}
  BY DEF Nothing, Result
<1> QED
  BY <1>2, <1>3, <1>4 DEF Judged

LEMMA BodyJudged ==
  ASSUME Inv, ~ finished, NEW f, NEW e \in Expr,
         \A p \in Parts(e) : f[p] \in Results /\ Judged(f[p], p)
  PROVE  Judged(Body(f, e), e)
<1>1. ExprShape(e)
  BY PartsFacts
<1>2. CASE e.kind = "num"
  <2>1. Body(f, e) = Nothing
    BY <1>2 DEF Body
  <2> QED
    BY <1>2, <2>1, NumJudged
<1>3. CASE e.kind = "var"
  <2> PICK r : r = IF e.index = None THEN Nothing ELSE f[e.index]
    OBVIOUS
  <2>1. Body(f, e) = analyzeVarExpr(e, r)
    BY <1>3 DEF Body
  <2>2. e.index # None => e.index \in Parts(e)
    BY <1>3, PartsFacts
  <2>3. r \in Results /\ (e.index # None => Judged(r, e.index))
    BY <2>2, NothingTyped
  <2> QED
    BY <1>3, <2>1, <2>3, VarJudged
<1>4. CASE e.kind = "call"
  <2> DEFINE args == [i \in 1..Len(e.args) |-> f[e.args[i]]]
  <2>1. Body(f, e) = analyzeCallExpr(e, args)
    BY <1>4 DEF Body
  <2>2. ASSUME NEW k \in 1..Len(e.args)
        PROVE  args[k] \in Results /\ Judged(args[k], e.args[k])
    <3>1. e.args[k] \in Parts(e)
      BY <1>4, PartsFacts
    <3> QED
      BY <3>1
  <2> HIDE DEF args
  <2> QED
    BY <1>4, <2>1, <2>2, CallJudged
<1>5. CASE e.kind = "assign"
  <2>1. Body(f, e) = analyzeAssign(f[e.target], f[e.value])
    BY <1>5 DEF Body
  <2>2. e.target \in Parts(e) /\ e.value \in Parts(e)
    BY <1>5, PartsFacts
  <2>3. Judged(f[e.target], e.target) /\ Judged(f[e.value], e.value)
    BY <2>2
  <2> QED
    BY <1>5, <2>1, <2>3, AssignJudged
<1>6. CASE e.kind = "binary"
  <2>1. Body(f, e) = analyzeBinary(e, f[e.lhs], f[e.rhs])
    BY <1>6 DEF Body
  <2>2. e.lhs \in Parts(e) /\ e.rhs \in Parts(e)
    BY <1>6, PartsFacts
  <2>3. Judged(f[e.lhs], e.lhs) /\ Judged(f[e.rhs], e.rhs)
    BY <2>2
  <2> QED
    BY <1>6, <2>1, <2>3, BinaryJudged
<1> QED
  BY <1>1, <1>2, <1>3, <1>4, <1>5, <1>6 DEF ExprShape

(* The analysis of an expression gives its type, and finds fault if and    *)
(* only if the rules of the language do.                                   *)
LEMMA ExprJudged ==
  ASSUME Inv, ~ finished
  PROVE  \A e \in Expr : Judged(analyzeExpr[e], e)
<1>1. PICK a : a = analyzeExpr
  OBVIOUS
<1>2. \A e \in Expr : a[e] = Body(a, e) /\ a[e] \in Results
  BY <1>1, AnalyzeExprFacts DEF Inv
<1> DEFINE R == {e \in Expr : Judged(a[e], e)}
<1>3. ASSUME NEW e \in Expr, \A d \in Expr : Height[d] < Height[e] => d \in R
      PROVE  e \in R
  <2>1. \A p \in Parts(e) : a[p] \in Results /\ Judged(a[p], p)
    BY <1>2, <1>3, PartsFacts
  <2>2. Judged(Body(a, e), e)
    BY <2>1, BodyJudged
  <2> QED
    BY <1>2, <2>2
<1>4. Height \in [Expr -> Nat]
  BY ProgramAssumption
<1>5. Expr \subseteq R
  <2> HIDE DEF R
  <2> QED
    BY <1>3, <1>4, TreeInduction
<1> QED
  BY <1>1, <1>5


-----------------------------------------------------------------------------
(* The warnings.                                                           *)

PastIn(e, i) == \E part \in PartsOf[e] : part.kind = "var" /\ Past(part, i)
Divides(e) ==
  /\ e.kind = "binary" /\ e.op = "div"
  /\ e.rhs.kind = "num" /\ e.rhs.value = 0
ZeroIn(e) == \E part \in PartsOf[e] : Divides(part)

(* What the rules say of an expression, and what of its root alone.        *)
Suspects(e, i) ==
  {w \in {"index past the end"} : PastIn(e, i)} \union {w \in {"division by zero"} : ZeroIn(e)}
Own(e, i) ==
  {w \in {"index past the end"} : e.kind = "var" /\ Past(e, i)}
    \union {w \in {"division by zero"} : Divides(e)}

LEMMA SuspectsParts ==
  ASSUME NEW e \in Expr, NEW i
  PROVE  Suspects(e, i) = Own(e, i) \union UNION {Suspects(p, i) : p \in Parts(e)}
<1>1. \A q : q \in PartsOf[e] <=> q = e \/ \E p \in Parts(e) : q \in PartsOf[p]
  BY PartsOfFacts
<1>2. PastIn(e, i) <=> (e.kind = "var" /\ Past(e, i)) \/ \E p \in Parts(e) : PastIn(p, i)
  BY <1>1 DEF PastIn
<1>3. ZeroIn(e) <=> Divides(e) \/ \E p \in Parts(e) : ZeroIn(p)
  BY <1>1 DEF ZeroIn
<1>4. \A q : \A w : w \in Suspects(q, i) <=>
        \/ w = "index past the end" /\ PastIn(q, i)
        \/ w = "division by zero" /\ ZeroIn(q)
  BY DEF Suspects
<1>5. \A w : w \in Own(e, i) <=>
        \/ w = "index past the end" /\ e.kind = "var" /\ Past(e, i)
        \/ w = "division by zero" /\ Divides(e)
  BY DEF Own
<1>6. ASSUME NEW w
      PROVE  w \in Suspects(e, i) <=> w \in Own(e, i) \/ \E p \in Parts(e) : w \in Suspects(p, i)
  BY <1>2, <1>3, <1>4, <1>5
<1> QED
  BY <1>6

LEMMA PastTheEndRight ==
  ASSUME NEW e, e.index # None, NEW i, NEW m, m = Meaning(e.name, i), Sound(m), m # None
  PROVE  (IF m.kind # "function" /\ m.type = "array" THEN PastTheEnd(m, e.index) ELSE {})
           = {w \in {"index past the end"} : Past(e, i)}
<1>1. Past(e, i) <=>
        /\ e.index.kind = "num"
        /\ m.kind = "variable" /\ m.type = "array" /\ m.size > 0 /\ e.index.value >= m.size
  BY DEF Past
<1>2. m.kind = "parameter" => ~ (m.size > 0)
  BY DEF Sound
<1>3. m.kind \in {"variable", "parameter", "function"}
  BY DEF Sound
<1> DEFINE far == m.size > 0 /\ e.index.kind = "num" /\ e.index.value >= m.size
<1>4. PastTheEnd(m, e.index) = IF far THEN {"index past the end"} ELSE {}
  BY DEF PastTheEnd
<1>5. Past(e, i) <=> m.kind # "function" /\ m.type = "array" /\ far
  <2>1. CASE m.kind = "parameter"
    BY <1>1, <1>2, <2>1
  <2>2. CASE m.kind # "parameter"
    BY <1>1, <1>3, <2>2
  <2> QED
    BY <2>1, <2>2
<1> HIDE DEF far
<1> QED
  BY <1>4, <1>5

Warned(r, e) == r.warnings = Suspects(e, Here)

LEMMA VarWarned ==
  ASSUME Inv, ~ finished, NEW e \in Expr, e.kind = "var", NEW r,
         r.warnings = UNION {Suspects(p, Here) : p \in Parts(e)},
         NEW a, a = analyzeVarExpr(e, r)
  PROVE  Warned(a, e)
<1> PICK s : s = lookup(e.name)
  OBVIOUS
<1> PICK i : i = Here
  OBVIOUS
<1> PICK m : m = Meaning(e.name, i)
  OBVIOUS
<1>1. e.name \in Names
  BY VarNames
<1>2. /\ s = 0 <=> m = None
      /\ s # 0 => m = storage[s] /\ Sound(m)
  BY <1>1, FoundRight
<1>3. Suspects(e, i) = {w \in {"index past the end"} : Past(e, i)} \union r.warnings
  <2>1. ~ Divides(e)
    BY DEF Divides
  <2>2. Suspects(e, i) = Own(e, i) \union r.warnings
    BY SuspectsParts
  <2> QED
    BY <2>1, <2>2 DEF Own
<1>4. CASE s = 0 \/ storage[s].kind = "function"
  <2>1. a.warnings = r.warnings
    BY <1>4, VarResult
  <2>2. ~ Past(e, i)
    BY <1>2, <1>4 DEF Past
  <2> QED
    BY <1>3, <2>1, <2>2 DEF Warned
<1>5. CASE ~ (s = 0 \/ storage[s].kind = "function") /\ e.index = None
  <2>1. a.warnings = {}
    BY <1>5, VarResult
  <2>2. ~ Past(e, i)
    BY <1>5 DEF Past
  <2>3. Parts(e) = {}
    BY <1>5, PartsFacts
  <2>4. r.warnings = {}
    BY <2>3
  <2> QED
    BY <1>3, <2>1, <2>2, <2>4 DEF Warned
<1>6. CASE ~ (s = 0 \/ storage[s].kind = "function") /\ e.index # None
  <2>1. a.warnings = r.warnings
          \union (IF storage[s].type = "array" THEN PastTheEnd(storage[s], e.index) ELSE {})
    BY <1>6, VarResult
  <2>2. storage[s] = m /\ m # None /\ Sound(m) /\ m.kind # "function"
    BY <1>2, <1>6
  <2>3. (IF m.kind # "function" /\ m.type = "array" THEN PastTheEnd(m, e.index) ELSE {})
           = {w \in {"index past the end"} : Past(e, i)}
    <3>1. e.index # None /\ m = Meaning(e.name, i)
      BY <1>6
    <3> QED
      BY ONLY <2>2, <3>1, PastTheEndRight
  <2> QED
    BY <1>3, <2>1, <2>2, <2>3 DEF Warned
<1> QED
  BY <1>4, <1>5, <1>6

LEMMA BodyWarned ==
  ASSUME Inv, ~ finished, NEW f, NEW e \in Expr, \A p \in Parts(e) : Warned(f[p], p)
  PROVE  Warned(Body(f, e), e)
<1> PICK i : i = Here
  OBVIOUS
<1> DEFINE Below == UNION {Suspects(p, i) : p \in Parts(e)}
<1>1. ExprShape(e)
  BY PartsFacts
<1>2. Suspects(e, i) = Own(e, i) \union Below
  BY SuspectsParts
<1>3. \A p \in Parts(e) : f[p].warnings = Suspects(p, i)
  BY DEF Warned
<1>4. e.kind \notin {"var", "binary"} => Own(e, i) = {}
  BY DEF Own, Divides
<1>5. Nothing.warnings = {}
  BY DEF Nothing, Result
<1>6. CASE e.kind = "num"
  <2>1. Body(f, e) = Nothing /\ Parts(e) = {}
    BY <1>6 DEF Body, Parts
  <2>2. Below = {}
    BY <2>1
  <2> QED
    BY <1>2, <1>4, <1>5, <1>6, <2>1, <2>2 DEF Warned
<1>7. CASE e.kind = "var"
  <2> PICK r : r = IF e.index = None THEN Nothing ELSE f[e.index]
    OBVIOUS
  <2>1. Body(f, e) = analyzeVarExpr(e, r)
    BY <1>7 DEF Body
  <2>2. Parts(e) = {e.index} \ {None}
    BY <1>7, PartsFacts
  <2>3. r.warnings = Below
    <3>1. CASE e.index = None
      BY <1>5, <2>2, <3>1
    <3>2. CASE e.index # None
      BY <1>3, <2>2, <3>2
    <3> QED
      BY <3>1, <3>2
  <2> QED
    BY <1>7, <2>1, <2>3, VarWarned
<1>8. CASE e.kind = "call"
  <2> DEFINE args == [k \in 1..Len(e.args) |-> f[e.args[k]]]
  <2>1. Body(f, e) = analyzeCallExpr(e, args)
    BY <1>8 DEF Body
  <2>2. Body(f, e).warnings = UNION {args[k].warnings : k \in 1..Len(e.args)}
    <3> HIDE DEF args
    <3> QED
      BY <2>1, CallResult
  <2>3. Parts(e) = {e.args[k] : k \in 1..Len(e.args)}
    BY <1>8, PartsFacts
  <2>4. \A k \in 1..Len(e.args) : args[k].warnings = Suspects(e.args[k], i)
    BY <1>3, <2>3
  <2> HIDE DEF args
  <2>5. Body(f, e).warnings = Below
    BY <2>2, <2>3, <2>4
  <2> QED
    BY <1>2, <1>4, <1>8, <2>5 DEF Warned
<1>9. CASE e.kind = "assign"
  <2>1. Body(f, e) = analyzeAssign(f[e.target], f[e.value])
    BY <1>9 DEF Body
  <2>2. Parts(e) = {e.target, e.value}
    BY <1>9, PartsFacts
  <2>3. Body(f, e).warnings = f[e.target].warnings \union f[e.value].warnings
    BY <2>1, AssignResult
  <2>4. Body(f, e).warnings = Below
    BY <1>3, <2>2, <2>3
  <2> QED
    BY <1>2, <1>4, <1>9, <2>4 DEF Warned
<1>10. CASE e.kind = "binary"
  <2>1. Body(f, e) = analyzeBinary(e, f[e.lhs], f[e.rhs])
    BY <1>10 DEF Body
  <2>2. Parts(e) = {e.lhs, e.rhs}
    BY <1>10, PartsFacts
  <2>3. Body(f, e).warnings = f[e.lhs].warnings \union f[e.rhs].warnings \union DivisionByZero(e)
    BY <2>1, BinaryResult
  <2>4. DivisionByZero(e) = Own(e, i)
    BY <1>10 DEF DivisionByZero, Own, Divides
  <2>5. f[e.lhs].warnings \union f[e.rhs].warnings = Below
    BY <1>3, <2>2
  <2> HIDE DEF Below
  <2> QED
    BY <1>2, <2>3, <2>4, <2>5 DEF Warned
<1> QED
  BY <1>1, <1>6, <1>7, <1>8, <1>9, <1>10 DEF ExprShape

(* The analysis of an expression warns of what the rules say.              *)
LEMMA ExprWarned ==
  ASSUME Inv, ~ finished
  PROVE  \A e \in Expr : Warned(analyzeExpr[e], e)
<1>1. PICK a : a = analyzeExpr
  OBVIOUS
<1>2. \A e \in Expr : a[e] = Body(a, e)
  BY <1>1, AnalyzeExprFacts DEF Inv
<1> DEFINE R == {e \in Expr : Warned(a[e], e)}
<1>3. ASSUME NEW e \in Expr, \A d \in Expr : Height[d] < Height[e] => d \in R
      PROVE  e \in R
  <2>1. \A p \in Parts(e) : Warned(a[p], p)
    BY <1>3, PartsFacts
  <2>2. Warned(Body(a, e), e)
    BY <2>1, BodyWarned
  <2> QED
    BY <1>2, <2>2
<1>4. Height \in [Expr -> Nat]
  BY ProgramAssumption
<1>5. Expr \subseteq R
  <2> HIDE DEF R
  <2> QED
    BY <1>3, <1>4, TreeInduction
<1> QED
  BY <1>1, <1>5


-----------------------------------------------------------------------------
(* The rules, as the text grows: what they say of a place stays said.      *)

LEMMA RulesKept ==
  ASSUME NEW i, \A name : Meaning(name, i)' = Meaning(name, i)
  PROVE  /\ \A e : StaticType(e, i)' = StaticType(e, i)
         /\ \A e : LegalExpr(e, i)' <=> LegalExpr(e, i)
         /\ \A e : Suspects(e, i)' = Suspects(e, i)
<1>1. PartsOf' = PartsOf
  BY DEF PartsOf
<1>2. \A e : StaticType(e, i)' = StaticType(e, i)
  BY DEF StaticType, IsVariable, IsFunction
<1>3. \A e : LegalPart(e, i)' <=> LegalPart(e, i)
  BY <1>2 DEF LegalPart, IsVariable, IsFunction, IsInt
<1>4. \A e : LegalExpr(e, i)' <=> LegalExpr(e, i)
  BY <1>1, <1>3 DEF LegalExpr
<1>5. \A e : Past(e, i)' <=> Past(e, i)
  BY DEF Past
<1>6. \A e : Suspects(e, i)' = Suspects(e, i)
  BY <1>1, <1>5 DEF Suspects, PastIn, ZeroIn, Divides
<1> QED
  BY <1>2, <1>4, <1>6

LEMMA RulesSame ==
  ASSUME TextOK, NEW p, Grows(p), NEW i \in 1..(Len(program) + 1)
  PROVE  /\ \A e : StaticType(e, i)' = StaticType(e, i)
         /\ \A e : LegalExpr(e, i)' <=> LegalExpr(e, i)
         /\ \A e : Suspects(e, i)' = Suspects(e, i)
<1>1. \A name : Meaning(name, i)' = Meaning(name, i)
  BY MeaningSame
<1> QED
  BY <1>1, RulesKept

(* Function j is the last begun before i.                                  *)
Begun(i, j) ==
  /\ j \in 1..i /\ program[j].kind = "function"
  /\ \A k \in j + 1..i : program[k].kind # "function"

LEMMA AroundRight ==
  ASSUME NEW i \in Nat, NEW j, Begun(i, j)
  PROVE  Around(i) = program[j].of
<1> DEFINE P(m) == program[m].kind = "function" /\ \A k \in m + 1..i : program[k].kind # "function"
<1>1. Around(i) = program[CHOOSE m \in 1..i : P(m)].of
  BY DEF Around
<1>2. j \in 1..i /\ P(j)
  BY DEF Begun
<1>3. ASSUME NEW m \in 1..i, P(m)
      PROVE  m = j
  <2>1. m \in j + 1..i \/ j \in m + 1..i \/ m = j
    BY <1>2
  <2> QED
    BY <1>2, <1>3, <2>1
<1> HIDE DEF P
<1>4. (CHOOSE m \in 1..i : P(m)) = j
  BY <1>2, <1>3
<1> QED
  BY <1>1, <1>4

LEMMA BegunSame ==
  ASSUME TextOK, NEW p, Grows(p), NEW n, n = Len(program), NEW i \in 1..n, NEW j, Begun(i, j)
  PROVE  Begun(i, j)'
<1>1. n \in Nat /\ \A k \in 1..n : program'[k] = program[k]
  BY GrowsFacts
<1>2. j \in 1..i /\ \A k \in j + 1..i : k \in 1..n
  BY <1>1 DEF Begun
<1>3. j \in 1..n
  BY <1>1, <1>2
<1> QED
  BY <1>1, <1>2, <1>3 DEF Begun

LEMMA BegunGrows ==
  ASSUME TextOK, NEW p, Grows(p), NEW n, n = Len(program)
  PROVE  /\ p.kind = "function" => Begun(n + 1, n + 1)'
         /\ p.kind # "function" => \A j : Begun(n, j) => Begun(n + 1, j)'
<1>1. n \in Nat /\ (\A k \in 1..n : program'[k] = program[k]) /\ program'[n + 1] = p
  BY GrowsFacts
<1>2. ASSUME p.kind = "function"
      PROVE  Begun(n + 1, n + 1)'
  <2>1. n + 1 \in 1..(n + 1) /\ ~ \E k : k \in n + 1 + 1..n + 1
    BY <1>1
  <2> QED
    BY <1>1, <1>2, <2>1 DEF Begun
<1>3. ASSUME p.kind # "function", NEW j, Begun(n, j)
      PROVE  Begun(n + 1, j)'
  <2>1. j \in 1..n /\ program[j].kind = "function" /\ \A k \in j + 1..n : program[k].kind # "function"
    BY <1>3 DEF Begun
  <2>2. \A k \in j + 1..n + 1 : k = n + 1 \/ (k \in 1..n /\ k \in j + 1..n)
    BY <1>1, <2>1
  <2>3. j \in 1..(n + 1)
    BY <1>1, <2>1
  <2>4. \A k \in j + 1..n + 1 : program'[k].kind # "function"
    BY <1>1, <1>3, <2>1, <2>2
  <2> QED
    BY <1>1, <2>1, <2>3, <2>4 DEF Begun
<1> QED
  BY <1>2, <1>3

(* What the rules say of a piece.                                          *)
LEMMA LegalFacts ==
  ASSUME NEW i, NEW p, p = program[i]
  PROVE  /\ p.kind \in {"global", "parameter", "local"} =>
              (Legal(i) <=> p.of.type # "void" /\ ~ Redeclares(i))
         /\ p.kind = "function" => (Legal(i) <=> ~ Redeclares(i))
         /\ p.kind \in {"block", "close"} => Legal(i)
         /\ p.kind = "exprstmt" => (Legal(i) <=> LegalExpr(p.of, i))
         /\ p.kind = "condition" =>
              (Legal(i) <=> LegalExpr(p.of, i) /\ StaticType(p.of, i) = "int")
         /\ p.kind = "return" /\ p.of = None => (Legal(i) <=> Around(i).type = "void")
         /\ p.kind = "return" /\ p.of # None =>
              (Legal(i) <=> /\ Around(i).type = "int" /\ LegalExpr(p.of, i)
                            /\ StaticType(p.of, i) = "int")
  BY DEF Legal, IsInt

LEMMA SuspiciousFacts ==
  ASSUME NEW i, NEW p, p = program[i]
  PROVE  /\ p.kind \in {"global", "local"} =>
              Suspicious(i) = SizeWarning(p.of)
         /\ p.kind \in {"exprstmt", "condition", "return"} /\ p.of # None =>
              Suspicious(i) = Suspects(p.of, i)
         /\ p.kind \in {"parameter", "function", "block", "close"} => Suspicious(i) = {}
         /\ p.kind = "return" /\ p.of = None => Suspicious(i) = {}
<1>1. CASE p.kind \in {"global", "local"}
  BY <1>1 DEF Suspicious, SizeWarning
<1>2. CASE p.kind \in {"exprstmt", "condition", "return"} /\ p.of # None
  BY <1>2 DEF Suspicious, Suspects, PastIn, ZeroIn, Divides
<1>3. CASE p.kind \in {"parameter", "function", "block", "close"} \/ (p.kind = "return" /\ p.of = None)
  BY <1>3 DEF Suspicious
<1> QED
  BY <1>1, <1>2, <1>3


(* The same of a new piece.                                                *)
LEMMA LegalNext ==
  ASSUME NEW i, NEW p, p = program'[i]
  PROVE  /\ p.kind \in {"global", "parameter", "local"} =>
              (Legal(i)' <=> p.of.type # "void" /\ ~ Redeclares(i)')
         /\ p.kind = "function" => (Legal(i)' <=> ~ Redeclares(i)')
         /\ p.kind \in {"block", "close"} => Legal(i)'
         /\ p.kind = "exprstmt" => (Legal(i)' <=> LegalExpr(p.of, i)')
         /\ p.kind = "condition" =>
              (Legal(i)' <=> LegalExpr(p.of, i)' /\ StaticType(p.of, i)' = "int")
         /\ p.kind = "return" /\ p.of = None => (Legal(i)' <=> Around(i)'.type = "void")
         /\ p.kind = "return" /\ p.of # None =>
              (Legal(i)' <=> /\ Around(i)'.type = "int" /\ LegalExpr(p.of, i)'
                             /\ StaticType(p.of, i)' = "int")
  BY DEF Legal, IsInt

LEMMA SuspiciousNext ==
  ASSUME NEW i, NEW p, p = program'[i]
  PROVE  /\ p.kind \in {"global", "local"} =>
              Suspicious(i)' = SizeWarning(p.of)
         /\ p.kind \in {"exprstmt", "condition", "return"} /\ p.of # None =>
              Suspicious(i)' = Suspects(p.of, i)'
         /\ p.kind \in {"parameter", "function", "block", "close"} => Suspicious(i)' = {}
         /\ p.kind = "return" /\ p.of = None => Suspicious(i)' = {}
<1>1. CASE p.kind \in {"global", "local"}
  BY <1>1 DEF Suspicious, SizeWarning
<1>2. CASE p.kind \in {"exprstmt", "condition", "return"} /\ p.of # None
  BY <1>2 DEF Suspicious, Suspects, PastIn, ZeroIn, Divides
<1>3. CASE p.kind \in {"parameter", "function", "block", "close"} \/ (p.kind = "return" /\ p.of = None)
  BY <1>3 DEF Suspicious
<1> QED
  BY <1>1, <1>2, <1>3

AroundOK == \A i \in Nat : \A j : Begun(i, j) => Around(i) = program[j].of

LEMMA AroundFacts == AroundOK
  BY AroundRight DEF AroundOK

LEMMA LegalSame ==
  ASSUME TextOK, NEW p, Grows(p), NEW n, n = Len(program), NEW i \in 1..n,
         program[i].kind = "return" => \E j : Begun(i, j)
  PROVE  /\ Legal(i)' <=> Legal(i)
         /\ Suspicious(i)' = Suspicious(i)
<1> PICK q : q = program[i]
  OBVIOUS
<1>1. n \in Nat /\ program'[i] = q /\ (\A k \in 1..n : program'[k] = program[k]) /\ i \in Nat
  BY GrowsFacts
<1>2. Redeclares(i)' <=> Redeclares(i)
  BY RedeclaresGrows
<1>3. /\ StaticType(q.of, i)' = StaticType(q.of, i)
      /\ LegalExpr(q.of, i)' <=> LegalExpr(q.of, i)
      /\ Suspects(q.of, i)' = Suspects(q.of, i)
  <2>1. i \in 1..(Len(program) + 1)
    BY <1>1
  <2> QED
    BY <2>1, RulesSame
<1>4. q.kind = "return" => Around(i)' = Around(i)
  <2> SUFFICES ASSUME q.kind = "return"
               PROVE  Around(i)' = Around(i)
    OBVIOUS
  <2>1. PICK j : Begun(i, j)
    OBVIOUS
  <2>2. Begun(i, j)'
    BY <2>1, BegunSame
  <2>3. AroundOK'
    BY AroundFacts, PTL
  <2>4. Around(i) = program[j].of /\ Around(i)' = program'[j].of
    BY <1>1, <2>1, <2>2, <2>3, AroundFacts DEF AroundOK
  <2>5. j \in 1..n
    BY <1>1, <2>1 DEF Begun
  <2> QED
    BY <1>1, <2>4, <2>5
<1>5. \/ q.kind \in {"global", "parameter", "local"} \/ q.kind = "function"
      \/ q.kind \in {"block", "close"} \/ q.kind \in {"exprstmt", "condition"}
      \/ q.kind = "return"
  <2>1. q \in Text
    BY DEF TextOK
  <2> QED
    BY <2>1 DEF Text, Kinds
<1>6. q.kind \in {"exprstmt", "condition"} => q.of # None
  <2>1. q \in Text
    BY DEF TextOK
  <2> QED
    BY <2>1, ProgramAssumption DEF Text
<1>7. Legal(i)' <=> Legal(i)
  <2>1. CASE q.kind \in {"global", "parameter", "local"}
    BY <1>1, <1>2, <2>1, LegalFacts, LegalNext
  <2>2. CASE q.kind = "function"
    BY <1>1, <1>2, <2>2, LegalFacts, LegalNext
  <2>3. CASE q.kind \in {"block", "close"}
    BY <1>1, <2>3, LegalFacts, LegalNext
  <2>4. CASE q.kind \in {"exprstmt", "condition"}
    BY <1>1, <1>3, <2>4, LegalFacts, LegalNext
  <2>5. CASE q.kind = "return"
    BY <1>1, <1>3, <1>4, <2>5, LegalFacts, LegalNext
  <2> QED
    BY <1>5, <2>1, <2>2, <2>3, <2>4, <2>5
<1>8. Suspicious(i)' = Suspicious(i)
  <2>1. CASE q.kind \in {"global", "local"}
    BY <1>1, <2>1, SuspiciousFacts, SuspiciousNext
  <2>2. CASE q.kind \in {"parameter", "function", "block", "close"}
    BY <1>1, <2>2, SuspiciousFacts, SuspiciousNext
  <2>3. CASE q.kind \in {"exprstmt", "condition", "return"} /\ q.of # None
    BY <1>1, <1>3, <2>3, SuspiciousFacts, SuspiciousNext
  <2>4. CASE q.kind = "return" /\ q.of = None
    BY <1>1, <2>4, SuspiciousFacts, SuspiciousNext
  <2> QED
    BY <1>5, <1>6, <2>1, <2>2, <2>3, <2>4
<1> QED
  BY <1>7, <1>8

-----------------------------------------------------------------------------
(* The invariant: what is reported is about the places seen, and the       *)
(* analyzer knows the function it is in.                                   *)

Judging ==
  /\ ErrorsExact /\ WarningsExact
  /\ \A e \in errors : e.at \in Nat /\ (~finished => e.at < Here)
  /\ \A w \in warnings : w.at \in Nat /\ w.at < Here
  /\ \A i \in 1..Len(program) : program[i].kind = "return" => \E j : Begun(i, j)
  /\ ~finished /\ Len(scopes) > 1 =>
       \E j : Begun(Len(program), j) /\ currentFunction = program[j].of

LEMMA AtFacts ==
  ASSUME NEW found, NEW n, n = Here
  PROVE  /\ \A x \in At(found) : x.at = n /\ x.what \in found
         /\ \A w \in found : \E x \in At(found) : x.at = n /\ x.what = w
<1>1. \A x \in At(found) : x.at = n /\ x.what \in found
  BY DEF At
<1>2. ASSUME NEW w \in found
      PROVE  \E x \in At(found) : x.at = n /\ x.what = w
  <2>1. PICK x : x = [at |-> n, what |-> w]
    OBVIOUS
  <2>2. x \in At(found)
    BY <2>1 DEF At
  <2> QED
    BY <2>1, <2>2
<1> QED
  BY <1>1, <1>2


(* A step of the walk that finds fault, and warns, as the rules do.        *)
LEMMA JudgedStep ==
  ASSUME TextOK, ~ finished, ~ finished', Judging, NEW p, Grows(p), NEW n, n = Len(program),
         NEW found, errors' = errors \union At(found), found = {} <=> Legal(n + 1)',
         NEW warned, warnings' = warnings \union At(warned), warned = Suspicious(n + 1)',
         p.kind = "return" => \E j : Begun(n + 1, j)',
         Len(scopes') > 1 => \E j : Begun(n + 1, j)' /\ currentFunction' = program'[j].of
  PROVE  Judging'
<1>1. /\ n \in Nat /\ Len(program') = n + 1 /\ program'[n + 1] = p
      /\ \A i \in 1..n : program'[i] = program[i]
  BY GrowsFacts
<1>2. Here = n + 1 /\ Here' = n + 2
  BY <1>1 DEF Here
<1>3. /\ \A e \in errors : e.at \in Nat /\ e.at < n + 1
      /\ \A w \in warnings : w.at \in Nat /\ w.at < n + 1
  BY <1>2 DEF Judging
<1>4. /\ \A x \in At(found) : x.at = n + 1 /\ x.what \in found
      /\ \A w \in found : \E x \in At(found) : x.at = n + 1 /\ x.what = w
      /\ \A x \in At(warned) : x.at = n + 1 /\ x.what \in warned
      /\ \A w \in warned : \E x \in At(warned) : x.at = n + 1 /\ x.what = w
  BY <1>2, AtFacts
<1>5. \A i \in 1..(n + 1) : i = n + 1 \/ (i \in 1..n /\ i < n + 1)
  BY <1>1
<1>6. ASSUME NEW i \in 1..n
      PROVE  /\ Legal(i)' <=> Legal(i)
             /\ Suspicious(i)' = Suspicious(i)
  <2>1. program[i].kind = "return" => \E j : Begun(i, j)
    BY DEF Judging
  <2> QED
    BY <2>1, LegalSame
<1>7. ASSUME NEW i \in 1..(n + 1)
      PROVE  (\E e \in errors' : e.at = i) <=> ~ Legal(i)'
  <2>1. CASE i = n + 1
    <3>1. (\E e \in errors' : e.at = i) <=> found # {}
      BY <1>3, <1>4, <2>1
    <3> QED
      BY <2>1, <3>1
  <2>2. CASE i \in 1..n
    <3>1. (\E e \in errors' : e.at = i) <=> \E e \in errors : e.at = i
      BY <1>4, <1>5, <2>2
    <3>2. (\E e \in errors : e.at = i) <=> ~ Legal(i)
      BY <2>2 DEF Judging, ErrorsExact
    <3> QED
      BY <1>6, <2>2, <3>1, <3>2
  <2> QED
    BY <1>5, <2>1, <2>2
<1>8. ErrorsExact'
  BY <1>1, <1>7 DEF ErrorsExact
<1>9. ASSUME NEW i \in 1..(n + 1)
      PROVE  {w.what : w \in {v \in warnings' : v.at = i}} = Suspicious(i)'
  <2>1. CASE i = n + 1
    <3>1. {v \in warnings' : v.at = i} = At(warned)
      BY <1>3, <1>4, <2>1
    <3>2. {w.what : w \in At(warned)} = warned
      BY <1>4
    <3> QED
      BY <2>1, <3>1, <3>2
  <2>2. CASE i \in 1..n
    <3>1. {v \in warnings' : v.at = i} = {v \in warnings : v.at = i}
      BY <1>4, <1>5, <2>2
    <3>2. {w.what : w \in {v \in warnings : v.at = i}} = Suspicious(i)
      BY <2>2 DEF Judging, WarningsExact
    <3> QED
      BY <1>6, <2>2, <3>1, <3>2
  <2> QED
    BY <1>5, <2>1, <2>2
<1>10. WarningsExact'
  BY <1>1, <1>9 DEF WarningsExact
<1>11. /\ \A e \in errors' : e.at \in Nat /\ e.at < Here'
       /\ \A w \in warnings' : w.at \in Nat /\ w.at < Here'
  <2>1. \A x : x \in Nat /\ x < n + 1 => x < n + 2
    BY <1>1
  <2>2. n + 1 \in Nat /\ n + 1 < n + 2
    BY <1>1
  <2> QED
    BY <1>2, <1>3, <1>4, <2>1, <2>2
<1>12. ASSUME NEW i \in 1..(n + 1), program'[i].kind = "return"
       PROVE  \E j : Begun(i, j)'
  <2>1. CASE i = n + 1
    BY <1>1, <1>12, <2>1
  <2>2. CASE i \in 1..n
    <3>1. program[i].kind = "return"
      BY <1>1, <1>12, <2>2
    <3>2. PICK j : Begun(i, j)
      BY <2>2, <3>1 DEF Judging
    <3> QED
      BY <2>2, <3>2, BegunSame
  <2> QED
    BY <1>5, <2>1, <2>2
<1>13. Len(scopes') > 1 => \E j : Begun(Len(program), j)' /\ currentFunction' = program'[j].of
  BY <1>1 DEF Begun
<1> QED
  BY <1>1, <1>8, <1>10, <1>11, <1>12, <1>13 DEF Judging


LEMMA InsideStays ==
  ASSUME TextOK, ~ finished, Judging, Len(scopes) > 1, NEW p, Grows(p), p.kind # "function",
         NEW n, n = Len(program), NEW h, h = currentFunction
  PROVE  /\ \E j : Begun(n + 1, j)' /\ h = program'[j].of
         /\ Around(n + 1)' = h /\ h.type \in {"int", "void"}
<1>1. PICK j : Begun(n, j) /\ h = program[j].of
  BY DEF Judging
<1>2. n \in Nat /\ \A i \in 1..n : program'[i] = program[i]
  BY GrowsFacts
<1>3. j \in 1..n /\ program[j].kind = "function"
  BY <1>1 DEF Begun
<1>4. Begun(n + 1, j)' /\ h = program'[j].of
  BY <1>1, <1>2, <1>3, BegunGrows
<1>5. Around(n + 1)' = h
  <2>1. AroundOK'
    BY AroundFacts, PTL
  <2> QED
    BY <1>2, <1>4, <2>1 DEF AroundOK
<1>6. h.type \in {"int", "void"}
  <2>1. program[j] \in Text
    BY <1>3 DEF TextOK
  <2>2. h \in Header
    BY <1>1, <1>3, <2>1 DEF Text
  <2> QED
    BY <2>2, ProgramAssumption
<1> QED
  BY <1>4, <1>5, <1>6

LEMMA DiagnoseFacts ==
  ASSUME NEW symbol
  PROVE  declareOrDiagnose(symbol) = {} <=> Existing(symbol.name) = 0
  BY DEF declareOrDiagnose

LEMMA DeclarationLegal ==
  ASSUME Inv, ~ finished, NEW p, Grows(p), p.kind \in Declaring, NEW n, n = Len(program),
         NEW symbol, symbol = SymbolFor(p)
  PROVE  declareOrDiagnose(symbol) = {} <=> ~ Redeclares(n + 1)'
<1>1. symbol.name = p.of.name
  BY SymbolTyped DEF Grows
<1>2. Existing(p.of.name) # 0 <=> Redeclares(n + 1)'
  BY ExistingRight
<1> QED
  BY <1>1, <1>2, DiagnoseFacts

(* The declaration of a variable or a parameter.                           *)
LEMMA NameJudged ==
  ASSUME Inv, ~ finished, ~ finished', Judging,
         NEW p, Grows(p), p.kind \in {"global", "parameter", "local"},
         NEW symbol, symbol = SymbolFor(p), scopes' = declare(symbol),
         NEW found, found = VoidError(p.of.type) \union declareOrDiagnose(symbol),
         errors' = errors \union At(found),
         NEW warned, warnings' = warnings \union At(warned),
         warned = IF p.kind = "parameter" THEN {} ELSE SizeWarning(p.of),
         currentFunction' = currentFunction
  PROVE  Judging'
<1> PICK n : n = Len(program)
  OBVIOUS
<1>1. TextOK /\ p.kind \in Declaring
  BY DEF Inv, Typed, Declaring
<1>2. program'[n + 1] = p
  BY <1>1, GrowsFacts
<1>3. declareOrDiagnose(symbol) = {} <=> ~ Redeclares(n + 1)'
  BY <1>1, DeclarationLegal
<1>4. Legal(n + 1)' <=> p.of.type # "void" /\ ~ Redeclares(n + 1)'
  BY <1>2, LegalNext
<1>5. found = {} <=> Legal(n + 1)'
  BY <1>3, <1>4 DEF VoidError
<1>6. warned = Suspicious(n + 1)'
  <2>1. CASE p.kind = "parameter"
    <3>1. Suspicious(n + 1)' = {}
      BY <1>2, <2>1, SuspiciousNext
    <3> QED
      BY <2>1, <3>1
  <2>2. CASE p.kind \in {"global", "local"}
    <3>1. Suspicious(n + 1)' = SizeWarning(p.of)
      BY <1>2, <2>2, SuspiciousNext
    <3>2. warned = SizeWarning(p.of)
      BY <2>2
    <3> QED
      BY <3>1, <3>2
  <2> QED
    BY <2>1, <2>2
<1>7. Len(scopes') = Len(scopes)
  BY <1>1, DeclareTyped
<1>8. Len(scopes') > 1 => \E j : Begun(n + 1, j)' /\ currentFunction' = program'[j].of
  BY <1>1, <1>7, InsideStays
<1> QED
  BY <1>1, <1>5, <1>6, <1>8, JudgedStep

LEMMA VariableJudged ==
  ASSUME Inv, Judging, NEW kind \in {"global", "local"}, NEW v \in Variable, ~ finished,
         analyzeVarDecl(kind, v)
  PROVE  Judging'
<1> PICK p : p = Piece(kind, v)
  OBVIOUS
<1> PICK symbol : symbol = VariableSymbol(v)
  OBVIOUS
<1> PICK found : found = VoidError(v.type) \union declareOrDiagnose(symbol)
  OBVIOUS
<1> PICK warned : warned = SizeWarning(v)
  OBVIOUS
<1>1. p \in Text /\ p.kind = kind /\ p.of = v /\ symbol = SymbolFor(p)
  BY DEF Piece, Text, Kinds, SymbolFor
<1>2. /\ scopes' = declare(symbol) /\ program' = Append(program, p)
      /\ errors' = errors \union At(found) /\ warnings' = warnings \union At(warned)
      /\ currentFunction' = currentFunction /\ finished' = finished
  BY DEF analyzeVarDecl, Visit
<1>3. Grows(p)
  BY <1>1, <1>2 DEF Grows
<1> QED
  BY <1>1, <1>2, <1>3, NameJudged

LEMMA ParameterJudged ==
  ASSUME Inv, Judging, ~ finished, analyzeParam
  PROVE  Judging'
<1> PICK of : of = Head(parameters)
  OBVIOUS
<1> PICK p : p = Piece("parameter", of)
  OBVIOUS
<1> PICK symbol : symbol = ParameterSymbol(of)
  OBVIOUS
<1> PICK found : found = VoidError(of.type) \union declareOrDiagnose(symbol)
  OBVIOUS
<1> PICK warned : warned = {}
  OBVIOUS
<1>1. parameters \in Seq(Parameter) /\ parameters # <<>>
  BY DEF Inv, Typed, analyzeParam
<1>2. of \in Parameter
  BY <1>1
<1>3. p \in Text /\ p.kind = "parameter" /\ p.of = of /\ symbol = SymbolFor(p)
  BY <1>2 DEF Piece, Text, Kinds, SymbolFor
<1>4. /\ scopes' = declare(symbol) /\ program' = Append(program, p)
      /\ errors' = errors \union At(found) /\ warnings' = warnings \union At(warned)
      /\ currentFunction' = currentFunction /\ finished' = finished
  BY DEF analyzeParam, Visit
<1>5. Grows(p)
  BY <1>3, <1>4 DEF Grows
<1> QED
  BY <1>3, <1>4, <1>5, NameJudged

LEMMA FunctionJudged ==
  ASSUME Inv, Judging, OpenFunction
  PROVE  Judging'
<1>1. Len(scopes) = 1 /\ ~ finished
  BY DEF OpenFunction, AtTopLevel
<1> PICK h \in Header :
      LET symbol == FunctionSymbol(h)
      IN /\ Visit(Piece("function", h), DeclaredAs(symbol), declareOrDiagnose(symbol), {})
         /\ currentFunction' = h
  BY DEF OpenFunction
<1> PICK p : p = Piece("function", h)
  OBVIOUS
<1> PICK symbol : symbol = FunctionSymbol(h)
  OBVIOUS
<1> PICK n : n = Len(program)
  OBVIOUS
<1> PICK found : found = declareOrDiagnose(symbol)
  OBVIOUS
<1> PICK warned : warned = {}
  OBVIOUS
<1>2. p \in Text /\ p.kind = "function" /\ p.of = h /\ symbol = SymbolFor(p)
  BY DEF Piece, Text, Kinds, SymbolFor
<1>3. /\ program' = Append(program, p) /\ currentFunction' = h
      /\ errors' = errors \union At(found) /\ warnings' = warnings \union At(warned)
      /\ finished' = finished
  BY DEF Visit
<1>4. Grows(p) /\ p.kind \in Declaring /\ TextOK
  BY <1>2, <1>3 DEF Grows, Declaring, Inv, Typed
<1>5. program'[n + 1] = p
  BY <1>4, GrowsFacts
<1>6. found = {} <=> Legal(n + 1)'
  BY <1>1, <1>2, <1>4, <1>5, DeclarationLegal, LegalNext
<1>7. warned = Suspicious(n + 1)'
  BY <1>2, <1>5, SuspiciousNext
<1>8. Begun(n + 1, n + 1)' /\ currentFunction' = program'[n + 1].of
  BY <1>2, <1>3, <1>4, <1>5, BegunGrows
<1> QED
  BY <1>1, <1>3, <1>4, <1>6, <1>7, <1>8, JudgedStep

(* A brace.                                                                *)
LEMMA BraceJudged ==
  ASSUME Inv, ~ finished, ~ finished', Judging, NEW p, Grows(p), p.kind \in {"block", "close"},
         errors' = errors \union At({}), warnings' = warnings \union At({}),
         Len(scopes') > 1 => Len(scopes) > 1 /\ currentFunction' = currentFunction
  PROVE  Judging'
<1> PICK n : n = Len(program)
  OBVIOUS
<1>1. TextOK
  BY DEF Inv, Typed
<1>2. program'[n + 1] = p
  BY <1>1, GrowsFacts
<1>3. Legal(n + 1)' /\ Suspicious(n + 1)' = {}
  BY <1>2, LegalNext, SuspiciousNext
<1>4. Len(scopes') > 1 => \E j : Begun(n + 1, j)' /\ currentFunction' = program'[j].of
  BY <1>1, InsideStays
<1> PICK none : none = {}
  OBVIOUS
<1>5. /\ errors' = errors \union At(none) /\ warnings' = warnings \union At(none)
      /\ none = {} <=> Legal(n + 1)'
      /\ none = Suspicious(n + 1)'
  BY <1>3
<1> QED
  BY <1>1, <1>4, <1>5, JudgedStep

LEMMA BlockJudged ==
  ASSUME Inv, Judging, ~ finished, OpenBlock
  PROVE  Judging'
<1> PICK p : p = Piece("block", None)
  OBVIOUS
<1>1. /\ program' = Append(program, p) /\ finished' = finished
      /\ errors' = errors \union At({}) /\ warnings' = warnings \union At({})
      /\ Len(scopes) > 1 /\ currentFunction' = currentFunction
  BY DEF OpenBlock, InFunction, Visit
<1>2. p.kind = "block" /\ Grows(p)
  BY <1>1 DEF Piece, Text, Kinds, Grows
<1> QED
  BY <1>1, <1>2, BraceJudged

LEMMA CloseJudged ==
  ASSUME Inv, Judging, ~ finished, CloseScope
  PROVE  Judging'
<1> PICK p : p = Piece("close", None)
  OBVIOUS
<1>1. /\ program' = Append(program, p) /\ finished' = finished
      /\ errors' = errors \union At({}) /\ warnings' = warnings \union At({})
      /\ Len(scopes) > 1 /\ scopes' = SubSeq(scopes, 1, Len(scopes) - 1)
      /\ currentFunction' = IF Len(scopes) = 2 THEN None ELSE currentFunction
  BY DEF CloseScope, InFunction, Visit, popScope
<1>2. p.kind = "close" /\ Grows(p)
  BY <1>1 DEF Piece, Text, Kinds, Grows
<1>3. Len(scopes) \in Nat /\ Len(scopes') = Len(scopes) - 1
  BY <1>1 DEF Inv, Typed
<1>4. Len(scopes') > 1 => currentFunction' = currentFunction
  <2>1. Len(scopes') > 1 => Len(scopes) # 2
    BY ONLY <1>3
  <2> QED
    BY ONLY <1>1, <2>1
<1> QED
  BY <1>1, <1>2, <1>4, BraceJudged


(* A statement with an expression: what is found in it, and in its place.  *)
LEMMA ExpressionJudged ==
  ASSUME Inv, ~ finished, Judging, Len(scopes) > 1,
         NEW kind \in {"exprstmt", "condition", "return"}, NEW e \in Expr, NEW found,
         Statement(kind, e, analyzeExpr[e], found),
         found = {} <=>
           /\ kind \in {"condition", "return"} => StaticType(e, Here) = "int"
           /\ kind = "return" => currentFunction.type = "int"
  PROVE  Judging'
<1> PICK n : n = Len(program)
  OBVIOUS
<1> PICK p : p = Piece(kind, e)
  OBVIOUS
<1> PICK r : r = analyzeExpr[e]
  OBVIOUS
<1> PICK all : all = r.errors \union found
  OBVIOUS
<1> PICK warned : warned = r.warnings
  OBVIOUS
<1> PICK h : h = currentFunction
  OBVIOUS
<1>1. p \in Text /\ p.kind = kind /\ p.of = e /\ e # None
  BY ProgramAssumption DEF Piece, Text, Kinds
<1>2. /\ program' = Append(program, p) /\ finished' = finished
      /\ errors' = errors \union At(all) /\ warnings' = warnings \union At(warned)
      /\ currentFunction' = currentFunction /\ scopes' = scopes
  BY DEF Statement, Visit, table
<1>3. Grows(p) /\ TextOK
  BY <1>1, <1>2 DEF Grows, Inv, Typed
<1>4. program'[n + 1] = p /\ n \in Nat /\ Here = n + 1
  BY <1>3, GrowsFacts DEF Here
<1>5. /\ LegalExpr(e, n + 1)' <=> LegalExpr(e, n + 1)
      /\ StaticType(e, n + 1)' = StaticType(e, n + 1)
      /\ Suspects(e, n + 1)' = Suspects(e, n + 1)
  <2>1. n + 1 \in 1..(Len(program) + 1)
    BY <1>4
  <2> QED
    BY <1>3, <2>1, RulesSame
<1>6. /\ r.errors = {} <=> LegalExpr(e, n + 1)
      /\ warned = Suspects(e, n + 1)
  BY <1>4, ExprJudged, ExprWarned DEF Judged, Warned
<1>7. /\ \E j : Begun(n + 1, j)' /\ h = program'[j].of
      /\ Around(n + 1)' = h
  BY <1>1, <1>3, InsideStays
<1>8. all = {} <=>
        /\ LegalExpr(e, n + 1)
        /\ kind \in {"condition", "return"} => StaticType(e, n + 1) = "int"
        /\ kind = "return" => h.type = "int"
  BY <1>4, <1>6
<1>9. all = {} <=> Legal(n + 1)'
  <2>1. CASE kind = "exprstmt"
    BY <1>1, <1>4, <1>5, <1>8, <2>1, LegalNext
  <2>2. CASE kind = "condition"
    BY <1>1, <1>4, <1>5, <1>8, <2>2, LegalNext
  <2>3. CASE kind = "return"
    BY <1>1, <1>4, <1>5, <1>7, <1>8, <2>3, LegalNext
  <2> QED
    BY <2>1, <2>2, <2>3
<1>10. warned = Suspicious(n + 1)'
  BY <1>1, <1>4, <1>5, <1>6, SuspiciousNext
<1>11. \E j : Begun(n + 1, j)' /\ currentFunction' = program'[j].of
  BY <1>2, <1>7
<1> QED
  BY <1>2, <1>3, <1>9, <1>10, <1>11, JudgedStep

LEMMA ReturnJudged ==
  ASSUME Inv, ~ finished, Judging, Len(scopes) > 1,
         NEW found, Statement("return", None, Nothing, found),
         found = {} <=> currentFunction.type = "void"
  PROVE  Judging'
<1> PICK n : n = Len(program)
  OBVIOUS
<1> PICK p : p = Piece("return", None)
  OBVIOUS
<1> PICK warned : warned = {}
  OBVIOUS
<1> PICK h : h = currentFunction
  OBVIOUS
<1>1. p \in Text /\ p.kind = "return" /\ p.of = None
  BY DEF Piece, Text, Kinds
<1>2. /\ program' = Append(program, p) /\ finished' = finished
      /\ errors' = errors \union At(found) /\ warnings' = warnings \union At(warned)
      /\ currentFunction' = currentFunction /\ scopes' = scopes
  BY DEF Statement, Visit, table, Nothing, Result
<1>3. Grows(p) /\ TextOK
  BY <1>1, <1>2 DEF Grows, Inv, Typed
<1>4. program'[n + 1] = p
  BY <1>3, GrowsFacts
<1>5. /\ \E j : Begun(n + 1, j)' /\ h = program'[j].of
      /\ Around(n + 1)' = h
  BY <1>1, <1>3, InsideStays
<1>6. found = {} <=> Legal(n + 1)'
  BY <1>1, <1>4, <1>5, LegalNext
<1>7. warned = Suspicious(n + 1)'
  BY <1>1, <1>4, SuspiciousNext
<1>8. \E j : Begun(n + 1, j)' /\ currentFunction' = program'[j].of
  BY <1>2, <1>5
<1> QED
  BY <1>2, <1>3, <1>6, <1>7, <1>8, JudgedStep


LEMMA InsideType ==
  ASSUME TextOK, ~ finished, Judging, Len(scopes) > 1
  PROVE  currentFunction.type \in {"int", "void"}
<1>1. PICK j : Begun(Len(program), j) /\ currentFunction = program[j].of
  BY DEF Judging
<1>2. j \in 1..Len(program) /\ program[j].kind = "function"
  BY <1>1 DEF Begun
<1>3. program[j] \in Text
  BY <1>2 DEF TextOK
<1>4. program[j].of \in Header
  BY <1>2, <1>3 DEF Text
<1> QED
  BY <1>1, <1>4, ProgramAssumption


LEMMA RulesUnchanged ==
  ASSUME TextOK, program' = program
  PROVE  /\ \A i \in 1..Len(program) : Legal(i)' <=> Legal(i)
         /\ \A i \in 1..Len(program) : Suspicious(i)' = Suspicious(i)
         /\ \A i, j : Begun(i, j)' <=> Begun(i, j)
         /\ LegalMain' <=> LegalMain
         /\ Here' = Here
<1>1. ASSUME NEW i \in 1..Len(program)
      PROVE  (Legal(i)' <=> Legal(i)) /\ Suspicious(i)' = Suspicious(i)
  <2> PICK q : q = program[i]
    OBVIOUS
  <2>1. i \in 1..(Len(program) + 1) /\ q \in Text /\ program'[i] = q
    BY DEF TextOK
  <2>2. \A name : Meaning(name, i)' = Meaning(name, i)
    BY <2>1, MeaningUnchanged
  <2>3. /\ StaticType(q.of, i)' = StaticType(q.of, i)
        /\ LegalExpr(q.of, i)' <=> LegalExpr(q.of, i)
        /\ Suspects(q.of, i)' = Suspects(q.of, i)
    BY <2>2, RulesKept
  <2>4. Redeclares(i)' <=> Redeclares(i)
    BY TextUnchanged
  <2>5. Around(i)' = Around(i)
    BY DEF Around
  <2>6. \/ q.kind \in {"global", "parameter", "local"} \/ q.kind = "function"
        \/ q.kind \in {"block", "close"} \/ q.kind \in {"exprstmt", "condition"}
        \/ q.kind = "return"
    BY <2>1 DEF Text, Kinds
  <2>7. q.kind \in {"exprstmt", "condition"} => q.of # None
    BY <2>1, ProgramAssumption DEF Text
  <2>8. Legal(i)' <=> Legal(i)
    <3>1. CASE q.kind \in {"global", "parameter", "local"}
      BY <2>1, <2>4, <3>1, LegalFacts, LegalNext
    <3>2. CASE q.kind = "function"
      BY <2>1, <2>4, <3>2, LegalFacts, LegalNext
    <3>3. CASE q.kind \in {"block", "close"}
      BY <2>1, <3>3, LegalFacts, LegalNext
    <3>4. CASE q.kind \in {"exprstmt", "condition"}
      BY <2>1, <2>3, <3>4, LegalFacts, LegalNext
    <3>5. CASE q.kind = "return"
      BY <2>1, <2>3, <2>5, <3>5, LegalFacts, LegalNext
    <3> QED
      BY <2>6, <3>1, <3>2, <3>3, <3>4, <3>5
  <2>9. Suspicious(i)' = Suspicious(i)
    <3>1. CASE q.kind \in {"global", "local"}
      BY <2>1, <3>1, SuspiciousFacts, SuspiciousNext
    <3>2. CASE q.kind \in {"parameter", "function", "block", "close"}
      BY <2>1, <3>2, SuspiciousFacts, SuspiciousNext
    <3>3. CASE q.kind \in {"exprstmt", "condition", "return"} /\ q.of # None
      BY <2>1, <2>3, <3>3, SuspiciousFacts, SuspiciousNext
    <3>4. CASE q.kind = "return" /\ q.of = None
      BY <2>1, <3>4, SuspiciousFacts, SuspiciousNext
    <3> QED
      BY <2>6, <2>7, <3>1, <3>2, <3>3, <3>4
  <2> QED
    BY <2>8, <2>9
<1>2. \A i, j : Begun(i, j)' <=> Begun(i, j)
  BY DEF Begun
<1>3. LegalMain' <=> LegalMain
  <2>1. TopLevel' = TopLevel
    BY DEF TopLevel
  <2>2. LastDecl' = LastDecl
    BY <2>1 DEF LastDecl
  <2> QED
    BY <2>2 DEF LegalMain
<1>4. Here' = Here
  BY DEF Here
<1> QED
  BY <1>1, <1>2, <1>3, <1>4

(* The check for main, made once, is the rule about main.                  *)
LEMMA MainJudged ==
  ASSUME TextOK, TopLevel # {}
  PROVE  checkMain = {} <=> LegalMain
<1> DEFINE n == Len(program)
           Top(i) == i \in TopLevel /\ \A j \in TopLevel : j <= i
           Main(i) == i \in Mains /\ \A j \in Mains : j <= i
<1>1. n \in Nat /\ TopLevel \subseteq 1..n /\ Mains \subseteq TopLevel
  BY DEF TextOK, TopLevel, Mains
<1>2. \A i, j : Top(i) /\ Top(j) => i = j
  BY <1>1
<1>3. \A i, j : Main(i) /\ Main(j) => i = j
  BY <1>1
<1>4. \E i \in TopLevel : Top(i)
  BY <1>1, LargestNumber
<1>5. Mains # {} => \E i \in Mains : Main(i)
  BY <1>1, LargestNumber
<1>6. Top(LastDecl)
  BY <1>4 DEF LastDecl
<1>7. Mains # {} => Main(LastMain)
  BY <1>5 DEF LastMain
<1> PICK d : d = LastDecl
  OBVIOUS
<1> PICK m : m = LastMain
  OBVIOUS
<1>8. d \in Mains => Mains # {} /\ m = d
  <2>1. d \in Mains => Main(d)
    BY <1>1, <1>6
  <2> QED
    BY <1>3, <1>7, <2>1
<1>9. d \in Mains <=> program[d].kind = "function" /\ program[d].of.name = "main"
  BY <1>6 DEF Mains
<1>10. Mains # {} => m \in Mains
  BY <1>7
<1> HIDE DEF Top, Main
<1>11. CASE Mains = {}
  <2>1. checkMain # {}
    BY <1>11 DEF checkMain
  <2>2. ~ LegalMain
    BY <1>9, <1>11 DEF LegalMain
  <2> QED
    BY <2>1, <2>2
<1>12. CASE Mains # {}
  <2>1. checkMain = (IF m = d THEN {} ELSE {"main is not last"})
          \union (IF program[m].of.type = "void" /\ program[m].of.params = <<>> THEN {}
                  ELSE {"form of main"})
    BY <1>12 DEF checkMain
  <2>2. checkMain = {} <=> m = d /\ program[m].of.type = "void" /\ program[m].of.params = <<>>
    BY <2>1
  <2>3. m = d <=> d \in Mains
    BY <1>8, <1>10, <1>12
  <2> QED
    BY <1>9, <2>2, <2>3 DEF LegalMain
<1> QED
  BY <1>11, <1>12

LEMMA EndJudged ==
  ASSUME Inv, Judging, EndProgram
  PROVE  Judging'
<1> PICK n : n = Len(program)
  OBVIOUS
<1> PICK found : found = checkMain
  OBVIOUS
<1>1. /\ ~ finished /\ finished' /\ program' = program /\ warnings' = warnings
      /\ errors' = errors \union At(found) /\ TopLevel # {} /\ TextOK
  BY DEF EndProgram, AtTopLevel, Inv, Typed
<1>2. n \in Nat /\ Here = n + 1 /\ Here' = n + 1
  BY <1>1 DEF TextOK, Here
<1>3. /\ \A i \in 1..n : Legal(i)' <=> Legal(i)
      /\ \A i \in 1..n : Suspicious(i)' = Suspicious(i)
      /\ \A i, j : Begun(i, j)' <=> Begun(i, j)
      /\ LegalMain' <=> LegalMain
  BY <1>1, RulesUnchanged
<1>4. found = {} <=> LegalMain
  BY <1>1, MainJudged
<1>5. /\ \A x \in At(found) : x.at = n + 1 /\ x.what \in found
      /\ \A w \in found : \E x \in At(found) : x.at = n + 1 /\ x.what = w
  BY <1>2, AtFacts
<1>6. /\ \A e \in errors : e.at \in Nat /\ e.at < n + 1
      /\ \A w \in warnings : w.at \in Nat /\ w.at < n + 1
  BY <1>1, <1>2 DEF Judging
<1>7. ASSUME NEW i \in 1..n
      PROVE  (\E e \in errors' : e.at = i) <=> ~ Legal(i)'
  <2>1. (\E e \in errors : e.at = i) <=> ~ Legal(i)
    BY DEF Judging, ErrorsExact
  <2>2. i # n + 1
    BY <1>2
  <2>3. (\E e \in errors' : e.at = i) <=> \E e \in errors : e.at = i
    BY <1>1, <1>5, <2>2
  <2> QED
    BY <1>3, <2>1, <2>3
<1>8. (\E e \in errors' : e.at = n + 1) <=> ~ LegalMain'
  <2>1. (\E e \in errors' : e.at = n + 1) <=> found # {}
    BY <1>1, <1>2, <1>5, <1>6
  <2> QED
    BY <1>3, <1>4, <2>1
<1>9. ErrorsExact'
  BY <1>1, <1>2, <1>7, <1>8 DEF ErrorsExact
<1>10. WarningsExact'
  BY <1>1, <1>3 DEF Judging, WarningsExact
<1>11. \A e \in errors' : e.at \in Nat
  BY <1>1, <1>2, <1>5, <1>6
<1>12. \A w \in warnings' : w.at \in Nat /\ w.at < Here'
  BY <1>1, <1>2, <1>6
<1>13. \A i \in 1..n : program'[i].kind = "return" => \E j : Begun(i, j)'
  BY <1>1, <1>3 DEF Judging
<1> QED
  BY <1>1, <1>9, <1>10, <1>11, <1>12, <1>13 DEF Judging

LEMMA StutterJudged ==
  ASSUME Inv, Judging, UNCHANGED vars
  PROVE  Judging'
<1>1. /\ program' = program /\ errors' = errors /\ warnings' = warnings /\ scopes' = scopes
      /\ currentFunction' = currentFunction /\ finished' = finished /\ TextOK
  BY DEF vars, table, Inv, Typed
<1>2. /\ \A i \in 1..Len(program) : Legal(i)' <=> Legal(i)
      /\ \A i \in 1..Len(program) : Suspicious(i)' = Suspicious(i)
      /\ \A i, j : Begun(i, j)' <=> Begun(i, j)
      /\ LegalMain' <=> LegalMain
      /\ Here' = Here
  BY <1>1, RulesUnchanged
<1>3. ErrorsExact'
  BY <1>1, <1>2 DEF Judging, ErrorsExact
<1>4. WarningsExact'
  BY <1>1, <1>2 DEF Judging, WarningsExact
<1>5. \A i \in 1..Len(program) : program[i].kind = "return" => \E j : Begun(i, j)'
  BY <1>2 DEF Judging
<1>6. ~ finished /\ Len(scopes) > 1 =>
        \E j : Begun(Len(program), j)' /\ currentFunction = program[j].of
  BY <1>1, <1>2 DEF Judging, Begun
<1> QED
  BY <1>1, <1>2, <1>3, <1>4, <1>5, <1>6 DEF Judging, Begun

LEMMA InitJudging == Init => Judging
<1> SUFFICES ASSUME Init
             PROVE  Judging
  OBVIOUS
<1>1. /\ program = <<>> /\ errors = {} /\ warnings = {} /\ ~ finished /\ Len(scopes) = 1
  BY DEF Init
<1>2. Len(program) = 0 /\ 1..0 = {}
  BY <1>1
<1> QED
  BY <1>1, <1>2 DEF Judging, ErrorsExact, WarningsExact

LEMMA NextJudging == Inv /\ Judging /\ [Next]_vars => Judging'
<1> SUFFICES ASSUME Inv, Judging, [Next]_vars
             PROVE  Judging'
  OBVIOUS
<1>0. /\ finished => Len(scopes) = 0 /\ parameters = <<>>
      /\ parameters # <<>> => Len(scopes) = 2
  BY DEF Inv, Nesting
<1>1. InFunction => ~ finished /\ Len(scopes) > 1
  BY <1>0 DEF InFunction
<1>2. CASE GlobalVariable
  <2>1. PICK v \in Variable : analyzeVarDecl("global", v)
    BY <1>2 DEF GlobalVariable
  <2>2. ~ finished
    BY <1>2 DEF GlobalVariable, AtTopLevel
  <2> QED
    BY <2>1, <2>2, VariableJudged
<1>3. CASE OpenFunction
  BY <1>3, FunctionJudged
<1>4. CASE analyzeParam
  <2>1. ~ finished
    BY <1>0, <1>4 DEF analyzeParam
  <2> QED
    BY <1>4, <2>1, ParameterJudged
<1>5. CASE LocalVariable
  <2>1. PICK v \in Variable : analyzeVarDecl("local", v)
    BY <1>5 DEF LocalVariable
  <2>2. ~ finished
    BY <1>1, <1>5 DEF LocalVariable
  <2> QED
    BY <2>1, <2>2, VariableJudged
<1>6. CASE OpenBlock
  <2>1. ~ finished
    BY <1>1, <1>6 DEF OpenBlock
  <2> QED
    BY <1>6, <2>1, BlockJudged
<1>7. CASE CloseScope
  <2>1. ~ finished
    BY <1>1, <1>7 DEF CloseScope
  <2> QED
    BY <1>7, <2>1, CloseJudged
<1>8. CASE ExprStatement
  <2>1. ~ finished /\ Len(scopes) > 1
    BY <1>1, <1>8 DEF ExprStatement
  <2>2. PICK e \in Expr : Statement("exprstmt", e, analyzeExpr[e], {})
    BY <1>8 DEF ExprStatement
  <2> QED
    BY <2>1, <2>2, ExpressionJudged
<1>9. CASE analyzeCondition
  <2>1. ~ finished /\ Len(scopes) > 1
    BY <1>1, <1>9 DEF analyzeCondition
  <2>2. PICK e \in Expr : Statement("condition", e, analyzeExpr[e], requireInt(analyzeExpr[e].type))
    BY <1>9 DEF analyzeCondition
  <2>3. requireInt(analyzeExpr[e].type) = {} <=> StaticType(e, Here) = "int"
    <3>1. Judged(analyzeExpr[e], e)
      BY <2>1, ExprJudged
    <3> QED
      BY <3>1, RequireIntFacts DEF Judged
  <2> QED
    BY <2>1, <2>2, <2>3, ExpressionJudged
<1>10. CASE analyzeReturn
  <2>1. ~ finished /\ Len(scopes) > 1 /\ TextOK
    BY <1>1, <1>10 DEF analyzeReturn, Inv, Typed
  <2>2. CASE Statement("return", None, Nothing,
                  IF currentFunction.type = "void" THEN {} ELSE {"return without a value"})
    BY <2>1, <2>2, ReturnJudged
  <2>3. CASE \E e \in Expr :
               Statement("return", e, analyzeExpr[e],
                         IF currentFunction.type = "void"
                         THEN {"return with a value"}
                         ELSE requireInt(analyzeExpr[e].type))
    <3>1. PICK e \in Expr :
            Statement("return", e, analyzeExpr[e],
                      IF currentFunction.type = "void"
                      THEN {"return with a value"}
                      ELSE requireInt(analyzeExpr[e].type))
      BY <2>3
    <3>2. requireInt(analyzeExpr[e].type) = {} <=> StaticType(e, Here) = "int"
      <4>1. Judged(analyzeExpr[e], e)
        BY <2>1, ExprJudged
      <4> QED
        BY <4>1, RequireIntFacts DEF Judged
    <3>3. currentFunction.type \in {"int", "void"}
      BY <2>1, InsideType
    <3> DEFINE found == IF currentFunction.type = "void"
                        THEN {"return with a value"}
                        ELSE requireInt(analyzeExpr[e].type)
    <3>4. found = {} <=> StaticType(e, Here) = "int" /\ currentFunction.type = "int"
      BY <3>2, <3>3
    <3>5. Statement("return", e, analyzeExpr[e], found)
      BY <3>1
    <3> HIDE DEF found
    <3> QED
      BY <2>1, <3>4, <3>5, ExpressionJudged
  <2> QED
    BY <1>10, <2>2, <2>3 DEF analyzeReturn
<1>11. CASE EndProgram
  BY <1>11, EndJudged
<1>12. CASE UNCHANGED vars
  BY <1>12, StutterJudged
<1> QED
  BY <1>2, <1>3, <1>4, <1>5, <1>6, <1>7, <1>8, <1>9, <1>10, <1>11, <1>12 DEF Next

LEMMA JudgingAlways == Spec => []Judging
  BY InvAlways, InitJudging, NextJudging, PTL DEF Spec

(* In every program the analyzer reports an error at a piece if and only   *)
(* if that piece breaks a rule of the language, whatever was wrong before  *)
(* it, and one at the end if and only if main is missing, not last or of   *)
(* the wrong form (the whole of SemanticAnalyzer.cpp).                     *)
THEOREM ErrorsCorrect == Spec => []ErrorsExact
<1>1. Judging => ErrorsExact
  BY DEF Judging
<1> QED
  BY <1>1, JudgingAlways, PTL

(* In every program, a wrong one too, the analyzer warns of exactly what   *)
(* deserves it: a literal index past the end of the array that the name    *)
(* denotes there, a division by a literal zero, an array of size zero      *)
(* (analyzeVarExpr, analyzeBinary, analyzeVarDecl).                        *)
THEOREM WarningsCorrect == Spec => []WarningsExact
<1>1. Judging => WarningsExact
  BY DEF Judging
<1> QED
  BY <1>1, JudgingAlways, PTL


-----------------------------------------------------------------------------
(* The uses recorded in an expression are those in its text.               *)

Stands(u, part) ==
  \/ u.role = "var" /\ part.kind = "var" /\ u.name = part.name
  \/ u.role = "call" /\ part.kind = "call" /\ u.name = part.callee

Listed(uses, e) ==
  /\ \A u \in uses : \E part \in PartsOf[e] : Stands(u, part)
  /\ \A part \in PartsOf[e] : part.kind = "var" => \E u \in uses : u.role = "var" /\ u.name = part.name

LEMMA ListedParts ==
  ASSUME NEW e \in Expr, NEW f, \A p \in Parts(e) : Listed(f[p].uses, p),
         NEW below, below = UNION {f[p].uses : p \in Parts(e)},
         NEW own, \A u \in own : Stands(u, e),
         e.kind = "var" => \E u \in own : u.role = "var" /\ u.name = e.name
  PROVE  Listed(own \union below, e)
<1>1. \A q : q \in PartsOf[e] <=> q = e \/ \E p \in Parts(e) : q \in PartsOf[p]
  BY PartsOfFacts
<1>2. ASSUME NEW u \in own \union below
      PROVE  \E part \in PartsOf[e] : Stands(u, part)
  <2>1. CASE u \in own
    BY <1>1, <2>1
  <2>2. CASE u \in below
    <3>1. PICK p \in Parts(e) : u \in f[p].uses
      BY <2>2
    <3>2. PICK part \in PartsOf[p] : Stands(u, part)
      BY <3>1 DEF Listed
    <3> QED
      BY <1>1, <3>2
  <2> QED
    BY <2>1, <2>2
<1>3. ASSUME NEW part \in PartsOf[e], part.kind = "var"
      PROVE  \E u \in own \union below : u.role = "var" /\ u.name = part.name
  <2>1. CASE part = e
    BY <1>3, <2>1
  <2>2. CASE \E p \in Parts(e) : part \in PartsOf[p]
    <3>1. PICK p \in Parts(e) : part \in PartsOf[p]
      BY <2>2
    <3>2. PICK u \in f[p].uses : u.role = "var" /\ u.name = part.name
      BY <1>3, <3>1 DEF Listed
    <3>3. u \in below
      BY <3>2
    <3> QED
      BY <3>2, <3>3
  <2> QED
    BY <1>1, <2>1, <2>2
<1> QED
  BY <1>2, <1>3 DEF Listed

LEMMA BodyListed ==
  ASSUME NEW f, NEW e \in Expr, \A p \in Parts(e) : Listed(f[p].uses, p)
  PROVE  Listed(Body(f, e).uses, e)
<1> DEFINE below == UNION {f[p].uses : p \in Parts(e)}
<1>1. ExprShape(e)
  BY PartsFacts
<1>2. ASSUME NEW own, \A u \in own : Stands(u, e),
             e.kind = "var" => \E u \in own : u.role = "var" /\ u.name = e.name
      PROVE  Listed(own \union below, e)
  <2> HIDE DEF below
  <2> PICK b : b = below
    OBVIOUS
  <2>1. b = UNION {f[p].uses : p \in Parts(e)}
    BY DEF below
  <2> QED
    BY <1>2, <2>1, ListedParts
<1>3. e.kind # "var" => Listed(below, e)
  <2> HIDE DEF below
  <2>1. {} \union below = below
    OBVIOUS
  <2>2. e.kind # "var" => Listed({} \union below, e)
    BY <1>2
  <2> QED
    BY <2>1, <2>2
<1>4. Nothing.uses = {}
  BY DEF Nothing, Result
<1>5. CASE e.kind = "num"
  <2>1. Body(f, e) = Nothing /\ Parts(e) = {}
    BY <1>5 DEF Body, Parts
  <2>2. below = {}
    BY <2>1
  <2> QED
    BY <1>3, <1>4, <1>5, <2>1, <2>2
<1>6. CASE e.kind = "var"
  <2> PICK r : r = IF e.index = None THEN Nothing ELSE f[e.index]
    OBVIOUS
  <2> PICK s : s = lookup(e.name)
    OBVIOUS
  <2>1. Body(f, e) = analyzeVarExpr(e, r)
    BY <1>6 DEF Body
  <2>2. Parts(e) = {e.index} \ {None}
    BY <1>6, PartsFacts
  <2>3. r.uses = below
    <3>1. CASE e.index = None
      BY <1>4, <2>2, <3>1
    <3>2. CASE e.index # None
      BY <2>2, <3>2
    <3> QED
      BY <3>1, <3>2
  <2>4. e.index = None => below = {}
    BY <2>2
  <2> HIDE DEF below
  <2>5. \E x : Body(f, e).uses = {Use("var", e.name, x)} \union below
    <3>1. CASE s = 0 \/ storage[s].kind = "function"
      <4>1. Body(f, e).uses = {Use("var", e.name, 0)} \union r.uses
        BY <2>1, <3>1, VarUses
      <4> QED
        BY <2>3, <4>1
    <3>2. CASE ~ (s = 0 \/ storage[s].kind = "function") /\ e.index = None
      <4>1. Body(f, e).uses = {Use("var", e.name, s)}
        BY <2>1, <3>2, VarUses
      <4>2. {Use("var", e.name, s)} = {Use("var", e.name, s)} \union below
        BY <2>4, <3>2
      <4> QED
        BY <4>1, <4>2
    <3>3. CASE ~ (s = 0 \/ storage[s].kind = "function") /\ e.index # None
      <4>1. Body(f, e).uses = {Use("var", e.name, s)} \union r.uses
        BY <2>1, <3>3, VarUses
      <4> QED
        BY <2>3, <4>1
    <3> QED
      BY <3>1, <3>2, <3>3
  <2>6. PICK x : Body(f, e).uses = {Use("var", e.name, x)} \union below
    BY <2>5
  <2> PICK u : u = Use("var", e.name, x)
    OBVIOUS
  <2>7. u.role = "var" /\ u.name = e.name
    BY DEF Use
  <2>8. Stands(u, e)
    BY <1>6, <2>7 DEF Stands
  <2>9. Listed({u} \union below, e)
    <3>1. (\A v \in {u} : Stands(v, e)) /\ \E v \in {u} : v.role = "var" /\ v.name = e.name
      BY <2>7, <2>8
    <3> QED
      BY <1>2, <3>1
  <2> QED
    BY <2>6, <2>9
<1>7. CASE e.kind = "call"
  <2> DEFINE args == [k \in 1..Len(e.args) |-> f[e.args[k]]]
             uses == UNION {args[k].uses : k \in 1..Len(e.args)}
  <2> PICK s : s = lookup(e.callee)
    OBVIOUS
  <2>1. Body(f, e) = analyzeCallExpr(e, args)
    BY <1>7 DEF Body
  <2>2. Parts(e) = {e.args[k] : k \in 1..Len(e.args)}
    BY <1>7, PartsFacts
  <2>3. uses = below
    <3>1. \A k \in 1..Len(e.args) : args[k].uses = f[e.args[k]].uses
      OBVIOUS
    <3> HIDE DEF args
    <3> QED
      BY <2>2, <3>1
  <2> HIDE DEF args, below
  <2>4. \E x : Body(f, e).uses = {Use("call", e.callee, x)} \union uses
    <3>1. CASE s = 0 \/ storage[s].kind # "function"
      <4>1. Body(f, e).uses = {Use("call", e.callee, 0)} \union uses
        BY <2>1, <3>1, CallUses
      <4> QED
        BY <4>1
    <3>2. CASE ~ (s = 0 \/ storage[s].kind # "function")
      <4>1. Body(f, e).uses = {Use("call", e.callee, s)} \union uses
        BY <2>1, <3>2, CallUses
      <4> QED
        BY <4>1
    <3> QED
      BY <3>1, <3>2
  <2> HIDE DEF uses
  <2>5. PICK x : Body(f, e).uses = {Use("call", e.callee, x)} \union below
    BY <2>3, <2>4
  <2> PICK u : u = Use("call", e.callee, x)
    OBVIOUS
  <2>6. Stands(u, e)
    BY <1>7 DEF Stands, Use
  <2>7. Listed({u} \union below, e)
    <3>1. (\A v \in {u} : Stands(v, e)) /\ e.kind # "var"
      BY <1>7, <2>6
    <3> QED
      BY <1>2, <3>1
  <2> QED
    BY <2>5, <2>7
<1>8. CASE e.kind = "assign"
  <2>1. Body(f, e) = analyzeAssign(f[e.target], f[e.value])
    BY <1>8 DEF Body
  <2>2. Body(f, e).uses = f[e.target].uses \union f[e.value].uses
    <3> DEFINE l == f[e.target]
               r == f[e.value]
               E == l.errors \union r.errors \union requireInt(r.type)
                      \union (IF l.type = "array" THEN {"assignment to an array"} ELSE {})
    <3>1. Body(f, e) = Result("int", E, l.warnings \union r.warnings, l.uses \union r.uses)
      BY <2>1 DEF analyzeAssign
    <3> HIDE DEF l, r, E
    <3>2. Body(f, e).uses = l.uses \union r.uses
      BY <3>1, ResultUses
    <3> QED
      BY <3>2 DEF l, r
  <2>3. Parts(e) = {e.target, e.value}
    BY <1>8, PartsFacts
  <2>4. Body(f, e).uses = below
    BY <2>2, <2>3
  <2> HIDE DEF below
  <2> QED
    BY <1>3, <1>8, <2>4
<1>9. CASE e.kind = "binary"
  <2>1. Body(f, e) = analyzeBinary(e, f[e.lhs], f[e.rhs])
    BY <1>9 DEF Body
  <2>2. Body(f, e).uses = f[e.lhs].uses \union f[e.rhs].uses
    BY <2>1, ResultUses DEF analyzeBinary
  <2>3. Parts(e) = {e.lhs, e.rhs}
    BY <1>9, PartsFacts
  <2>4. Body(f, e).uses = below
    BY <2>2, <2>3
  <2> HIDE DEF below
  <2> QED
    BY <1>3, <1>9, <2>4
<1> QED
  BY <1>1, <1>5, <1>6, <1>7, <1>8, <1>9 DEF ExprShape

LEMMA ExprListed ==
  ASSUME Typed, TypeOK
  PROVE  \A e \in Expr : Listed(analyzeExpr[e].uses, e)
<1>1. PICK a : a = analyzeExpr
  OBVIOUS
<1>2. \A e \in Expr : a[e] = Body(a, e)
  BY <1>1, AnalyzeExprFacts
<1> DEFINE R == {e \in Expr : Listed(a[e].uses, e)}
<1>3. ASSUME NEW e \in Expr, \A d \in Expr : Height[d] < Height[e] => d \in R
      PROVE  e \in R
  <2>1. \A p \in Parts(e) : Listed(a[p].uses, p)
    BY <1>3, PartsFacts
  <2>2. Listed(Body(a, e).uses, e)
    BY <2>1, BodyListed
  <2> QED
    BY <1>2, <2>2
<1>4. Height \in [Expr -> Nat]
  BY ProgramAssumption
<1>5. Expr \subseteq R
  <2> HIDE DEF R
  <2> QED
    BY <1>3, <1>4, TreeInduction
<1> QED
  BY <1>1, <1>5


(* What is written into the nodes of piece i.                              *)
Statements == {"exprstmt", "condition", "return"}
Silent == {"block", "close"}

Annotated(i) ==
  /\ program[i].kind \in Declaring =>
       \A u \in annotations[i] : u.role = "declaration" /\ (u.symbol # 0 <=> ~ Redeclares(i))
  /\ program[i].kind \in Silent \/ (program[i].kind = "return" /\ program[i].of = None) =>
       annotations[i] = {}
  /\ program[i].kind \in Statements /\ program[i].of # None =>
       Listed(annotations[i], program[i].of)

LEMMA ListedKept ==
  ASSUME NEW uses, NEW e
  PROVE  Listed(uses, e)' <=> Listed(uses, e)
<1>1. PartsOf' = PartsOf
  BY DEF PartsOf
<1> QED
  BY <1>1 DEF Listed, Stands

(* The same of a new piece.                                                *)
LEMMA AnnotatedNext ==
  ASSUME NEW i, NEW q, q = program'[i], NEW uses, uses = annotations'[i],
         q.kind \in Declaring =>
           \A u \in uses : u.role = "declaration" /\ (u.symbol # 0 <=> ~ Redeclares(i)'),
         q.kind \in Silent \/ (q.kind = "return" /\ q.of = None) => uses = {},
         q.kind \in Statements /\ q.of # None => Listed(uses, q.of)
  PROVE  Annotated(i)'
<1>1. Listed(uses, q.of)' <=> Listed(uses, q.of)
  BY ListedKept
<1>2. q.kind \in Statements /\ q.of # None => Listed(annotations[i], program[i].of)'
  <2>1. Listed(annotations[i], program[i].of)' <=> Listed(uses, q.of)'
    BY DEF Listed, Stands
  <2> QED
    BY <1>1, <2>1
<1>3. Declaring' = Declaring /\ Statements' = Statements /\ Silent' = Silent
  BY DEF Declaring, Statements, Silent
<1> QED
  BY <1>2, <1>3 DEF Annotated

LEMMA AnnotatedSame ==
  ASSUME TextOK, NEW i \in 1..Len(program), Annotated(i), program'[i] = program[i],
         annotations'[i] = annotations[i], Redeclares(i)' <=> Redeclares(i)
  PROVE  Annotated(i)'
<1> PICK q : q = program[i]
  OBVIOUS
<1> PICK uses : uses = annotations[i]
  OBVIOUS
<1>1. /\ q.kind \in Declaring =>
           \A u \in uses : u.role = "declaration" /\ (u.symbol # 0 <=> ~ Redeclares(i)')
      /\ q.kind \in Silent \/ (q.kind = "return" /\ q.of = None) => uses = {}
      /\ q.kind \in Statements /\ q.of # None => Listed(uses, q.of)
  BY DEF Annotated
<1>2. q = program'[i] /\ uses = annotations'[i]
  OBVIOUS
<1> QED
  BY <1>1, <1>2, AnnotatedNext

-----------------------------------------------------------------------------
(* Every function ever stored is in the global scope, under its name.      *)

Global(s) ==
  storage[s].kind = "function" =>
    /\ storage[s].name \in DOMAIN scopes[1].byName
    /\ scopes[1].byName[storage[s].name] = s

OneByName ==
  \A i, j \in 1..Len(storage) :
    storage[i].kind = "function" /\ storage[i].name = storage[j].name
      /\ storage[j].kind = "function" => i = j

Listing ==
  /\ \A i \in 1..Len(program) : Annotated(i)
  /\ ~ finished => \A s \in 1..Len(storage) : Global(s)
  /\ finished => OneByName

LEMMA GlobalUnique ==
  ASSUME \A s \in 1..Len(storage) : Global(s)
  PROVE  OneByName
  BY DEF Global, OneByName

(* The global scope forgets nothing, and knows every new function.         *)
Knows(map, store) ==
  \A s \in 1..Len(store) :
    \/ s \in 1..Len(storage) /\ store[s] = storage[s]
    \/ store[s].kind # "function"
    \/ store[s].name \in DOMAIN map /\ map[store[s].name] = s

Widens(map) ==
  \A name \in DOMAIN scopes[1].byName : name \in DOMAIN map /\ map[name] = scopes[1].byName[name]

LEMMA GlobalStep ==
  ASSUME \A s \in 1..Len(storage) : Global(s), NEW map, map = scopes'[1].byName,
         NEW store, store = storage', Widens(map), Knows(map, store)
  PROVE  \A s \in 1..Len(storage') : Global(s)'
<1> SUFFICES ASSUME NEW s \in 1..Len(store), store[s].kind = "function"
             PROVE  store[s].name \in DOMAIN map /\ map[store[s].name] = s
  BY DEF Global
<1>1. CASE s \in 1..Len(storage) /\ store[s] = storage[s]
  <2>1. storage[s].name \in DOMAIN scopes[1].byName /\ scopes[1].byName[storage[s].name] = s
    BY <1>1 DEF Global
  <2> QED
    BY <1>1, <2>1 DEF Widens
<1>2. CASE ~ (s \in 1..Len(storage) /\ store[s] = storage[s])
  BY <1>2 DEF Knows
<1> QED
  BY <1>1, <1>2

LEMMA SameMap ==
  ASSUME scopes'[1] = scopes[1], storage' = storage
  PROVE  Widens(scopes'[1].byName) /\ Knows(scopes'[1].byName, storage')
  BY DEF Widens, Knows

(* A declaration, at the top level if it is that of a function.            *)
LEMMA DeclaredMap ==
  ASSUME Inv, ~ finished, NEW p, Grows(p), p.kind \in Declaring,
         p.kind = "function" => Len(scopes) = 1,
         NEW symbol, symbol = SymbolFor(p),
         NEW map, map = declare(symbol)[1].byName, NEW store, store = Stored(symbol)
  PROVE  Widens(map) /\ Knows(map, store)
<1> PICK new : new = declare(symbol)
  OBVIOUS
<1> PICK l : l = Len(scopes)
  OBVIOUS
<1> PICK name : name = p.of.name
  OBVIOUS
<1>1. symbol.name = name /\ storage \in Seq(Symbols) /\ symbol \in Symbols
  BY SymbolTyped DEF Grows, Inv, Typed
<1>2. Declared(name, symbol, new, store)
  BY DeclareFacts
<1>3. l \in Nat \ {0} /\ (Existing(name) # 0 <=> name \in DOMAIN scopes[l].byName)
  BY ExistingRight
<1>4. CASE Existing(name) # 0
  <2>1. new = scopes /\ store = storage
    BY <1>2, <1>4 DEF Declared
  <2> QED
    BY <2>1 DEF Widens, Knows
<1>5. CASE Existing(name) = 0
  <2>1. /\ store = Append(storage, symbol)
        /\ \A k \in 1..(l - 1) : new[k] = scopes[k]
        /\ new[l].byName = [x \in DOMAIN scopes[l].byName \union {name} |->
                              IF x = name THEN Inserted ELSE scopes[l].byName[x]]
    BY <1>2, <1>5 DEF Declared
  <2>2. \A s \in 1..Len(store) :
          \/ s \in 1..Len(storage) /\ store[s] = storage[s]
          \/ s = Inserted /\ store[s] = symbol
    BY <1>1, <2>1 DEF Inserted
  <2>3. CASE l = 1
    <3>1. Widens(map)
      BY <1>3, <1>5, <2>1, <2>3 DEF Widens
    <3>2. name \in DOMAIN map /\ map[name] = Inserted
      BY <2>1, <2>3
    <3>3. Knows(map, store)
      BY <1>1, <2>2, <3>2 DEF Knows
    <3> QED
      BY <3>1, <3>3
  <2>4. CASE l # 1
    <3>1. 1 \in 1..(l - 1)
      BY <1>3, <2>4
    <3>2. map = scopes[1].byName
      BY <2>1, <3>1
    <3>3. symbol.kind # "function"
      BY <2>4 DEF SymbolFor, Declaring, VariableSymbol, ParameterSymbol, Symbol
    <3>4. Knows(map, store)
      BY <2>2, <3>3 DEF Knows
    <3> QED
      BY <3>2, <3>4 DEF Widens
  <2> QED
    BY <2>3, <2>4
<1> QED
  BY <1>4, <1>5


(* A step of the walk: what is written into the new piece is right, and    *)
(* the global scope knows every function still.                            *)
LEMMA ListingStep ==
  ASSUME Inv, ~ finished, ~ finished', Listing, NEW p, NEW uses, Noted(p, uses),
         NEW n, n = Len(program), Annotated(n + 1)',
         NEW map, map = scopes'[1].byName, NEW store, store = storage',
         Widens(map), Knows(map, store)
  PROVE  Listing'
<1>1. /\ n \in Nat /\ TextOK /\ Grows(p) /\ Len(program') = n + 1
      /\ \A i \in 1..n : program'[i] = program[i]
      /\ \A i \in 1..n : annotations'[i] = annotations[i]
  BY NotedFacts DEF Noted
<1>2. \A i \in 1..n : Redeclares(i)' <=> Redeclares(i)
  BY <1>1, RedeclaresGrows
<1>3. \A i \in 1..n : Annotated(i)'
  <2> SUFFICES ASSUME NEW i \in 1..n
               PROVE  Annotated(i)'
    OBVIOUS
  <2>1. Annotated(i)
    BY DEF Listing
  <2> QED
    BY <1>1, <1>2, <2>1, AnnotatedSame
<1>4. \A i \in 1..(n + 1) : Annotated(i)'
  <2>1. \A i \in 1..(n + 1) : i = n + 1 \/ i \in 1..n
    BY <1>1
  <2> QED
    BY <1>3, <2>1
<1>5. \A s \in 1..Len(storage') : Global(s)'
  <2>1. \A s \in 1..Len(storage) : Global(s)
    BY DEF Listing
  <2> QED
    BY <2>1, GlobalStep
<1> QED
  BY <1>1, <1>4, <1>5 DEF Listing

LEMMA PlainListing ==
  ASSUME Inv, ~ finished, ~ finished', Listing, NEW p, Grows(p),
         p.kind \notin Declaring, NEW uses \in SUBSET Uses,
         annotations' = Append(annotations, uses), storage' = storage, scopes'[1] = scopes[1],
         p.kind \in Silent \/ (p.kind = "return" /\ p.of = None) => uses = {},
         p.kind \in Statements /\ p.of # None => Listed(uses, p.of)
  PROVE  Listing'
<1> PICK n : n = Len(program)
  OBVIOUS
<1> PICK map : map = scopes'[1].byName
  OBVIOUS
<1> PICK store : store = storage'
  OBVIOUS
<1>1. Noted(p, uses)
  BY PlainNoted
<1>2. p = program'[n + 1] /\ uses = annotations'[n + 1]
  BY <1>1, NotedFacts
<1>3. Annotated(n + 1)'
  BY <1>2, AnnotatedNext
<1>4. Widens(map) /\ Knows(map, store)
  BY SameMap
<1> QED
  BY <1>1, <1>3, <1>4, ListingStep

LEMMA DeclareListing ==
  ASSUME Inv, ~ finished, ~ finished', Listing, NEW p, Grows(p), p.kind \in Declaring,
         p.kind = "function" => Len(scopes) = 1,
         NEW symbol, symbol = SymbolFor(p),
         annotations' = Append(annotations, DeclaredAs(symbol)), storage' = Stored(symbol),
         scopes'[1] = declare(symbol)[1]
  PROVE  Listing'
<1> PICK n : n = Len(program)
  OBVIOUS
<1> PICK uses : uses = DeclaredAs(symbol)
  OBVIOUS
<1> PICK map : map = scopes'[1].byName
  OBVIOUS
<1> PICK store : store = storage'
  OBVIOUS
<1>1. Noted(p, uses)
  BY DeclareNoted
<1>2. p = program'[n + 1] /\ uses = annotations'[n + 1]
  BY <1>1, NotedFacts
<1>3. symbol.name = p.of.name /\ Inserted # 0
  <2>1. Len(storage) \in Nat
    BY DEF Inv, Typed
  <2> QED
    BY <2>1, SymbolTyped DEF Grows, Inserted
<1>4. (Existing(p.of.name) # 0) <=> Redeclares(n + 1)'
  BY ExistingRight
<1>5. \A u \in uses : u.role = "declaration" /\ (u.symbol # 0 <=> ~ Redeclares(n + 1)')
  BY <1>3, <1>4 DEF DeclaredAs, Use
<1>6. Annotated(n + 1)'
  <2>1. p.kind \notin Silent /\ p.kind # "return" /\ p.kind \notin Statements
    BY DEF Declaring, Silent, Statements
  <2> QED
    BY <1>2, <1>5, <2>1, AnnotatedNext
<1>7. Widens(map) /\ Knows(map, store)
  BY DeclaredMap
<1> QED
  BY <1>1, <1>6, <1>7, ListingStep


LEMMA VariableListing ==
  ASSUME Inv, Listing, ~ finished, NEW kind \in {"global", "local"}, NEW v \in Variable,
         analyzeVarDecl(kind, v)
  PROVE  Listing'
<1> PICK p : p = Piece(kind, v)
  OBVIOUS
<1> PICK symbol : symbol = VariableSymbol(v)
  OBVIOUS
<1>1. p \in Text /\ p.kind = kind /\ p.of = v /\ symbol = SymbolFor(p)
  BY DEF Piece, Text, Kinds, SymbolFor
<1>2. /\ scopes' = declare(symbol) /\ storage' = Stored(symbol)
      /\ program' = Append(program, p) /\ annotations' = Append(annotations, DeclaredAs(symbol))
      /\ ~ finished'
  BY DEF analyzeVarDecl, Visit
<1>3. Grows(p) /\ p.kind \in Declaring /\ p.kind # "function"
  BY <1>1, <1>2 DEF Grows, Declaring
<1> QED
  BY <1>1, <1>2, <1>3, DeclareListing

LEMMA ParameterListing ==
  ASSUME Inv, Listing, ~ finished, analyzeParam
  PROVE  Listing'
<1> PICK of : of = Head(parameters)
  OBVIOUS
<1> PICK p : p = Piece("parameter", of)
  OBVIOUS
<1> PICK symbol : symbol = ParameterSymbol(of)
  OBVIOUS
<1>1. parameters \in Seq(Parameter) /\ parameters # <<>>
  BY DEF Inv, Typed, analyzeParam
<1>2. of \in Parameter
  BY <1>1
<1>3. p \in Text /\ p.kind = "parameter" /\ p.of = of /\ symbol = SymbolFor(p)
  BY <1>2 DEF Piece, Text, Kinds, SymbolFor
<1>4. /\ scopes' = declare(symbol) /\ storage' = Stored(symbol)
      /\ program' = Append(program, p) /\ annotations' = Append(annotations, DeclaredAs(symbol))
      /\ ~ finished'
  BY DEF analyzeParam, Visit
<1>5. Grows(p) /\ p.kind \in Declaring /\ p.kind # "function"
  BY <1>3, <1>4 DEF Grows, Declaring
<1> QED
  BY <1>3, <1>4, <1>5, DeclareListing

LEMMA FunctionListing ==
  ASSUME Inv, Listing, OpenFunction
  PROVE  Listing'
<1> PICK h \in Header :
      LET symbol == FunctionSymbol(h)
      IN /\ scopes' = pushScope(declare(symbol))
         /\ storage' = Stored(symbol)
         /\ nextOrder' = nextOrder + 1
         /\ Visit(Piece("function", h), DeclaredAs(symbol), declareOrDiagnose(symbol), {})
         /\ parameters' = h.params
         /\ currentFunction' = h
         /\ UNCHANGED reports
  BY DEF OpenFunction
<1> PICK p : p = Piece("function", h)
  OBVIOUS
<1> PICK symbol : symbol = FunctionSymbol(h)
  OBVIOUS
<1> PICK old : old = declare(symbol)
  OBVIOUS
<1>1. p \in Text /\ p.kind = "function" /\ p.of = h /\ symbol = SymbolFor(p)
  BY DEF Piece, Text, Kinds, SymbolFor
<1>2. /\ scopes' = Append(old, Scope(nextOrder)) /\ storage' = Stored(symbol)
      /\ program' = Append(program, p) /\ annotations' = Append(annotations, DeclaredAs(symbol))
      /\ ~ finished /\ ~ finished' /\ Len(scopes) = 1
  BY DEF Visit, pushScope, OpenFunction, AtTopLevel
<1>3. Grows(p) /\ p.kind \in Declaring
  BY <1>1, <1>2 DEF Grows, Declaring
<1>4. old \in Seq(Scopes) /\ Len(old) = 1 /\ nextOrder \in Nat
  BY <1>1, <1>2, <1>3, DeclareTyped DEF Inv, Typed
<1>5. scopes'[1] = old[1]
  <2>1. 1 \in 1..1
    OBVIOUS
  <2> QED
    BY <1>2, <1>4, <2>1, ScopeAppended
<1> QED
  BY <1>1, <1>2, <1>3, <1>5, DeclareListing

LEMMA BlockListing ==
  ASSUME Inv, Listing, OpenBlock
  PROVE  Listing'
<1> PICK p : p = Piece("block", None)
  OBVIOUS
<1> PICK uses : uses = {}
  OBVIOUS
<1> PICK l : l = Len(scopes)
  OBVIOUS
<1>1. /\ scopes' = Append(scopes, Scope(nextOrder)) /\ storage' = storage
      /\ program' = Append(program, p) /\ annotations' = Append(annotations, uses)
      /\ finished' = finished /\ l > 1
  BY DEF OpenBlock, InFunction, Visit, pushScope
<1>2. p.kind = "block" /\ Grows(p)
  BY <1>1 DEF Piece, Text, Kinds, Grows
<1>3. scopes \in Seq(Scopes) /\ nextOrder \in Nat /\ l \in Nat /\ (finished => l = 0)
  BY DEF Inv, Typed, Nesting
<1>4. scopes'[1] = scopes[1] /\ ~ finished /\ ~ finished'
  <2>1. 1 \in 1..l
    BY <1>1, <1>3
  <2> QED
    BY <1>1, <1>3, <2>1, ScopeAppended
<1>5. p.kind \notin Declaring /\ p.kind \notin Statements /\ uses \in SUBSET Uses
  BY <1>2 DEF Declaring, Statements
<1> QED
  BY <1>1, <1>2, <1>4, <1>5, PlainListing

LEMMA CloseListing ==
  ASSUME Inv, Listing, CloseScope
  PROVE  Listing'
<1> PICK p : p = Piece("close", None)
  OBVIOUS
<1> PICK uses : uses = {}
  OBVIOUS
<1> PICK l : l = Len(scopes)
  OBVIOUS
<1>1. /\ scopes' = SubSeq(scopes, 1, l - 1) /\ storage' = storage
      /\ program' = Append(program, p) /\ annotations' = Append(annotations, uses)
      /\ finished' = finished /\ l > 1
  BY DEF CloseScope, InFunction, Visit, popScope
<1>2. p.kind = "close" /\ Grows(p)
  BY <1>1 DEF Piece, Text, Kinds, Grows
<1>3. scopes \in Seq(Scopes) /\ l \in Nat /\ (finished => l = 0)
  BY DEF Inv, Typed, Nesting
<1>4. scopes'[1] = scopes[1] /\ ~ finished /\ ~ finished'
  BY <1>1, <1>3
<1>5. p.kind \notin Declaring /\ p.kind \notin Statements /\ uses \in SUBSET Uses
  BY <1>2 DEF Declaring, Statements
<1> QED
  BY <1>1, <1>2, <1>4, <1>5, PlainListing

LEMMA ExpressionListing ==
  ASSUME Inv, Listing, ~ finished, NEW kind \in Statements,
         NEW e \in Expr, NEW found, Statement(kind, e, analyzeExpr[e], found)
  PROVE  Listing'
<1> PICK p : p = Piece(kind, e)
  OBVIOUS
<1> PICK uses : uses = analyzeExpr[e].uses
  OBVIOUS
<1>1. /\ scopes' = scopes /\ storage' = storage
      /\ program' = Append(program, p) /\ annotations' = Append(annotations, uses)
      /\ finished' = finished
  BY DEF Statement, Visit, table
<1>2. p.kind = kind /\ p.of = e /\ p \in Text /\ e # None
  BY ProgramAssumption DEF Piece, Text, Kinds, Statements
<1>3. p.kind \notin Declaring /\ p.kind \notin Silent /\ Grows(p)
  BY <1>1, <1>2 DEF Declaring, Silent, Statements, Grows
<1>4. uses \in SUBSET Uses
  <2>1. AllRight(uses)
    BY UsesRight
  <2> QED
    BY <2>1 DEF AllRight, Right
<1>5. Listed(uses, e)
  BY ExprListed DEF Inv
<1> QED
  BY <1>1, <1>2, <1>3, <1>4, <1>5, PlainListing

LEMMA ReturnListing ==
  ASSUME Inv, Listing, ~ finished, NEW found, Statement("return", None, Nothing, found)
  PROVE  Listing'
<1> PICK p : p = Piece("return", None)
  OBVIOUS
<1> PICK uses : uses = {}
  OBVIOUS
<1>1. /\ scopes' = scopes /\ storage' = storage
      /\ program' = Append(program, p) /\ annotations' = Append(annotations, uses)
      /\ finished' = finished
  BY DEF Statement, Visit, table, Nothing, Result
<1>2. p.kind = "return" /\ p.of = None /\ Grows(p)
  BY <1>1 DEF Piece, Text, Kinds, Grows
<1>3. p.kind \notin Declaring /\ p.kind \notin Silent /\ uses \in SUBSET Uses
  BY <1>2 DEF Declaring, Silent
<1> QED
  BY <1>1, <1>2, <1>3, PlainListing

(* The end closes the scopes: what they knew of the functions remains.     *)
LEMMA AnnotatedUnchanged ==
  ASSUME TextOK, program' = program, annotations' = annotations,
         NEW i \in 1..Len(program), Annotated(i)
  PROVE  Annotated(i)'
<1>1. Redeclares(i)' <=> Redeclares(i)
  BY TextUnchanged
<1> QED
  BY <1>1, AnnotatedSame

LEMMA EndListing ==
  ASSUME Inv, Listing, EndProgram
  PROVE  Listing'
<1>1. /\ ~ finished /\ finished' /\ program' = program /\ annotations' = annotations
      /\ storage' = storage /\ TextOK
  BY DEF EndProgram, AtTopLevel, Inv, Typed
<1>2. \A i \in 1..Len(program) : Annotated(i)'
  BY <1>1, AnnotatedUnchanged DEF Listing
<1>3. OneByName
  BY <1>1, GlobalUnique DEF Listing
<1>4. OneByName'
  BY <1>1, <1>3 DEF OneByName
<1> QED
  BY <1>1, <1>2, <1>4 DEF Listing

LEMMA StutterListing ==
  ASSUME Inv, Listing, UNCHANGED vars
  PROVE  Listing'
<1>1. /\ program' = program /\ annotations' = annotations /\ finished' = finished
      /\ storage' = storage /\ scopes' = scopes /\ TextOK
  BY DEF vars, table, Inv, Typed
<1>2. \A i \in 1..Len(program) : Annotated(i)'
  BY <1>1, AnnotatedUnchanged DEF Listing
<1>3. \A s : Global(s)' <=> Global(s)
  BY <1>1 DEF Global
<1>4. OneByName' <=> OneByName
  BY <1>1 DEF OneByName
<1> QED
  BY <1>1, <1>2, <1>3, <1>4 DEF Listing

LEMMA InitListing == Init => Listing
<1> SUFFICES ASSUME Init
             PROVE  Listing
  OBVIOUS
<1>1. Len(program) = 0 /\ 1..0 = {} /\ ~ finished
  BY DEF Init
<1>2. storage = <<input, output>> /\ Len(storage) = 2
  BY DEF Init
<1>3. /\ "input" \in DOMAIN scopes[1].byName /\ scopes[1].byName["input"] = 1
      /\ "output" \in DOMAIN scopes[1].byName /\ scopes[1].byName["output"] = 2
  BY DEF Init
<1>4. input.name = "input" /\ output.name = "output"
  BY DEF input, output, Symbol
<1>5. \A s \in 1..2 : Global(s)
  <2>1. \A s \in 1..2 : s = 1 \/ s = 2
    OBVIOUS
  <2>2. storage[1] = input /\ storage[2] = output
    BY <1>2
  <2>3. Global(1) /\ Global(2)
    BY <1>3, <1>4, <2>2 DEF Global
  <2> QED
    BY <2>1, <2>3
<1> QED
  BY <1>1, <1>2, <1>5 DEF Listing

LEMMA NextListing == Inv /\ Listing /\ [Next]_vars => Listing'
<1> SUFFICES ASSUME Inv, Listing, [Next]_vars
             PROVE  Listing'
  OBVIOUS
<1>0. /\ finished => Len(scopes) = 0 /\ parameters = <<>>
      /\ parameters # <<>> => Len(scopes) = 2
  BY DEF Inv, Nesting
<1>1. InFunction => ~ finished
  BY <1>0 DEF InFunction
<1>2. CASE GlobalVariable
  <2>1. PICK v \in Variable : analyzeVarDecl("global", v)
    BY <1>2 DEF GlobalVariable
  <2>2. ~ finished
    BY <1>2 DEF GlobalVariable, AtTopLevel
  <2> QED
    BY <2>1, <2>2, VariableListing
<1>3. CASE OpenFunction
  BY <1>3, FunctionListing
<1>4. CASE analyzeParam
  <2>1. ~ finished
    BY <1>0, <1>4 DEF analyzeParam
  <2> QED
    BY <1>4, <2>1, ParameterListing
<1>5. CASE LocalVariable
  <2>1. PICK v \in Variable : analyzeVarDecl("local", v)
    BY <1>5 DEF LocalVariable
  <2>2. ~ finished
    BY <1>1, <1>5 DEF LocalVariable
  <2> QED
    BY <2>1, <2>2, VariableListing
<1>6. CASE OpenBlock
  BY <1>6, BlockListing
<1>7. CASE CloseScope
  BY <1>7, CloseListing
<1>8. CASE ExprStatement
  <2>1. PICK e \in Expr : Statement("exprstmt", e, analyzeExpr[e], {})
    BY <1>8 DEF ExprStatement
  <2>2. ~ finished /\ "exprstmt" \in Statements
    BY <1>1, <1>8 DEF ExprStatement, Statements
  <2> QED
    BY <2>1, <2>2, ExpressionListing
<1>9. CASE analyzeCondition
  <2>1. PICK e \in Expr : Statement("condition", e, analyzeExpr[e], requireInt(analyzeExpr[e].type))
    BY <1>9 DEF analyzeCondition
  <2>2. ~ finished /\ "condition" \in Statements
    BY <1>1, <1>9 DEF analyzeCondition, Statements
  <2> QED
    BY <2>1, <2>2, ExpressionListing
<1>10. CASE analyzeReturn
  <2>1. ~ finished /\ "return" \in Statements
    BY <1>1, <1>10 DEF analyzeReturn, Statements
  <2>2. \/ \E found : Statement("return", None, Nothing, found)
        \/ \E e \in Expr : \E found : Statement("return", e, analyzeExpr[e], found)
    BY <1>10 DEF analyzeReturn
  <2> QED
    BY <2>1, <2>2, ReturnListing, ExpressionListing
<1>11. CASE EndProgram
  BY <1>11, EndListing
<1>12. CASE UNCHANGED vars
  BY <1>12, StutterListing
<1> QED
  BY <1>2, <1>3, <1>4, <1>5, <1>6, <1>7, <1>8, <1>9, <1>10, <1>11, <1>12 DEF Next

LEMMA ListingAlways == Spec => []Listing
  BY InvAlways, InitListing, NextListing, PTL DEF Spec


-----------------------------------------------------------------------------
(* What the generators may take for granted.                               *)

(* The parts of a part are parts.                                          *)
LEMMA PartsOfInside ==
  ASSUME NEW e \in Expr, NEW q \in PartsOf[e], NEW p \in Parts(q)
  PROVE  p \in PartsOf[e]
<1> PICK a : a = PartsOf
  OBVIOUS
<1>1. \A d \in Expr : \A r : r \in a[d] <=> r = d \/ \E s \in Parts(d) : r \in a[s]
  BY PartsOfFacts
<1> DEFINE R == {d \in Expr : \A r \in a[d] : \A s \in Parts(r) : s \in a[d]}
<1>2. ASSUME NEW d \in Expr, \A c \in Expr : Height[c] < Height[d] => c \in R
      PROVE  d \in R
  <2> SUFFICES ASSUME NEW r \in a[d], NEW s \in Parts(r)
               PROVE  s \in a[d]
    OBVIOUS
  <2>1. CASE r = d
    <3>1. s \in Expr /\ s \in a[s]
      BY <1>1, <2>1, PartsFacts
    <3> QED
      BY <1>1, <2>1, <3>1
  <2>2. CASE r # d
    <3>1. PICK c \in Parts(d) : r \in a[c]
      BY <1>1, <2>2
    <3>2. c \in R
      BY <1>2, PartsFacts
    <3> QED
      BY <1>1, <3>1, <3>2
  <2> QED
    BY <2>1, <2>2
<1>3. Height \in [Expr -> Nat]
  BY ProgramAssumption
<1>4. Expr \subseteq R
  <2> HIDE DEF R
  <2> QED
    BY <1>2, <1>3, TreeInduction
<1> QED
  BY <1>4

(* A use that is in the text of a legal expression is bound to a symbol of *)
(* the right kind.                                                         *)
LEMMA UseReady ==
  ASSUME NEW i, NEW u, Bound(u, i), u.role # "declaration", NEW part, Stands(u, part), LegalPart(part, i)
  PROVE  /\ u.symbol # 0
         /\ storage[u.symbol] = Meaning(u.name, i)
<1>1. CASE u.role = "var" /\ part.kind = "var" /\ u.name = part.name
  <2>1. IsVariable(Meaning(u.name, i))
    BY <1>1 DEF LegalPart
  <2> QED
    BY <1>1, <2>1 DEF Bound
<1>2. CASE u.role = "call" /\ part.kind = "call" /\ u.name = part.callee
  <2>1. IsFunction(Meaning(u.name, i))
    BY <1>2 DEF LegalPart
  <2> QED
    BY <1>2, <2>1 DEF Bound
<1> QED
  BY <1>1, <1>2 DEF Stands

(* An argument has the type of an array if and only if it is a whole array.*)
LEMMA ArgumentArray ==
  ASSUME TextOK, NEW i \in 1..(Len(program) + 1), NEW arg \in Expr, LegalPart(arg, i),
         NEW uses, \A u \in uses : u.role # "declaration" => Bound(u, i),
         arg.kind = "var" => \E u \in uses : u.role = "var" /\ u.name = arg.name
  PROVE  StaticType(arg, i) = "array" <=>
           \E v \in uses :
             /\ arg.kind = "var" /\ arg.index = None
             /\ v.role = "var" /\ v.name = arg.name
             /\ storage[v.symbol].type = "array"
<1>1. CASE arg.kind = "var"
  <2> PICK m : m = Meaning(arg.name, i)
    OBVIOUS
  <2>1. IsVariable(m)
    BY <1>1 DEF LegalPart
  <2>2. \A v \in uses : v.role = "var" /\ v.name = arg.name => storage[v.symbol] = m
    BY <2>1 DEF Bound
  <2>3. \E v \in uses : v.role = "var" /\ v.name = arg.name
    BY <1>1
  <2>4. /\ arg.index = None => StaticType(arg, i) = m.type
        /\ arg.index # None => StaticType(arg, i) = "int"
    BY <1>1, <2>1, StaticFacts
  <2>5. CASE arg.index = None
    BY <1>1, <2>2, <2>3, <2>4, <2>5
  <2>6. CASE arg.index # None
    BY <2>4, <2>6
  <2> QED
    BY <2>5, <2>6
<1>2. CASE arg.kind # "var"
  <2>1. StaticType(arg, i) # "array"
    <3>1. CASE arg.kind = "call" /\ IsFunction(Meaning(arg.callee, i))
      <4> PICK m : m = Meaning(arg.callee, i)
        OBVIOUS
      <4>1. m # None /\ m.kind = "function"
        BY <3>1 DEF IsFunction
      <4>2. Sound(m)
        BY <4>1, MeaningSound
      <4>3. StaticType(arg, i) = m.type
        BY <3>1, StaticFacts
      <4> QED
        BY <4>1, <4>2, <4>3 DEF Sound
    <3>2. CASE ~ (arg.kind = "call" /\ IsFunction(Meaning(arg.callee, i)))
      <4>1. StaticType(arg, i) = "int"
        BY <1>2, <3>2 DEF StaticType
      <4> QED
        BY <4>1
    <3> QED
      BY <3>1, <3>2
  <2> QED
    BY <1>2, <2>1
<1> QED
  BY <1>1, <1>2

LEMMA CallReady ==
  ASSUME TextOK, NEW i \in 1..Len(program), NEW e \in Expr, LegalExpr(e, i),
         \A u \in annotations[i] : u.role # "declaration" => Bound(u, i),
         Listed(annotations[i], e), NEW call \in PartsOf[e], call.kind = "call"
  PROVE  CallMatches(call, i)
<1> PICK uses : uses = annotations[i]
  OBVIOUS
<1> PICK m : m = Meaning(call.callee, i)
  OBVIOUS
<1> PICK types : types = [k \in 1..Len(call.args) |-> StaticType(call.args[k], i)]
  OBVIOUS
<1>1. call \in Expr /\ LegalPart(call, i)
  BY PartsOfFacts DEF LegalExpr
<1>2. IsFunction(m) /\ types = m.params
  BY <1>1 DEF LegalPart
<1>3. call.args \in Seq(Expr)
  BY <1>1, PartsFacts DEF ExprShape
<1>4. /\ Len(m.params) = Len(call.args)
      /\ \A k \in 1..Len(call.args) : m.params[k] = StaticType(call.args[k], i)
  BY <1>2, <1>3
<1>5. ASSUME NEW k \in 1..Len(call.args)
      PROVE  (StaticType(call.args[k], i) = "array") <=>
               \E v \in uses :
                 /\ call.args[k].kind = "var" /\ call.args[k].index = None
                 /\ v.role = "var" /\ v.name = call.args[k].name
                 /\ storage[v.symbol].type = "array"
  <2> PICK arg : arg = call.args[k]
    OBVIOUS
  <2>1. arg \in Expr /\ arg \in Parts(call)
    BY <1>1, <1>3, PartsFacts
  <2>2. arg \in PartsOf[e]
    BY <1>1, <2>1, PartsOfInside
  <2>3. LegalPart(arg, i)
    BY <2>2 DEF LegalExpr
  <2>4. arg.kind = "var" => \E u \in uses : u.role = "var" /\ u.name = arg.name
    BY <2>2 DEF Listed
  <2>5. i \in 1..(Len(program) + 1)
    BY DEF TextOK
  <2> QED
    BY <2>1, <2>3, <2>4, <2>5, ArgumentArray
<1>6. ASSUME NEW u \in uses, u.role = "call", u.name = call.callee
      PROVE  storage[u.symbol] = m
  <2>1. Bound(u, i)
    BY <1>6
  <2> QED
    BY <1>2, <1>6, <2>1 DEF Bound
<1>7. ASSUME NEW u \in uses, u.role = "call", u.name = call.callee
      PROVE  /\ Len(call.args) = Len(storage[u.symbol].params)
             /\ \A k \in 1..Len(call.args) :
                  (storage[u.symbol].params[k] = "array") <=>
                    \E v \in uses :
                      /\ call.args[k].kind = "var" /\ call.args[k].index = None
                      /\ v.role = "var" /\ v.name = call.args[k].name
                      /\ storage[v.symbol].type = "array"
  <2>1. storage[u.symbol] = m
    BY <1>6, <1>7
  <2> QED
    BY <1>4, <1>5, <2>1
<1> QED
  BY <1>7 DEF CallMatches

LEMMA PieceReady ==
  ASSUME Inv, NEW i \in 1..Len(program), Annotated(i), Legal(i)
  PROVE  /\ \A u \in annotations[i] : u.symbol # 0
         /\ program[i].kind \in Statements /\ program[i].of # None =>
              \A part \in PartsOf[program[i].of] : part.kind = "call" => CallMatches(part, i)
<1> PICK p : p = program[i]
  OBVIOUS
<1> PICK uses : uses = annotations[i]
  OBVIOUS
<1>1. p \in Text /\ TextOK
  BY DEF Inv, Typed, TextOK
<1>2. \A u \in uses : u.role # "declaration" => Bound(u, i)
  BY DEF Inv, BindingsExact
<1>3. CASE p.kind \in Declaring
  <2>1. ~ Redeclares(i)
    BY <1>3, LegalFacts DEF Declaring
  <2>2. \A u \in uses : u.symbol # 0
    BY <1>3, <2>1 DEF Annotated
  <2>3. p.kind \notin Statements
    BY <1>3 DEF Declaring, Statements
  <2> QED
    BY <2>2, <2>3
<1>4. CASE p.kind \in Silent \/ (p.kind = "return" /\ p.of = None)
  <2>1. uses = {}
    BY <1>4 DEF Annotated
  <2>2. ~ (p.kind \in Statements /\ p.of # None)
    BY <1>4 DEF Silent, Statements
  <2> QED
    BY <2>1, <2>2
<1>5. CASE p.kind \in Statements /\ p.of # None
  <2> PICK e : e = p.of
    OBVIOUS
  <2>1. e \in Expr
    BY <1>1, <1>5 DEF Statements, Text
  <2>2. LegalExpr(e, i)
    BY <1>5, LegalFacts DEF Statements
  <2>3. Listed(uses, e)
    BY <1>5 DEF Annotated
  <2>4. ASSUME NEW u \in uses
        PROVE  u.symbol # 0
    <3>1. PICK part \in PartsOf[e] : Stands(u, part)
      BY <2>3 DEF Listed
    <3>2. LegalPart(part, i) /\ u.role # "declaration"
      BY <2>2, <3>1 DEF LegalExpr, Stands
    <3>3. Bound(u, i)
      BY <1>2, <3>2
    <3> QED
      BY <3>1, <3>2, <3>3, UseReady
  <2>5. ASSUME NEW part \in PartsOf[e], part.kind = "call"
        PROVE  CallMatches(part, i)
    BY <1>1, <1>2, <2>1, <2>2, <2>3, <2>5, CallReady
  <2> QED
    BY <2>4, <2>5
<1>6. \/ p.kind \in Declaring
      \/ p.kind \in Silent \/ (p.kind = "return" /\ p.of = None)
      \/ p.kind \in Statements /\ p.of # None
  <2>1. p.kind \in {"exprstmt", "condition"} => p.of # None
    BY <1>1, ProgramAssumption DEF Text
  <2> QED
    BY <1>1, <2>1 DEF Text, Kinds, Declaring, Silent, Statements
<1> QED
  BY <1>3, <1>4, <1>5, <1>6

(* What every program that is analyzed without an error gives the code     *)
(* generators: every name bound, no two functions of one name, and an      *)
(* array passed whole exactly where its function expects one.              *)
THEOREM ReadyCorrect == Spec => []ReadyForCodeGeneration
<1>1. Inv /\ Judging /\ Listing => ReadyForCodeGeneration
  <2> SUFFICES ASSUME Inv, Judging, Listing, finished, errors = {}
               PROVE  /\ \A i \in 1..Len(program) : \A u \in annotations[i] : u.symbol # 0
                      /\ OneByName
                      /\ \A i \in 1..Len(program) :
                           program[i].kind \in Statements /\ program[i].of # None =>
                             \A part \in PartsOf[program[i].of] :
                               part.kind = "call" => CallMatches(part, i)
    BY DEF ReadyForCodeGeneration, OneByName, Statements
  <2>1. \A i \in 1..Len(program) : Legal(i)
    BY DEF Judging, ErrorsExact
  <2>2. \A i \in 1..Len(program) : Annotated(i)
    BY DEF Listing
  <2>3. OneByName
    BY DEF Listing
  <2>4. ASSUME NEW i \in 1..Len(program)
        PROVE  /\ \A u \in annotations[i] : u.symbol # 0
               /\ program[i].kind \in Statements /\ program[i].of # None =>
                    \A part \in PartsOf[program[i].of] : part.kind = "call" => CallMatches(part, i)
    BY <2>1, <2>2, PieceReady
  <2>5. Len(annotations) = Len(program)
    BY DEF Inv, TypeOK
  <2> QED
    BY <2>3, <2>4
<1> QED
  BY <1>1, InvAlways, JudgingAlways, ListingAlways, PTL
=============================================================================
