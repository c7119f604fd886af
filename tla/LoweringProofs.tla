--------------------------- MODULE LoweringProofs ---------------------------
(***************************************************************************)
(* The conversion of the cminus dialect keeps a function verified: the     *)
(* properties of module CMinusToCF, proved for functions of any size and   *)
(* nesting, and for every order in which the patterns may be applied.      *)
(***************************************************************************)
EXTENDS CMinusToCF, FiniteSetTheorems, StackLemmas

-----------------------------------------------------------------------------
(* The regions of a function, one by one: region k of operation j of       *)
(* block x, and the block it holds.                                        *)
Holds(c, x, j, k) ==
  /\ x \in 1..Len(c) /\ j \in 1..Len(c[x]) /\ k \in 1..Len(c[x][j].to)
  /\ c[x][j].op \in RegionOps
Held(c, x, j, k) == c[x][j].to[k]

(* A block that has not been deleted.                                      *)
Placed(c, s, y) ==
  y \in ToSet(s) \/ \E x, j, k : Holds(c, x, j, k) /\ y = Held(c, x, j, k)

LEMMA RegionForm ==
  ASSUME NEW c, NEW r
  PROVE  r \in Regions(c) <=> \E x, j, k : Holds(c, x, j, k) /\ r = <<x, j, k>>
<1>1. ASSUME r \in Regions(c)
      PROVE  \E x, j, k : Holds(c, x, j, k) /\ r = <<x, j, k>>
  <2>1. PICK x \in 1..Len(c) :
          r \in UNION {{<<x, j, k>> : k \in 1..Len(c[x][j].to)} :
                         j \in {l \in 1..Len(c[x]) : c[x][l].op \in RegionOps}}
    BY <1>1, Zenon DEF Regions
  <2>2. PICK j \in {l \in 1..Len(c[x]) : c[x][l].op \in RegionOps} :
          r \in {<<x, j, k>> : k \in 1..Len(c[x][j].to)}
    BY <2>1, Zenon
  <2>3. PICK k \in 1..Len(c[x][j].to) : r = <<x, j, k>>
    BY <2>2, Zenon
  <2> QED
    BY <2>2, <2>3, Zenon DEF Holds
<1>2. ASSUME NEW x, NEW j, NEW k, Holds(c, x, j, k), r = <<x, j, k>>
      PROVE  r \in Regions(c)
  <2>1. j \in {l \in 1..Len(c[x]) : c[x][l].op \in RegionOps}
    BY <1>2, Zenon DEF Holds
  <2>2. r \in {<<x, j, m>> : m \in 1..Len(c[x][j].to)}
    BY <1>2, Zenon DEF Holds
  <2>3. r \in UNION {{<<x, l, m>> : m \in 1..Len(c[x][l].to)} :
                       l \in {h \in 1..Len(c[x]) : c[x][h].op \in RegionOps}}
    BY <2>1, <2>2, Zenon
  <2>4. x \in 1..Len(c)
    BY <1>2 DEF Holds
  <2>5. PICK T : T = UNION {{<<x, l, m>> : m \in 1..Len(c[x][l].to)} :
                              l \in {h \in 1..Len(c[x]) : c[x][h].op \in RegionOps}}
    OBVIOUS
  <2>6. T \in {UNION {{<<y, l, m>> : m \in 1..Len(c[y][l].to)} :
                       l \in {h \in 1..Len(c[y]) : c[y][h].op \in RegionOps}} : y \in 1..Len(c)}
    <3> DEFINE Row(y) ==
          UNION {{<<y, l, m>> : m \in 1..Len(c[y][l].to)} :
                   l \in {h \in 1..Len(c[y]) : c[y][h].op \in RegionOps}}
    <3>1. T = Row(x)
      BY <2>5
    <3>2. T \in {Row(y) : y \in 1..Len(c)}
      <4> HIDE DEF Row
      <4> QED
        BY ONLY <2>4, <3>1
    <3> QED
      BY ONLY <3>2, Zenon
  <2>7. r \in UNION {UNION {{<<y, l, m>> : m \in 1..Len(c[y][l].to)} :
                       l \in {h \in 1..Len(c[y]) : c[y][h].op \in RegionOps}} : y \in 1..Len(c)}
    BY <2>3, <2>5, <2>6
  <2> QED
    BY <2>7 DEF Regions
<1> QED
  BY <1>1, <1>2, Zenon

LEMMA PlacedIs ==
  ASSUME NEW c, NEW s, NEW y
  PROVE  y \in InPlace(c, s) <=> Placed(c, s, y)
<1>1. \A x, j, k : BlockOf(c, <<x, j, k>>) = Held(c, x, j, k)
  BY DEF BlockOf, Held
<1>2. ASSUME y \in {BlockOf(c, r) : r \in Regions(c)}
      PROVE  \E x, j, k : Holds(c, x, j, k) /\ y = Held(c, x, j, k)
  <2>1. PICK r \in Regions(c) : y = BlockOf(c, r)
    BY <1>2
  <2> QED
    BY <1>1, <2>1, RegionForm
<1>3. ASSUME NEW x, NEW j, NEW k, Holds(c, x, j, k), y = Held(c, x, j, k)
      PROVE  y \in {BlockOf(c, r) : r \in Regions(c)}
  <2>1. <<x, j, k>> \in Regions(c)
    BY <1>3, RegionForm
  <2> QED
    BY <1>1, <1>3, <2>1
<1> QED
  BY <1>2, <1>3 DEF InPlace, Placed

-----------------------------------------------------------------------------
(* What a function is like while it is lowered: its operations, ...        *)
Typed(c, s) ==
  /\ c \in Seq(Seq(Operation))
  /\ s \in Seq(1..Len(c)) /\ s # <<>> /\ IsInjective(s)
  /\ \A x \in 1..Len(c) : \A j \in 1..Len(c[x]) :
       c[x][j].to \in Seq(1..Len(c)) /\ RegionsOK(c[x][j])

(* ... its nesting, which has an end, ...                                  *)
Nested(c, s, rank) ==
  /\ rank \in [1..Len(c) -> Nat]
  /\ \A x, j, k : Holds(c, x, j, k) =>
       Placed(c, s, x) /\ rank[x] < rank[Held(c, x, j, k)]

Formed(c, s) == Typed(c, s) /\ \E rank : Nested(c, s, rank)

(* ... and what the verifier demands of it, region by region.              *)
Ordered(c, s, void) ==
  /\ \A y : Placed(c, s, y) => GlobalsExist(c[y], Globals) /\ ReturnsOK(c[y], void)
  /\ \A y \in ToSet(s) :
       BlockOK(c[y]) /\ TerminatorOK(Last(c[y]), TRUE, ToSet(Tail(s)), "func.func", 1)
  /\ \A x, j, k : Holds(c, x, j, k) =>
       /\ Held(c, x, j, k) \notin ToSet(s)
       /\ BlockOK(c[Held(c, x, j, k)])
       /\ TerminatorOK(Last(c[Held(c, x, j, k)]), FALSE, {}, c[x][j].op, k)

Single(c) ==
  \A x, j, k, y, l, m :
    Holds(c, x, j, k) /\ Holds(c, y, l, m) /\ Held(c, x, j, k) = Held(c, y, l, m)
      => x = y /\ j = l /\ k = m

LEMMA AcceptedIs ==
  ASSUME NEW c, NEW s, NEW void
  PROVE  VerifierAccepts(c, s, Globals, void) <=>
           IsInjective(s) /\ Single(c) /\ Ordered(c, s, void)
<1>1. \A x, j, k : /\ BlockOf(c, <<x, j, k>>) = Held(c, x, j, k)
                   /\ <<x, j, k>>[1] = x /\ <<x, j, k>>[2] = j /\ <<x, j, k>>[3] = k
  BY DEF BlockOf, Held
<1>2. \A x, j, k, y, l, m : <<x, j, k>> = <<y, l, m>> <=> x = y /\ j = l /\ k = m
  OBVIOUS
<1>3. (\A y \in InPlace(c, s) : GlobalsExist(c[y], Globals) /\ ReturnsOK(c[y], void))
      <=> (\A y : Placed(c, s, y) => GlobalsExist(c[y], Globals) /\ ReturnsOK(c[y], void))
  BY PlacedIs, Zenon
<1>4. (\A r, q \in Regions(c) : r # q => BlockOf(c, r) # BlockOf(c, q)) <=> Single(c)
  <2>1. ASSUME \A r, q \in Regions(c) : r # q => BlockOf(c, r) # BlockOf(c, q)
        PROVE  Single(c)
    <3> SUFFICES ASSUME NEW x, NEW j, NEW k, NEW y, NEW l, NEW m,
                        Holds(c, x, j, k), Holds(c, y, l, m),
                        Held(c, x, j, k) = Held(c, y, l, m)
                 PROVE  x = y /\ j = l /\ k = m
      BY Zenon DEF Single
    <3>1. PICK r, q : r = <<x, j, k>> /\ q = <<y, l, m>>
      OBVIOUS
    <3>2. r \in Regions(c) /\ q \in Regions(c)
      BY <3>1, RegionForm, Zenon
    <3>3. BlockOf(c, r) = BlockOf(c, q)
      BY <1>1, <3>1
    <3> QED
      BY <1>2, <2>1, <3>1, <3>2, <3>3, Zenon
  <2>2. ASSUME Single(c), NEW r \in Regions(c), NEW q \in Regions(c), r # q
        PROVE  BlockOf(c, r) # BlockOf(c, q)
    <3>1. PICK x, j, k : Holds(c, x, j, k) /\ r = <<x, j, k>>
      BY <2>2, RegionForm
    <3>2. PICK y, l, m : Holds(c, y, l, m) /\ q = <<y, l, m>>
      BY <2>2, RegionForm
    <3>3. Held(c, x, j, k) # Held(c, y, l, m)
      BY <2>2, <3>1, <3>2, Zenon DEF Single
    <3> QED
      BY <1>1, <3>1, <3>2, <3>3
  <2> QED
    BY <2>1, <2>2, Zenon
<1> DEFINE Right(r) ==
      /\ ~Contains(s, BlockOf(c, r))
      /\ BlockOK(c[BlockOf(c, r)])
      /\ TerminatorOK(Last(c[BlockOf(c, r)]), FALSE, {}, c[r[1]][r[2]].op, r[3])
    RightOne(x, j, k) ==
      /\ Held(c, x, j, k) \notin ToSet(s)
      /\ BlockOK(c[Held(c, x, j, k)])
      /\ TerminatorOK(Last(c[Held(c, x, j, k)]), FALSE, {}, c[x][j].op, k)
<1>5. \A y : Contains(s, y) <=> y \in ToSet(s)
  BY DEF Contains, ToSet
<1>6. \A x, j, k : Right(<<x, j, k>>) <=> RightOne(x, j, k)
  <2> SUFFICES ASSUME NEW x, NEW j, NEW k
               PROVE  Right(<<x, j, k>>) <=> RightOne(x, j, k)
    OBVIOUS
  <2>1. PICK r : r = <<x, j, k>>
    OBVIOUS
  <2>2. /\ BlockOf(c, r) = Held(c, x, j, k)
        /\ r[1] = x /\ r[2] = j /\ r[3] = k
    BY <1>1, <2>1
  <2>3. ~Contains(s, Held(c, x, j, k)) <=> Held(c, x, j, k) \notin ToSet(s)
    BY <1>5, Zenon
  <2>4. Right(r) <=> RightOne(x, j, k)
    BY ONLY <2>2, <2>3, Zenon
  <2> HIDE DEF Right
  <2> QED
    BY ONLY <2>1, <2>4
<1>7. (\A r \in Regions(c) : Right(r)) <=> (\A x, j, k : Holds(c, x, j, k) => RightOne(x, j, k))
  <2> HIDE DEF Right, RightOne
  <2>1. \A r : r \in Regions(c) <=> \E x, j, k : Holds(c, x, j, k) /\ r = <<x, j, k>>
    BY RegionForm
  <2>2. ASSUME \A r \in Regions(c) : Right(r), NEW x, NEW j, NEW k, Holds(c, x, j, k)
        PROVE  RightOne(x, j, k)
    <3>1. PICK r : r = <<x, j, k>>
      OBVIOUS
    <3>2. r \in Regions(c)
      BY <2>1, <2>2, <3>1
    <3> QED
      BY <1>6, <2>2, <3>1, <3>2
  <2>3. ASSUME \A x, j, k : Holds(c, x, j, k) => RightOne(x, j, k), NEW r \in Regions(c)
        PROVE  Right(r)
    <3>1. PICK x, j, k : Holds(c, x, j, k) /\ r = <<x, j, k>>
      BY <2>1
    <3> QED
      BY <1>6, <2>3, <3>1
  <2> QED
    BY <2>2, <2>3
<1> QED
  BY <1>3, <1>4, <1>7, Zenon DEF VerifierAccepts, Ordered


-----------------------------------------------------------------------------
(* One step of the conversion, with what all patterns share: the block b   *)
(* is split at operation i, which is erased, the blocks of its regions     *)
(* come into the body, and the places where control passed are branches.   *)
New(c, d, arms) == arms \union ((Len(c) + 1)..Len(d))
Jump(o, new) == o.op \in {"br", "condbr"} /\ o.to \in Seq(new)

EndsWithJump(old, now, m, new) ==
  /\ Len(now) = m
  /\ \A l \in 1..(m - 1) : now[l] = old[l]
  /\ Jump(now[m], new)

Opened(c, d, b, i, arms) ==
  /\ EndsWithJump(c[b], d[b], i, New(c, d, arms))
  /\ Len(d[Len(c) + 1]) = Len(c[b]) - i
  /\ \A l \in 1..(Len(c[b]) - i) : d[Len(c) + 1][l] = c[b][i + l]
  /\ \A a \in arms :
       \/ d[a] = c[a] /\ Last(c[a]).op \notin {"cminus.yield", "cminus.condition"}
       \/ EndsWithJump(c[a], d[a], Len(c[a]), New(c, d, arms))
  /\ \A y \in (Len(c) + 2)..Len(d) :
       Len(d[y]) = 2 /\ d[y][1] = Op("indexError", "") /\ d[y][2] = Op("unreachable", "")
  /\ \A y \in 1..Len(c) : y # b /\ y \notin arms => d[y] = c[y]

Opens(c, s, d, t, b, i, arms) ==
  /\ b \in ToSet(s) /\ i \in 1..Len(c[b]) /\ c[b][i].op \notin Terminators
  /\ \A a : a \in arms <=> \E k : Holds(c, b, i, k) /\ a = Held(c, b, i, k)
  /\ d \in Seq(Seq(Operation)) /\ Len(c) < Len(d)
  /\ Opened(c, d, b, i, arms)
  /\ t \in Seq(1..Len(d)) /\ t # <<>> /\ IsInjective(t)
  /\ ToSet(t) = ToSet(s) \union New(c, d, arms) /\ t[1] = s[1]

LEMMA NamesApart ==
  /\ RegionOps \cap Terminators = {} /\ RegionOps \subseteq CMinusOps
  /\ \A o : o \in {"br", "condbr"} => o \in Terminators /\ o \notin RegionOps
  /\ "indexError" \notin Terminators /\ "unreachable" \in Terminators
  /\ "indexError" \notin RegionOps /\ "unreachable" \notin RegionOps
<1> QED
  BY Zenon DEF RegionOps, Terminators, CMinusOps

LEMMA MoreFacts ==
  ASSUME NEW S, NEW T, S \subseteq T
  PROVE  Seq(S) \subseteq Seq(T)
  OBVIOUS

LEMMA TypedFacts ==
  ASSUME NEW c, NEW s, Typed(c, s)
  PROVE  /\ Len(c) \in Nat /\ Len(s) \in Nat \ {0}
         /\ \A x \in 1..Len(c) : c[x] \in Seq(Operation) /\ Len(c[x]) \in Nat
         /\ \A x \in 1..Len(c), j \in Nat : j \in 1..Len(c[x]) =>
              c[x][j] \in Operation /\ c[x][j].to \in Seq(1..Len(c))
         /\ ToSet(s) \subseteq 1..Len(c)
         /\ \A x, j, k : Holds(c, x, j, k) =>
              /\ Held(c, x, j, k) \in 1..Len(c)
              /\ x \in 1..Len(c) /\ j \in 1..Len(c[x]) /\ k \in 1..Len(c[x][j].to)
         /\ \A y : Placed(c, s, y) => y \in 1..Len(c)
<1>1. c \in Seq(Seq(Operation)) /\ s \in Seq(1..Len(c)) /\ s # <<>>
  BY DEF Typed
<1>2. Len(c) \in Nat /\ Len(s) \in Nat \ {0}
  BY <1>1, LenProperties, EmptySeq
<1>3. \A x \in 1..Len(c) : c[x] \in Seq(Operation) /\ Len(c[x]) \in Nat
  BY <1>1, ElementOfSeq, LenProperties
<1>4. \A x \in 1..Len(c), j \in Nat : j \in 1..Len(c[x]) =>
        c[x][j] \in Operation /\ c[x][j].to \in Seq(1..Len(c))
  BY <1>3, ElementOfSeq DEF Typed
<1>5. ToSet(s) \subseteq 1..Len(c)
  BY <1>1, <1>2, ElementOfSeq, LenProperties DEF ToSet
<1>6. \A x, j, k : Holds(c, x, j, k) =>
        /\ Held(c, x, j, k) \in 1..Len(c)
        /\ x \in 1..Len(c) /\ j \in 1..Len(c[x]) /\ k \in 1..Len(c[x][j].to)
  <2> SUFFICES ASSUME NEW x, NEW j, NEW k, Holds(c, x, j, k)
               PROVE  /\ Held(c, x, j, k) \in 1..Len(c)
                      /\ x \in 1..Len(c) /\ j \in 1..Len(c[x]) /\ k \in 1..Len(c[x][j].to)
    OBVIOUS
  <2>1. x \in 1..Len(c) /\ j \in 1..Len(c[x]) /\ k \in 1..Len(c[x][j].to)
    BY DEF Holds
  <2>2. c[x][j].to \in Seq(1..Len(c))
    BY <2>1 DEF Typed
  <2>3. c[x][j].to[k] \in 1..Len(c)
    BY <2>1, <2>2, ElementOfSeq
  <2> QED
    BY <2>1, <2>3 DEF Held
<1>7. \A y : Placed(c, s, y) => y \in 1..Len(c)
  BY <1>5, <1>6 DEF Placed
<1> QED
  BY <1>2, <1>3, <1>4, <1>5, <1>6, <1>7

(* The blocks that such a step is about.                                   *)
LEMMA OpensFacts ==
  ASSUME NEW c, NEW s, NEW d, NEW t, NEW b, NEW i, NEW arms, NEW void,
         Typed(c, s), Ordered(c, s, void), Opens(c, s, d, t, b, i, arms)
  PROVE  /\ Len(c) \in Nat /\ Len(d) \in Nat /\ Len(c) < Len(d)
         /\ b \in 1..Len(c) /\ Len(c[b]) \in Nat
         /\ i \in Nat /\ 1 <= i /\ i < Len(c[b])
         /\ b \notin arms
         /\ \A a \in arms :
              /\ a \in 1..Len(c) /\ a \notin ToSet(s) /\ a \in ToSet(t)
              /\ Len(c[a]) \in Nat /\ 1 <= Len(c[a])
              /\ c[a][Len(c[a])].op \in Terminators
         /\ b \in ToSet(t) /\ Len(c) + 1 \in ToSet(t)
<1>1. Len(c) \in Nat /\ b \in ToSet(s) /\ b \in 1..Len(c)
  BY TypedFacts DEF Opens
<1>2. Len(d) \in Nat /\ Len(c) < Len(d)
  BY LenProperties DEF Opens
<1>3. Len(c[b]) \in Nat /\ i \in 1..Len(c[b])
  BY <1>1, TypedFacts DEF Opens
<1>4. i # Len(c[b])
  <2>1. BlockOK(c[b])
    BY <1>1 DEF Ordered
  <2>2. c[b][i].op \in Terminators <=> i = Len(c[b])
    BY <1>3, <2>1 DEF BlockOK
  <2> QED
    BY <2>2 DEF Opens
<1>5. ASSUME NEW a \in arms
      PROVE  /\ a \in 1..Len(c) /\ a \notin ToSet(s) /\ a \in ToSet(t)
             /\ Len(c[a]) \in Nat /\ 1 <= Len(c[a])
             /\ c[a][Len(c[a])].op \in Terminators
  <2>1. PICK k : Holds(c, b, i, k) /\ a = Held(c, b, i, k)
    BY DEF Opens
  <2>2. a \in 1..Len(c) /\ Len(c[a]) \in Nat /\ c[a] \in Seq(Operation)
    BY <2>1, TypedFacts
  <2>3. a \notin ToSet(s) /\ BlockOK(c[a])
    BY <2>1 DEF Ordered
  <2>4. c[a] # <<>> /\ \A l \in 1..Len(c[a]) : c[a][l].op \in Terminators <=> l = Len(c[a])
    BY <2>3 DEF BlockOK
  <2>5. Len(c[a]) # 0
    BY <2>2, <2>4, EmptySeq
  <2>6. a \in ToSet(t)
    BY DEF Opens, New
  <2> QED
    BY <2>2, <2>3, <2>4, <2>5, <2>6
<1>6. b \notin arms
  BY <1>1, <1>5
<1>7. b \in ToSet(t) /\ Len(c) + 1 \in ToSet(t)
  <2>1. Len(c) + 1 \in (Len(c) + 1)..Len(d)
    BY <1>1, <1>2
  <2> QED
    BY <1>1, <2>1 DEF Opens, New
<1> QED
  BY <1>1, <1>2, <1>3, <1>4, <1>5, <1>6, <1>7


(* What such a step leaves: new operations, and old ones where they were   *)
(* or in the block that follows the split.                                 *)
Fresh(o, new) ==
  o.op \in {"br", "condbr", "indexError", "unreachable"} /\ o.to \in Seq(new)

Kin(c, d, b, i, y, l, x, j) ==
  /\ x \in 1..Len(c) /\ j \in 1..Len(c[x]) /\ d[y][l] = c[x][j]
  /\ \/ y = x /\ l = j /\ (x # b \/ j < i)
     \/ y = Len(c) + 1 /\ x = b /\ j = i + l

LEMMA OpensOps ==
  ASSUME NEW c, NEW s, NEW d, NEW t, NEW b, NEW i, NEW arms, NEW void,
         Typed(c, s), Ordered(c, s, void), Opens(c, s, d, t, b, i, arms),
         NEW y \in 1..Len(d), NEW l \in 1..Len(d[y])
  PROVE  \/ Fresh(d[y][l], New(c, d, arms))
         \/ \E x, j : Kin(c, d, b, i, y, l, x, j)
<1>1. /\ Len(c) \in Nat /\ Len(d) \in Nat /\ Len(c) < Len(d)
      /\ b \in 1..Len(c) /\ Len(c[b]) \in Nat
      /\ i \in Nat /\ 1 <= i /\ i < Len(c[b])
      /\ b \notin arms
      /\ \A a \in arms : a \in 1..Len(c) /\ Len(c[a]) \in Nat /\ 1 <= Len(c[a])
  BY OpensFacts
<1>2. PICK new : new = New(c, d, arms)
  OBVIOUS
<1>3. Opened(c, d, b, i, arms)
  BY DEF Opens
<1>4. \A o : Jump(o, new) => Fresh(o, new)
  BY Zenon DEF Jump, Fresh
<1>5. \A e : Fresh(Op("indexError", e), new) /\ Fresh(Op("unreachable", e), new)
  <2>1. <<>> \in Seq(new)
    OBVIOUS
  <2>2. \A n, e : Op(n, e).op = n /\ Op(n, e).to = <<>>
    BY DEF Op
  <2> QED
    BY <2>1, <2>2, Zenon DEF Fresh
<1>6. CASE y = b
  <2>1. Len(d[b]) = i /\ (\A m \in 1..(i - 1) : d[b][m] = c[b][m]) /\ Jump(d[b][i], new)
    BY <1>2, <1>3 DEF Opened, EndsWithJump
  <2>2. CASE l = i
    BY <1>2, <1>4, <1>6, <2>1, <2>2
  <2>3. CASE l # i
    <3>1. l \in 1..(i - 1) /\ l \in 1..Len(c[b]) /\ l < i
      BY <1>1, <1>6, <2>1, <2>3
    <3>2. Kin(c, d, b, i, y, l, b, l)
      BY <1>1, <1>6, <2>1, <3>1 DEF Kin
    <3> QED
      BY <3>2
  <2> QED
    BY <2>2, <2>3
<1>7. CASE y = Len(c) + 1
  <2>1. l \in 1..(Len(c[b]) - i) /\ d[y][l] = c[b][i + l]
    BY <1>3, <1>7 DEF Opened
  <2>2. i + l \in 1..Len(c[b])
    BY <1>1, <2>1
  <2>3. Kin(c, d, b, i, y, l, b, i + l)
    BY <1>1, <1>7, <2>1, <2>2 DEF Kin
  <2> QED
    BY <2>3
<1>8. ASSUME y # b, y \in 1..Len(c), d[y] = c[y]
      PROVE  Kin(c, d, b, i, y, l, y, l)
  BY <1>8 DEF Kin
<1>9. CASE y \in arms
  <2>1. CASE d[y] = c[y]
    BY <1>1, <1>8, <1>9, <2>1
  <2>2. CASE EndsWithJump(c[y], d[y], Len(c[y]), new)
    <3>1. /\ Len(d[y]) = Len(c[y]) /\ (\A m \in 1..(Len(c[y]) - 1) : d[y][m] = c[y][m])
          /\ Jump(d[y][Len(c[y])], new)
      BY <2>2 DEF EndsWithJump
    <3>2. CASE l = Len(c[y])
      BY <1>2, <1>4, <3>1, <3>2
    <3>3. CASE l # Len(c[y])
      <4>1. l \in 1..(Len(c[y]) - 1) /\ l \in 1..Len(c[y]) /\ y # b /\ y \in 1..Len(c)
        BY <1>1, <1>9, <3>1, <3>3
      <4>2. Kin(c, d, b, i, y, l, y, l)
        BY <3>1, <4>1 DEF Kin
      <4> QED
        BY <4>2
    <3> QED
      BY <3>2, <3>3
  <2> QED
    BY <1>2, <1>3, <1>9, <2>1, <2>2 DEF Opened
<1>10. CASE y \in (Len(c) + 2)..Len(d)
  <2>1. Len(d[y]) = 2 /\ d[y][1] = Op("indexError", "") /\ d[y][2] = Op("unreachable", "")
    BY <1>3, <1>10 DEF Opened
  <2>2. l = 1 \/ l = 2
    <3>1. l \in 1..2
      BY <2>1
    <3> QED
      BY ONLY <3>1
  <2> QED
    BY <1>2, <1>5, <2>1, <2>2
<1>11. CASE y \in 1..Len(c) /\ y # b /\ y \notin arms
  <2>1. d[y] = c[y]
    BY <1>3, <1>11 DEF Opened
  <2> QED
    BY <1>8, <1>11, <2>1
<1>12. y \in (Len(c) + 2)..Len(d) \/ y = Len(c) + 1 \/ y \in 1..Len(c)
  BY <1>1
<1> QED
  BY <1>6, <1>7, <1>9, <1>10, <1>11, <1>12

LEMMA FreshFacts ==
  ASSUME NEW o, NEW new, Fresh(o, new)
  PROVE  /\ o.op \notin RegionOps /\ o.op \notin CMinusOps /\ RegionsOK(o)
         /\ o.op # "get_global" /\ o.op \notin {"return", "cminus.return"}
<1>1. o.op \in {"br", "condbr", "indexError", "unreachable"}
  BY DEF Fresh
<1> QED
  BY <1>1, Zenon DEF RegionOps, CMinusOps, RegionsOK

(* The regions that are left are those that were there, but for those of   *)
(* the operation.                                                          *)
LEMMA OpensHolds ==
  ASSUME NEW c, NEW s, NEW d, NEW t, NEW b, NEW i, NEW arms, NEW void,
         Typed(c, s), Ordered(c, s, void), Opens(c, s, d, t, b, i, arms),
         NEW y, NEW l, NEW k, Holds(d, y, l, k)
  PROVE  \E x, j : /\ Kin(c, d, b, i, y, l, x, j) /\ Holds(c, x, j, k)
                   /\ Held(d, y, l, k) = Held(c, x, j, k) /\ d[y][l].op = c[x][j].op
<1>1. y \in 1..Len(d) /\ l \in 1..Len(d[y]) /\ d[y][l].op \in RegionOps
  BY DEF Holds
<1>2. PICK x, j : Kin(c, d, b, i, y, l, x, j)
  BY <1>1, OpensOps, FreshFacts, Zenon
<1>3. x \in 1..Len(c) /\ j \in 1..Len(c[x]) /\ d[y][l] = c[x][j]
  BY <1>2 DEF Kin
<1>4. Holds(c, x, j, k) /\ Held(d, y, l, k) = Held(c, x, j, k)
  BY <1>3 DEF Holds, Held
<1> QED
  BY <1>2, <1>3, <1>4

LEMMA OpensKeeps ==
  ASSUME NEW c, NEW s, NEW d, NEW t, NEW b, NEW i, NEW arms, NEW void,
         Typed(c, s), Ordered(c, s, void), Opens(c, s, d, t, b, i, arms),
         NEW x, NEW j, NEW k, Holds(c, x, j, k)
  PROVE  \/ x = b /\ j = i /\ Held(c, x, j, k) \in arms
         \/ \E y, l : Holds(d, y, l, k) /\ Held(d, y, l, k) = Held(c, x, j, k)
<1>1. /\ Len(c) \in Nat /\ Len(d) \in Nat /\ Len(c) < Len(d)
      /\ b \in 1..Len(c) /\ Len(c[b]) \in Nat
      /\ i \in Nat /\ 1 <= i /\ i < Len(c[b])
      /\ b \notin arms
      /\ \A a \in arms : /\ a \in 1..Len(c) /\ Len(c[a]) \in Nat /\ 1 <= Len(c[a])
                         /\ c[a][Len(c[a])].op \in Terminators
  BY OpensFacts
<1>2. x \in 1..Len(c) /\ j \in 1..Len(c[x]) /\ k \in 1..Len(c[x][j].to)
      /\ c[x][j].op \in RegionOps
  BY DEF Holds
<1>3. Opened(c, d, b, i, arms)
  BY DEF Opens
<1>4. ASSUME NEW y, NEW l, y \in 1..Len(d), l \in 1..Len(d[y]), d[y][l] = c[x][j]
      PROVE  Holds(d, y, l, k) /\ Held(d, y, l, k) = Held(c, x, j, k)
  BY <1>2, <1>4 DEF Holds, Held
<1>5. CASE x = b /\ j = i
  BY <1>5 DEF Opens
<1>6. CASE x = b /\ j < i
  <2>1. Len(d[b]) = i /\ (\A m \in 1..(i - 1) : d[b][m] = c[b][m])
    BY <1>3 DEF Opened, EndsWithJump
  <2>2. j \in 1..(i - 1) /\ j \in 1..i /\ b \in 1..Len(d)
    BY <1>1, <1>2, <1>6
  <2> QED
    BY <1>4, <1>6, <2>1, <2>2
<1>7. CASE x = b /\ i < j
  <2>1. PICK l : l = j - i
    OBVIOUS
  <2>2. l \in 1..(Len(c[b]) - i) /\ i + l = j /\ Len(c) + 1 \in 1..Len(d)
    BY <1>1, <1>2, <1>7, <2>1
  <2>3. Len(d[Len(c) + 1]) = Len(c[b]) - i /\ d[Len(c) + 1][l] = c[b][j]
    BY <1>3, <2>2 DEF Opened
  <2> QED
    BY <1>4, <1>7, <2>2, <2>3
<1>8. CASE x # b
  <2>1. x \in 1..Len(d)
    BY <1>1, <1>2
  <2>2. CASE d[x] = c[x]
    BY <1>2, <1>4, <2>1, <2>2
  <2>3. CASE x \in arms /\ EndsWithJump(c[x], d[x], Len(c[x]), New(c, d, arms))
    <3>1. Len(d[x]) = Len(c[x]) /\ \A m \in 1..(Len(c[x]) - 1) : d[x][m] = c[x][m]
      BY <2>3 DEF EndsWithJump
    <3>2. j # Len(c[x])
      BY <1>1, <1>2, <2>3, NamesApart
    <3>3. j \in 1..(Len(c[x]) - 1)
      BY <1>1, <1>2, <2>3, <3>2
    <3> QED
      BY <1>2, <1>4, <2>1, <3>1, <3>3
  <2> QED
    BY <1>2, <1>3, <1>8, <2>2, <2>3 DEF Opened
<1>9. j = i \/ j < i \/ i < j
  BY <1>1, <1>2
<1> QED
  BY <1>5, <1>6, <1>7, <1>8, <1>9


LEMMA OpensTyped ==
  ASSUME NEW c, NEW s, NEW d, NEW t, NEW b, NEW i, NEW arms, NEW void,
         Typed(c, s), Ordered(c, s, void), Opens(c, s, d, t, b, i, arms)
  PROVE  Typed(d, t)
<1>1. Len(c) \in Nat /\ Len(d) \in Nat /\ Len(c) < Len(d) /\ \A a \in arms : a \in 1..Len(c)
  BY OpensFacts
<1>2. New(c, d, arms) \subseteq 1..Len(d) /\ 1..Len(c) \subseteq 1..Len(d)
  BY <1>1 DEF New
<1>3. \A S, T : S \subseteq T => Seq(S) \subseteq Seq(T)
  BY MoreFacts
<1>4. ASSUME NEW y \in 1..Len(d), NEW l \in 1..Len(d[y])
      PROVE  d[y][l].to \in Seq(1..Len(d)) /\ RegionsOK(d[y][l])
  <2>1. CASE Fresh(d[y][l], New(c, d, arms))
    <3>1. d[y][l].to \in Seq(New(c, d, arms))
      BY <2>1 DEF Fresh
    <3>2. Seq(New(c, d, arms)) \subseteq Seq(1..Len(d))
      BY <1>2, <1>3
    <3> QED
      BY <2>1, <3>1, <3>2, FreshFacts
  <2>2. ASSUME NEW x, NEW j, Kin(c, d, b, i, y, l, x, j)
        PROVE  d[y][l].to \in Seq(1..Len(d)) /\ RegionsOK(d[y][l])
    <3>1. c[x][j].to \in Seq(1..Len(c)) /\ RegionsOK(c[x][j]) /\ d[y][l] = c[x][j]
      BY <2>2 DEF Kin, Typed
    <3>2. Seq(1..Len(c)) \subseteq Seq(1..Len(d))
      BY <1>2, <1>3
    <3> QED
      BY <3>1, <3>2
  <2> QED
    BY <2>1, <2>2, OpensOps
<1> QED
  BY <1>4 DEF Typed, Opens

LEMMA OpensPlaced ==
  ASSUME NEW c, NEW s, NEW d, NEW t, NEW b, NEW i, NEW arms, NEW void,
         Typed(c, s), Ordered(c, s, void), Opens(c, s, d, t, b, i, arms)
  PROVE  /\ \A x : Placed(c, s, x) => Placed(d, t, x)
         /\ \A y : Placed(d, t, y) => Placed(c, s, y) \/ y \in (Len(c) + 1)..Len(d)
<1>1. ToSet(t) = ToSet(s) \union New(c, d, arms)
  BY DEF Opens
<1>2. ASSUME NEW x, NEW j, NEW k, Holds(c, x, j, k)
      PROVE  Placed(d, t, Held(c, x, j, k))
  <2>1. CASE Held(c, x, j, k) \in arms
    BY <1>1, <2>1 DEF Placed, New
  <2>2. ASSUME NEW y, NEW l, Holds(d, y, l, k), Held(d, y, l, k) = Held(c, x, j, k)
        PROVE  Placed(d, t, Held(c, x, j, k))
    BY <2>2 DEF Placed
  <2> QED
    BY <1>2, <2>1, <2>2, OpensKeeps
<1>3. ASSUME NEW x, Placed(c, s, x)
      PROVE  Placed(d, t, x)
  <2>1. CASE x \in ToSet(s)
    BY <1>1, <2>1 DEF Placed
  <2>2. CASE x \notin ToSet(s)
    BY <1>2, <1>3, <2>2 DEF Placed
  <2> QED
    BY <2>1, <2>2
<1>4. ASSUME NEW a \in arms
      PROVE  Placed(c, s, a)
  BY DEF Opens, Placed
<1>5. ASSUME NEW y, NEW l, NEW k, Holds(d, y, l, k)
      PROVE  Placed(c, s, Held(d, y, l, k))
  <2>1. PICK x, j : Holds(c, x, j, k) /\ Held(d, y, l, k) = Held(c, x, j, k)
    BY <1>5, OpensHolds
  <2> QED
    BY <2>1 DEF Placed
<1>6. ASSUME NEW y, Placed(d, t, y)
      PROVE  Placed(c, s, y) \/ y \in (Len(c) + 1)..Len(d)
  <2>1. CASE y \in ToSet(t)
    BY <1>1, <1>4, <2>1 DEF New, Placed
  <2>2. CASE y \notin ToSet(t)
    BY <1>5, <1>6, <2>2 DEF Placed
  <2> QED
    BY <2>1, <2>2
<1> QED
  BY <1>3, <1>6

LEMMA OpensNested ==
  ASSUME NEW c, NEW s, NEW d, NEW t, NEW b, NEW i, NEW arms, NEW void,
         Typed(c, s), Ordered(c, s, void), Opens(c, s, d, t, b, i, arms),
         NEW rank, Nested(c, s, rank)
  PROVE  \E high : Nested(d, t, high)
<1>1. Len(c) \in Nat /\ Len(d) \in Nat /\ Len(c) < Len(d) /\ b \in 1..Len(c)
  BY OpensFacts
<1>2. PICK high : high = [y \in 1..Len(d) |-> IF y \in 1..Len(c) THEN rank[y] ELSE rank[b]]
  OBVIOUS
<1>3. rank \in [1..Len(c) -> Nat]
  BY DEF Nested
<1>4. high \in [1..Len(d) -> Nat]
  BY <1>1, <1>2, <1>3
<1>5. \A y \in 1..Len(c) : high[y] = rank[y]
  BY <1>1, <1>2
<1>6. high[Len(c) + 1] = rank[b]
  <2>1. Len(c) + 1 \in 1..Len(d) /\ Len(c) + 1 \notin 1..Len(c)
    BY <1>1
  <2> QED
    BY <1>2, <2>1
<1>7. ASSUME NEW y, NEW l, NEW k, Holds(d, y, l, k)
      PROVE  Placed(d, t, y) /\ high[y] < high[Held(d, y, l, k)]
  <2>1. PICK x, j : Kin(c, d, b, i, y, l, x, j) /\ Holds(c, x, j, k)
                    /\ Held(d, y, l, k) = Held(c, x, j, k)
    BY <1>7, OpensHolds
  <2>2. Placed(c, s, x) /\ rank[x] < rank[Held(c, x, j, k)]
    BY <2>1 DEF Nested
  <2>3. x \in 1..Len(c) /\ Held(c, x, j, k) \in 1..Len(c)
    BY <2>1, TypedFacts
  <2>4. high[y] = rank[x]
    BY <1>5, <1>6, <2>1, <2>3 DEF Kin
  <2>5. Placed(d, t, y)
    <3>1. CASE y = x
      BY <2>2, <3>1, OpensPlaced
    <3>2. CASE y = Len(c) + 1
      BY <3>2, OpensFacts DEF Placed
    <3> QED
      BY <2>1, <3>1, <3>2 DEF Kin
  <2> QED
    BY <1>5, <2>1, <2>2, <2>3, <2>4, <2>5
<1>8. Nested(d, t, high)
  BY <1>4, <1>7 DEF Nested
<1> QED
  BY <1>8

LEMMA OpensSingle ==
  ASSUME NEW c, NEW s, NEW d, NEW t, NEW b, NEW i, NEW arms, NEW void,
         Typed(c, s), Ordered(c, s, void), Opens(c, s, d, t, b, i, arms), Single(c)
  PROVE  Single(d)
<1> SUFFICES ASSUME NEW y, NEW l, NEW k, NEW z, NEW m, NEW h,
                    Holds(d, y, l, k), Holds(d, z, m, h), Held(d, y, l, k) = Held(d, z, m, h)
             PROVE  y = z /\ l = m /\ k = h
  BY Zenon DEF Single
<1>1. PICK x, j : Kin(c, d, b, i, y, l, x, j) /\ Holds(c, x, j, k)
                  /\ Held(d, y, l, k) = Held(c, x, j, k)
  BY OpensHolds
<1>2. PICK w, n : Kin(c, d, b, i, z, m, w, n) /\ Holds(c, w, n, h)
                  /\ Held(d, z, m, h) = Held(c, w, n, h)
  BY OpensHolds
<1>3. x = w /\ j = n /\ k = h
  BY <1>1, <1>2 DEF Single
<1>4. /\ Len(c) \in Nat /\ i \in Nat
      /\ y \in 1..Len(d) /\ l \in 1..Len(d[y]) /\ z \in 1..Len(d) /\ m \in 1..Len(d[z])
      /\ x \in 1..Len(c) /\ j \in Nat
  <2>1. Len(c[x]) \in Nat /\ j \in 1..Len(c[x]) /\ x \in 1..Len(c)
    BY <1>1, TypedFacts
  <2> QED
    BY <2>1, OpensFacts DEF Holds
<1>5. /\ (y = x /\ l = j /\ (x # b \/ j < i)) \/ (y = Len(c) + 1 /\ x = b /\ j = i + l)
      /\ (z = x /\ m = j /\ (x # b \/ j < i)) \/ (z = Len(c) + 1 /\ x = b /\ j = i + m)
  BY <1>1, <1>2, <1>3 DEF Kin
<1>6. l \in Nat /\ m \in Nat /\ 1 <= l /\ 1 <= m
  BY <1>4
<1>7. y = z /\ l = m
  BY ONLY <1>4, <1>5, <1>6
<1> QED
  BY <1>3, <1>7


LEMMA TerminatorFacts ==
  /\ \A o, S, T : S \subseteq T /\ TerminatorOK(o, TRUE, S, "func.func", 1)
       => TerminatorOK(o, TRUE, T, "func.func", 1)
  /\ \A o, new, T : new \subseteq T /\ Jump(o, new) => TerminatorOK(o, TRUE, T, "func.func", 1)
  /\ \A o, holder, k, T :
       /\ TerminatorOK(o, FALSE, {}, holder, k)
       /\ o.op \notin {"cminus.yield", "cminus.condition"}
       => TerminatorOK(o, TRUE, T, "func.func", 1)
  /\ \A e, T : TerminatorOK(Op("unreachable", e), TRUE, T, "func.func", 1)
<1>1. ASSUME NEW o, NEW S, NEW T, S \subseteq T, TerminatorOK(o, TRUE, S, "func.func", 1)
      PROVE  TerminatorOK(o, TRUE, T, "func.func", 1)
  BY <1>1 DEF TerminatorOK
<1>2. ASSUME NEW o, NEW new, NEW T, new \subseteq T, Jump(o, new)
      PROVE  TerminatorOK(o, TRUE, T, "func.func", 1)
  <2>1. o.op \in {"br", "condbr"} /\ o.to \in Seq(new)
    BY <1>2 DEF Jump
  <2>2. ToSet(o.to) \subseteq T
    BY <1>2, <2>1, ElementOfSeq, LenProperties DEF ToSet
  <2> QED
    BY <2>1, <2>2 DEF TerminatorOK
<1>3. ASSUME NEW o, NEW holder, NEW k, NEW T, TerminatorOK(o, FALSE, {}, holder, k),
             o.op \notin {"cminus.yield", "cminus.condition"}
      PROVE  TerminatorOK(o, TRUE, T, "func.func", 1)
  BY <1>3 DEF TerminatorOK
<1>4. ASSUME NEW e, NEW T
      PROVE  TerminatorOK(Op("unreachable", e), TRUE, T, "func.func", 1)
  BY DEF TerminatorOK, Op
<1> QED
  BY <1>1, <1>2, <1>3, <1>4, Zenon

LEMMA TailSet ==
  ASSUME NEW S, NEW s \in Seq(S), s # <<>>, IsInjective(s)
  PROVE  ToSet(Tail(s)) = ToSet(s) \ {s[1]}
<1>1. Len(s) \in Nat /\ Len(s) >= 1 /\ DOMAIN s = 1..Len(s)
  BY LenProperties, EmptySeq
<1>2. /\ Tail(s) \in Seq(S) /\ Len(Tail(s)) = Len(s) - 1
      /\ \A i \in 1..(Len(s) - 1) : Tail(s)[i] = s[i + 1]
  BY <1>1
<1>3. DOMAIN Tail(s) = 1..(Len(s) - 1)
  BY <1>2, LenProperties
<1>4. \A i, j \in 1..Len(s) : s[i] = s[j] => i = j
  BY <1>1 DEF IsInjective
<1>5. ASSUME NEW x \in ToSet(s) \ {s[1]}
      PROVE  x \in ToSet(Tail(s))
  <2>1. PICK i \in 1..Len(s) : x = s[i]
    BY <1>1 DEF ToSet
  <2>2. i # 1
    BY <2>1
  <2>3. i - 1 \in 1..(Len(s) - 1) /\ i - 1 + 1 = i
    BY <1>1, <2>2
  <2>4. x = Tail(s)[i - 1]
    BY <1>2, <2>1, <2>3
  <2> QED
    BY <1>3, <2>3, <2>4 DEF ToSet
<1>6. ASSUME NEW x \in ToSet(Tail(s))
      PROVE  x \in ToSet(s) \ {s[1]}
  <2>1. PICK i \in 1..(Len(s) - 1) : x = Tail(s)[i]
    BY <1>3 DEF ToSet
  <2>2. i + 1 \in 1..Len(s) /\ 1 \in 1..Len(s) /\ i + 1 # 1
    BY <1>1
  <2>3. x = s[i + 1]
    BY <1>2, <2>1
  <2>4. x # s[1]
    BY <1>4, <2>2, <2>3
  <2> QED
    BY <1>1, <2>2, <2>3, <2>4 DEF ToSet
<1> QED
  BY <1>5, <1>6

(* A block of the body, behind such a step.                                *)
LEMMA OpensBlock ==
  ASSUME NEW c, NEW s, NEW d, NEW t, NEW b, NEW i, NEW arms, NEW void,
         Typed(c, s), Ordered(c, s, void), Opens(c, s, d, t, b, i, arms),
         NEW y \in ToSet(t)
  PROVE  BlockOK(d[y]) /\ TerminatorOK(Last(d[y]), TRUE, ToSet(Tail(t)), "func.func", 1)
<1>1. /\ Len(c) \in Nat /\ Len(d) \in Nat /\ Len(c) < Len(d)
      /\ b \in 1..Len(c) /\ Len(c[b]) \in Nat
      /\ i \in Nat /\ 1 <= i /\ i < Len(c[b])
      /\ b \notin arms
      /\ \A a \in arms :
           /\ a \in 1..Len(c) /\ a \notin ToSet(s)
           /\ Len(c[a]) \in Nat /\ 1 <= Len(c[a])
           /\ c[a][Len(c[a])].op \in Terminators
  BY OpensFacts
<1>2. Opened(c, d, b, i, arms)
  BY DEF Opens
<1>3. PICK new, others : new = New(c, d, arms) /\ others = ToSet(Tail(t))
  OBVIOUS
<1>4. ToSet(s) \subseteq 1..Len(c) /\ s[1] \in ToSet(s)
  <2>1. Len(s) \in Nat \ {0} /\ s \in Seq(1..Len(c))
    BY TypedFacts DEF Typed
  <2>2. 1 \in DOMAIN s
    BY <2>1, LenProperties
  <2> QED
    BY <2>2, TypedFacts DEF ToSet
<1>5. others = (ToSet(s) \union new) \ {s[1]}
  BY <1>3, TailSet DEF Opens
<1>6. new \subseteq others /\ ToSet(Tail(s)) \subseteq others
  <2>1. ToSet(Tail(s)) = ToSet(s) \ {s[1]}
    BY TailSet DEF Typed
  <2>2. s[1] \notin new
    BY <1>1, <1>3, <1>4 DEF New
  <2> QED
    BY <1>5, <2>1, <2>2
<1>7. y \in ToSet(s) \/ y \in arms \/ y \in (Len(c) + 1)..Len(d)
  BY DEF Opens, New
<1>8. y \in 1..Len(d)
  BY <1>1, <1>4, <1>7
<1>9. d[y] \in Seq(Operation)
  BY <1>8, ElementOfSeq DEF Opens
<1>10. \A x \in ToSet(s) : /\ c[x] # <<>>
                           /\ \A l \in 1..Len(c[x]) : c[x][l].op \in Terminators <=> l = Len(c[x])
                           /\ TerminatorOK(c[x][Len(c[x])], TRUE, ToSet(Tail(s)), "func.func", 1)
  BY DEF Ordered, BlockOK, Last
<1>11. \A o : Jump(o, new) => o.op \in Terminators /\ TerminatorOK(o, TRUE, others, "func.func", 1)
  BY <1>6, TerminatorFacts, NamesApart, Zenon DEF Jump
<1>12. ASSUME NEW m \in Nat \ {0}, Len(d[y]) = m,
              \A l \in 1..(m - 1) : d[y][l].op \notin Terminators,
              d[y][m].op \in Terminators, TerminatorOK(d[y][m], TRUE, others, "func.func", 1)
       PROVE  BlockOK(d[y]) /\ TerminatorOK(Last(d[y]), TRUE, others, "func.func", 1)
  <2>1. d[y] # <<>>
    BY <1>12
  <2>2. ASSUME NEW l \in 1..Len(d[y])
        PROVE  d[y][l].op \in Terminators <=> l = Len(d[y])
    <3>1. l = m \/ l \in 1..(m - 1)
      BY <1>12
    <3>2. CASE l = m
      BY <1>12, <3>2
    <3>3. CASE l \in 1..(m - 1)
      <4>1. l # m
        BY <3>3
      <4> QED
        BY <1>12, <3>3, <4>1
    <3> QED
      BY <3>1, <3>2, <3>3
  <2> QED
    BY <1>12, <2>1, <2>2 DEF BlockOK, Last
<1>13. CASE y = b
  <2>1. Len(d[b]) = i /\ (\A m \in 1..(i - 1) : d[b][m] = c[b][m]) /\ Jump(d[b][i], new)
    BY <1>2, <1>3 DEF Opened, EndsWithJump
  <2>2. \A m \in 1..(i - 1) : m \in 1..Len(c[b]) /\ m # Len(c[b])
    BY <1>1
  <2>3. \A m \in 1..(i - 1) : d[b][m].op \notin Terminators
    BY <1>10, <2>1, <2>2 DEF Opens
  <2>4. i \in Nat \ {0}
    BY <1>1
  <2> QED
    BY <1>3, <1>11, <1>12, <1>13, <2>1, <2>3, <2>4
<1>14. CASE y = Len(c) + 1
  <2>1. PICK m : m = Len(c[b]) - i
    OBVIOUS
  <2>2. Len(d[y]) = m /\ \A l \in 1..m : d[y][l] = c[b][i + l]
    BY <1>2, <1>14, <2>1 DEF Opened
  <2>3. m \in Nat \ {0} /\ i + m = Len(c[b]) /\ m \in 1..m
    BY <1>1, <2>1
  <2>4. \A l \in 1..(m - 1) : l \in 1..m /\ i + l \in 1..Len(c[b]) /\ i + l # Len(c[b])
    BY <1>1, <2>1
  <2>5. b \in ToSet(s) /\ Len(c[b]) \in 1..Len(c[b])
    BY <1>1 DEF Opens
  <2>6. \A l \in 1..(m - 1) : d[y][l].op \notin Terminators
    <3> SUFFICES ASSUME NEW l \in 1..(m - 1) PROVE d[y][l].op \notin Terminators
      OBVIOUS
    <3>1. PICK j : j = i + l
      OBVIOUS
    <3>2. d[y][l] = c[b][j] /\ j \in 1..Len(c[b]) /\ j # Len(c[b])
      BY <2>2, <2>4, <3>1
    <3> QED
      BY <1>10, <2>5, <3>2
  <2>7. d[y][m] = c[b][Len(c[b])]
    BY <2>2, <2>3
  <2>8. d[y][m].op \in Terminators /\ TerminatorOK(d[y][m], TRUE, others, "func.func", 1)
    BY <1>6, <1>10, <2>5, <2>7, TerminatorFacts
  <2> QED
    BY <1>3, <1>12, <2>2, <2>3, <2>6, <2>8
<1>15. CASE y \in (Len(c) + 2)..Len(d)
  <2>1. Len(d[y]) = 2 /\ d[y][1] = Op("indexError", "") /\ d[y][2] = Op("unreachable", "")
    BY <1>2, <1>15 DEF Opened
  <2>2. d[y][1].op = "indexError" /\ d[y][2].op = "unreachable"
    <3>1. \A n, e : Op(n, e).op = n
      BY DEF Op
    <3> QED
      BY <2>1, <3>1, Zenon
  <2>3. \A l \in 1..(2 - 1) : d[y][l].op \notin Terminators
    BY <2>2, NamesApart
  <2>4. d[y][2].op \in Terminators /\ TerminatorOK(d[y][2], TRUE, others, "func.func", 1)
    BY <2>1, <2>2, NamesApart, TerminatorFacts
  <2>5. 2 \in Nat \ {0}
    OBVIOUS
  <2> QED
    BY <1>3, <1>12, <2>1, <2>3, <2>4, <2>5
<1>16. CASE y \in arms
  <2>1. PICK k : Holds(c, b, i, k) /\ y = Held(c, b, i, k)
    BY <1>16 DEF Opens
  <2>2. BlockOK(c[y]) /\ TerminatorOK(Last(c[y]), FALSE, {}, c[b][i].op, k)
    BY <2>1 DEF Ordered
  <2>3. PICK m : m = Len(c[y])
    OBVIOUS
  <2>4. m \in Nat \ {0} /\ m \in 1..m
    BY <1>1, <1>16, <2>3
  <2>5. /\ \A l \in 1..m : c[y][l].op \in Terminators <=> l = m
        /\ TerminatorOK(c[y][m], FALSE, {}, c[b][i].op, k)
    BY <2>2, <2>3 DEF BlockOK, Last
  <2>6. \A l \in 1..(m - 1) : l \in 1..m /\ l # m
    BY <2>4
  <2>7. CASE d[y] = c[y] /\ Last(c[y]).op \notin {"cminus.yield", "cminus.condition"}
    <3>1. TerminatorOK(d[y][m], TRUE, others, "func.func", 1)
      BY <2>3, <2>5, <2>7, TerminatorFacts, Zenon DEF Last
    <3> QED
      BY <1>3, <1>12, <2>3, <2>4, <2>5, <2>6, <2>7, <3>1
  <2>8. CASE EndsWithJump(c[y], d[y], m, new)
    <3>1. Len(d[y]) = m /\ (\A l \in 1..(m - 1) : d[y][l] = c[y][l]) /\ Jump(d[y][m], new)
      BY <2>8 DEF EndsWithJump
    <3> QED
      BY <1>3, <1>11, <1>12, <2>4, <2>5, <2>6, <3>1
  <2> QED
    BY <1>2, <1>3, <1>16, <2>3, <2>7, <2>8 DEF Opened
<1>17. CASE y \in ToSet(s) /\ y # b
  <2>1. d[y] = c[y]
    BY <1>1, <1>2, <1>4, <1>17 DEF Opened
  <2>2. BlockOK(c[y]) /\ TerminatorOK(Last(c[y]), TRUE, ToSet(Tail(s)), "func.func", 1)
    BY <1>17 DEF Ordered
  <2> QED
    BY <1>3, <1>6, <2>1, <2>2, TerminatorFacts
<1>18. y \in (Len(c) + 1)..Len(d) => y = Len(c) + 1 \/ y \in (Len(c) + 2)..Len(d)
  BY <1>1
<1> QED
  BY <1>7, <1>13, <1>14, <1>15, <1>16, <1>17, <1>18

LEMMA OpensOrdered ==
  ASSUME NEW c, NEW s, NEW d, NEW t, NEW b, NEW i, NEW arms, NEW void,
         Typed(c, s), Ordered(c, s, void), Single(c), Opens(c, s, d, t, b, i, arms)
  PROVE  Ordered(d, t, void)
<1>1. /\ Len(c) \in Nat /\ Len(d) \in Nat /\ Len(c) < Len(d) /\ b \in 1..Len(c)
      /\ \A a \in arms : a \in 1..Len(c)
  BY OpensFacts
<1>2. ASSUME NEW y, Placed(d, t, y), NEW l \in 1..Len(d[y])
      PROVE  /\ d[y][l].op = "get_global" => d[y][l].arg \in Globals
             /\ d[y][l].op \in {"return", "cminus.return"} => (d[y][l].arg = "void" <=> void)
  <2>1. y \in 1..Len(d)
    BY <1>2, OpensTyped, TypedFacts
  <2>2. CASE Fresh(d[y][l], New(c, d, arms))
    BY <2>2, FreshFacts
  <2>3. ASSUME NEW x, NEW j, Kin(c, d, b, i, y, l, x, j)
        PROVE  /\ d[y][l].op = "get_global" => d[y][l].arg \in Globals
               /\ d[y][l].op \in {"return", "cminus.return"} => (d[y][l].arg = "void" <=> void)
    <3>1. x \in 1..Len(c) /\ j \in 1..Len(c[x]) /\ d[y][l] = c[x][j] /\ (x = y \/ x = b)
      BY <2>3 DEF Kin
    <3>2. Placed(c, s, x)
      <4>1. CASE x = b
        BY <4>1 DEF Opens, Placed
      <4>2. CASE x = y
        <5>1. y \notin (Len(c) + 1)..Len(d)
          BY <1>1, <3>1, <4>2
        <5> QED
          BY <1>2, <4>2, <5>1, OpensPlaced
      <4> QED
        BY <3>1, <4>1, <4>2
    <3>3. GlobalsExist(c[x], Globals) /\ ReturnsOK(c[x], void)
      BY <3>2 DEF Ordered
    <3> QED
      BY <3>1, <3>3 DEF GlobalsExist, ReturnsOK
  <2> QED
    BY <2>1, <2>2, <2>3, OpensOps
<1>3. ASSUME NEW y, Placed(d, t, y)
      PROVE  GlobalsExist(d[y], Globals) /\ ReturnsOK(d[y], void)
  BY <1>2, <1>3 DEF GlobalsExist, ReturnsOK
<1>4. \A y \in ToSet(t) :
        BlockOK(d[y]) /\ TerminatorOK(Last(d[y]), TRUE, ToSet(Tail(t)), "func.func", 1)
  BY OpensBlock
<1>5. ASSUME NEW y, NEW l, NEW k, Holds(d, y, l, k)
      PROVE  /\ Held(d, y, l, k) \notin ToSet(t)
             /\ BlockOK(d[Held(d, y, l, k)])
             /\ TerminatorOK(Last(d[Held(d, y, l, k)]), FALSE, {}, d[y][l].op, k)
  <2>1. PICK x, j : /\ Kin(c, d, b, i, y, l, x, j) /\ Holds(c, x, j, k)
                    /\ Held(d, y, l, k) = Held(c, x, j, k) /\ d[y][l].op = c[x][j].op
    BY <1>5, OpensHolds
  <2>2. PICK z : z = Held(d, y, l, k)
    OBVIOUS
  <2>3. z \in 1..Len(c) /\ z \notin ToSet(s) /\ BlockOK(c[z])
        /\ TerminatorOK(Last(c[z]), FALSE, {}, d[y][l].op, k)
    BY <2>1, <2>2, TypedFacts DEF Ordered
  <2>4. x # b \/ j # i
    <3>1. l \in 1..Len(d[y]) /\ y \in 1..Len(d)
      BY <1>5 DEF Holds
    <3>2. i \in Nat /\ l \in Nat /\ 1 <= l
      BY <3>1, OpensFacts
    <3>3. j < i \/ x # b \/ j = i + l
      BY <2>1 DEF Kin
    <3> QED
      BY ONLY <3>2, <3>3
  <2>5. z \notin arms
    <3> SUFFICES ASSUME z \in arms PROVE FALSE
      OBVIOUS
    <3>1. PICK m : Holds(c, b, i, m) /\ z = Held(c, b, i, m)
      BY DEF Opens
    <3> QED
      BY <2>1, <2>2, <2>4, <3>1 DEF Single
  <2>6. d[z] = c[z]
    <3>1. z # b
      BY <2>3 DEF Opens
    <3> QED
      BY <2>3, <2>5, <3>1 DEF Opens, Opened
  <2>7. z \notin ToSet(t)
    <3>1. z \notin (Len(c) + 1)..Len(d)
      BY <1>1, <2>3
    <3> QED
      BY <2>3, <2>5, <3>1 DEF Opens, New
  <2> QED
    BY <2>2, <2>3, <2>6, <2>7
<1> QED
  BY <1>3, <1>4, <1>5, Zenon DEF Ordered


-----------------------------------------------------------------------------
(* Where the patterns put blocks.                                          *)
LEMMA InlinedFacts ==
  ASSUME NEW S, body \in Seq(S), IsInjective(body), NEW b \in ToSet(body),
         NEW blocks \in Seq(S), IsInjective(blocks), ToSet(blocks) \cap ToSet(body) = {},
         NEW t, t = Inlined(b, blocks)
  PROVE  /\ t \in Seq(S) /\ t # <<>> /\ IsInjective(t)
         /\ ToSet(t) = ToSet(body) \union ToSet(blocks) /\ t[1] = body[1]
<1>1. PICK n \in Nat : n = Len(body) /\ DOMAIN body = 1..n
  BY LenProperties
<1>2. PICK k \in Nat : k = Len(blocks) /\ DOMAIN blocks = 1..k
  BY LenProperties
<1>3. PICK at \in 1..n : at = (CHOOSE m \in 1..Len(body) : body[m] = b)
  <2>1. \E m \in 1..n : body[m] = b
    BY <1>1 DEF ToSet
  <2> QED
    BY <1>1, <2>1
<1>4. PICK u, w : u = SubSeq(body, 1, at) /\ w = SubSeq(body, at + 1, n)
  OBVIOUS
<1>5. t = (u \o blocks) \o w
  BY <1>1, <1>3, <1>4 DEF Inlined
<1>6. \A m \in 1..n : body[m] \in S
  BY <1>1, ElementOfSeq
<1>7. u \in Seq(S) /\ Len(u) = at /\ \A m \in 1..at : u[m] = body[m]
  <2>1. \A m \in 1..at : body[m] \in S
    BY <1>6
  <2>2. 1 \in Int /\ at \in Int /\ 1 <= at
    OBVIOUS
  <2>3. /\ u \in Seq(S) /\ Len(u) = at - 1 + 1
        /\ \A m \in 1..(at - 1 + 1) : u[m] = body[1 + m - 1]
    BY <1>4, <2>1, <2>2, SubSeqProperties
  <2>4. at - 1 + 1 = at /\ \A m \in 1..at : 1 + m - 1 = m
    OBVIOUS
  <2> QED
    BY <2>3, <2>4
<1>8. w \in Seq(S) /\ Len(w) = n - at /\ \A m \in 1..(n - at) : w[m] = body[at + m]
  <2>1. \A m \in (at + 1)..n : body[m] \in S
    BY <1>6
  <2>2. at + 1 \in Int /\ n \in Int /\ n - (at + 1) + 1 = n - at
        /\ (~(at + 1 <= n) => n - at = 0)
    OBVIOUS
  <2>3. /\ w \in Seq(S) /\ Len(w) = n - at
        /\ \A m \in 1..(n - at) : w[m] = body[at + 1 + m - 1]
    BY <1>4, <2>1, <2>2, SubSeqProperties
  <2>4. \A m \in 1..(n - at) : at + 1 + m - 1 = at + m
    OBVIOUS
  <2> QED
    BY <2>3, <2>4
<1>9. PICK v : v = u \o blocks
  OBVIOUS
<1>10. /\ v \in Seq(S) /\ Len(v) = at + k
       /\ \A m \in 1..at : v[m] = body[m]
       /\ \A m \in 1..k : v[at + m] = blocks[m]
  <2>1. u \in Seq(S) /\ blocks \in Seq(S)
    BY <1>7
  <2>2. /\ v \in Seq(S) /\ Len(v) = Len(u) + Len(blocks)
        /\ \A m \in 1..Len(u) : v[m] = u[m]
        /\ \A m \in 1..Len(blocks) : v[Len(u) + m] = blocks[m]
    BY ONLY <2>1, <1>9, JoinFacts
  <2>3. Len(u) = at /\ Len(blocks) = k
    BY <1>2, <1>7
  <2> QED
    BY <1>7, <2>2, <2>3
<1>11. /\ t \in Seq(S) /\ Len(t) = at + k + (n - at)
       /\ \A m \in 1..(at + k) : t[m] = v[m]
       /\ \A m \in 1..(n - at) : t[at + k + m] = body[at + m]
  <2>1. t = v \o w
    BY <1>5, <1>9
  <2>2. v \in Seq(S) /\ w \in Seq(S)
    BY <1>8, <1>10
  <2>3. /\ t \in Seq(S) /\ Len(t) = Len(v) + Len(w)
        /\ \A m \in 1..Len(v) : t[m] = v[m]
        /\ \A m \in 1..Len(w) : t[Len(v) + m] = w[m]
    BY ONLY <2>1, <2>2, JoinFacts
  <2>4. Len(v) = at + k /\ Len(w) = n - at
    BY <1>8, <1>10
  <2>5. \A m \in 1..(n - at) : w[m] = body[at + m]
    BY <1>8
  <2> QED
    BY ONLY <2>3, <2>4, <2>5
<1>12. Len(t) = n + k /\ DOMAIN t = 1..(n + k)
  BY <1>11, LenProperties
<1> DEFINE Old(p) == IF p <= at THEN p ELSE p - k
<1>13. ASSUME NEW p \in 1..(n + k)
       PROVE  \/ p \in (at + 1)..(at + k) /\ t[p] = blocks[p - at] /\ p - at \in 1..k
              \/ /\ p \notin (at + 1)..(at + k) /\ Old(p) \in 1..n /\ t[p] = body[Old(p)]
  <2>1. CASE p <= at
    <3>1. p \in 1..at /\ p \in 1..(at + k) /\ p \notin (at + 1)..(at + k)
      BY <2>1
    <3>2. t[p] = body[p]
      BY <1>10, <1>11, <3>1
    <3> QED
      BY <2>1, <3>1, <3>2
  <2>2. CASE p \in (at + 1)..(at + k)
    <3>1. PICK m : m = p - at
      OBVIOUS
    <3>2. m \in 1..k /\ at + m = p /\ p \in 1..(at + k)
      BY <2>2, <3>1
    <3>3. t[p] = blocks[m]
      BY <1>10, <1>11, <3>2
    <3> QED
      BY <2>2, <3>1, <3>2, <3>3
  <2>3. CASE at + k < p
    <3>1. PICK m : m = p - (at + k)
      OBVIOUS
    <3>2. m \in 1..(n - at) /\ at + k + m = p /\ at + m = p - k
      BY <2>3, <3>1
    <3>3. t[p] = body[p - k]
      BY <1>11, <3>2
    <3>4. p - k \in 1..n /\ Old(p) = p - k /\ p \notin (at + 1)..(at + k)
      BY <2>3
    <3> QED
      BY <3>3, <3>4
  <2> QED
    BY <2>1, <2>2, <2>3
<1>14. /\ \A i, j \in 1..n : body[i] = body[j] => i = j
       /\ \A i, j \in 1..k : blocks[i] = blocks[j] => i = j
       /\ \A i \in 1..k, j \in 1..n : blocks[i] # body[j]
  <2>1. \A i, j \in 1..n : body[i] = body[j] => i = j
    BY <1>1 DEF IsInjective
  <2>2. \A i, j \in 1..k : blocks[i] = blocks[j] => i = j
    BY <1>2 DEF IsInjective
  <2>3. \A i \in 1..k, j \in 1..n : blocks[i] \in ToSet(blocks) /\ body[j] \in ToSet(body)
    BY <1>1, <1>2 DEF ToSet
  <2> QED
    BY <2>1, <2>2, <2>3
<1>15. ASSUME NEW p \in 1..(n + k), NEW q \in 1..(n + k), t[p] = t[q]
       PROVE  p = q
  <2>1. CASE p \in (at + 1)..(at + k) /\ q \in (at + 1)..(at + k)
    <3>1. p - at = q - at
      BY <1>13, <1>14, <1>15, <2>1
    <3> QED
      BY <3>1
  <2>2. CASE p \notin (at + 1)..(at + k) /\ q \notin (at + 1)..(at + k)
    <3>1. Old(p) = Old(q)
      <4>1. /\ Old(p) \in 1..n /\ t[p] = body[Old(p)]
            /\ Old(q) \in 1..n /\ t[q] = body[Old(q)]
        BY <1>13, <2>2
      <4> HIDE DEF Old
      <4> QED
        BY <1>14, <1>15, <4>1
    <3> QED
      BY <2>2, <3>1
  <2>3. CASE p \in (at + 1)..(at + k) /\ q \notin (at + 1)..(at + k)
    <3>1. p - at \in 1..k /\ t[p] = blocks[p - at] /\ Old(q) \in 1..n /\ t[q] = body[Old(q)]
      BY <1>13, <2>3
    <3> HIDE DEF Old
    <3> QED
      BY <1>14, <1>15, <3>1
  <2>4. CASE p \notin (at + 1)..(at + k) /\ q \in (at + 1)..(at + k)
    <3>1. q - at \in 1..k /\ t[q] = blocks[q - at] /\ Old(p) \in 1..n /\ t[p] = body[Old(p)]
      BY <1>13, <2>4
    <3> HIDE DEF Old
    <3> QED
      BY <1>14, <1>15, <3>1
  <2> QED
    BY <2>1, <2>2, <2>3, <2>4
<1>16. IsInjective(t)
  BY <1>12, <1>15 DEF IsInjective
<1>17. ASSUME NEW x \in ToSet(t)
       PROVE  x \in ToSet(body) \union ToSet(blocks)
  <2>1. PICK p \in 1..(n + k) : x = t[p]
    BY <1>12 DEF ToSet
  <2> HIDE DEF Old
  <2> QED
    BY <1>1, <1>2, <1>13, <2>1 DEF ToSet
<1>18. ASSUME NEW m \in 1..k
       PROVE  blocks[m] \in ToSet(t)
  <2>1. at + m \in 1..(n + k) /\ at + m \in 1..(at + k)
    OBVIOUS
  <2>2. t[at + m] = blocks[m]
    BY <1>10, <1>11, <2>1
  <2> QED
    BY <1>12, <2>1, <2>2 DEF ToSet
<1>19. ASSUME NEW m \in 1..n
       PROVE  body[m] \in ToSet(t)
  <2>1. CASE m <= at
    <3>1. m \in 1..at /\ m \in 1..(at + k) /\ m \in 1..(n + k)
      BY <2>1
    <3>2. t[m] = body[m]
      BY <1>10, <1>11, <3>1
    <3> QED
      BY <1>12, <3>1, <3>2 DEF ToSet
  <2>2. CASE ~(m <= at)
    <3>1. PICK i : i = m - at
      OBVIOUS
    <3>2. i \in 1..(n - at) /\ at + i = m /\ at + k + i \in 1..(n + k)
      BY <2>2, <3>1
    <3>3. t[at + k + i] = body[m]
      BY <1>11, <3>2
    <3> QED
      BY <1>12, <3>2, <3>3 DEF ToSet
  <2> QED
    BY <2>1, <2>2
<1>20. ToSet(t) = ToSet(body) \union ToSet(blocks)
  <2>1. \A x \in ToSet(body) : \E m \in 1..n : x = body[m]
    BY <1>1 DEF ToSet
  <2>2. \A x \in ToSet(blocks) : \E m \in 1..k : x = blocks[m]
    BY <1>2 DEF ToSet
  <2>3. \A x \in ToSet(body) : x \in ToSet(t)
    BY <1>19, <2>1
  <2>4. \A x \in ToSet(blocks) : x \in ToSet(t)
    BY <1>18, <2>2
  <2>5. \A x : x \in ToSet(t) => x \in ToSet(body) \union ToSet(blocks)
    BY <1>17
  <2> QED
    BY ONLY <2>3, <2>4, <2>5
<1>21. t[1] = body[1] /\ t # <<>>
  <2>1. 1 \in 1..at /\ 1 \in 1..(at + k)
    OBVIOUS
  <2>2. t[1] = body[1]
    BY <1>10, <1>11, <2>1
  <2>3. Len(t) # 0
    BY <1>12
  <2> QED
    BY <1>11, <2>2, <2>3
<1> QED
  BY <1>11, <1>16, <1>20, <1>21


-----------------------------------------------------------------------------
(* What the patterns put into blocks.                                      *)
LEMMA SplitFacts ==
  ASSUME NEW q \in Seq(Operation), NEW i \in 1..Len(q), NEW o \in Operation,
         NEW before, before = Append(SubSeq(q, 1, i - 1), o),
         NEW behind, behind = SubSeq(q, i + 1, Len(q))
  PROVE  /\ before \in Seq(Operation) /\ Len(before) = i /\ before[i] = o
         /\ \A l \in 1..(i - 1) : before[l] = q[l]
         /\ behind \in Seq(Operation) /\ Len(behind) = Len(q) - i
         /\ \A l \in 1..(Len(q) - i) : behind[l] = q[i + l]
<1>1. PICK n \in Nat : n = Len(q) /\ \A m \in 1..n : q[m] \in Operation
  BY LenProperties, ElementOfSeq
<1>2. i \in 1..n
  BY <1>1
<1>3. PICK u : u = SubSeq(q, 1, i - 1)
  OBVIOUS
<1>4. u \in Seq(Operation) /\ Len(u) = i - 1 /\ \A m \in 1..(i - 1) : u[m] = q[m]
  <2>1. \A m \in 1..(i - 1) : q[m] \in Operation
    BY <1>1, <1>2
  <2>2. 1 \in Int /\ i - 1 \in Int
    BY <1>2
  <2>3. /\ u \in Seq(Operation)
        /\ Len(u) = IF 1 <= i - 1 THEN i - 1 - 1 + 1 ELSE 0
        /\ \A m \in 1..(i - 1 - 1 + 1) : u[m] = q[1 + m - 1]
    BY <1>3, <2>1, <2>2, SubSeqProperties
  <2>4. /\ i - 1 - 1 + 1 = i - 1 /\ (~(1 <= i - 1) => i - 1 = 0)
        /\ \A m \in 1..(i - 1) : 1 + m - 1 = m
    BY <1>2
  <2> QED
    BY <2>3, <2>4
<1>5. /\ before \in Seq(Operation) /\ Len(before) = i - 1 + 1
      /\ before[i - 1 + 1] = o /\ \A m \in 1..(i - 1) : before[m] = u[m]
  <2>1. before = Append(u, o)
    BY <1>3
  <2>2. /\ before \in Seq(Operation) /\ Len(before) = Len(u) + 1
        /\ before[Len(u) + 1] = o /\ \A m \in 1..Len(u) : before[m] = u[m]
    BY <1>4, <2>1, AppendProperties
  <2> QED
    BY <1>4, <2>2
<1>6. i - 1 + 1 = i
  BY <1>2
<1>7. /\ behind \in Seq(Operation) /\ Len(behind) = n - i
      /\ \A l \in 1..(n - i) : behind[l] = q[i + l]
  <2>1. \A m \in (i + 1)..n : q[m] \in Operation
    BY <1>1, <1>2
  <2>2. i + 1 \in Int /\ n \in Int
    BY <1>2
  <2>3. /\ behind \in Seq(Operation)
        /\ Len(behind) = IF i + 1 <= n THEN n - (i + 1) + 1 ELSE 0
        /\ \A m \in 1..(n - (i + 1) + 1) : behind[m] = q[i + 1 + m - 1]
    BY <1>1, <2>1, <2>2, SubSeqProperties
  <2>4. /\ n - (i + 1) + 1 = n - i /\ (~(i + 1 <= n) => n - i = 0)
        /\ \A m \in 1..(n - i) : i + 1 + m - 1 = i + m
    BY <1>2
  <2> QED
    BY <2>3, <2>4
<1> QED
  BY <1>1, <1>4, <1>5, <1>6, <1>7

LEMMA RewriteFacts ==
  ASSUME NEW q \in Seq(Operation), q # <<>>, NEW o \in Operation, NEW new, Jump(o, new),
         NEW now, now = Append(Front(q), o)
  PROVE  now \in Seq(Operation) /\ EndsWithJump(q, now, Len(q), new)
BY ReplaceFacts DEF Front, EndsWithJump

Names ==
  Terminators \union CMinusOps \union
    {"alloca", "get_global", "load", "store", "base", "binary", "call", "indexError"}

LEMMA BranchFacts ==
  ASSUME NEW name \in {"br", "condbr"}, NEW S, S \subseteq Nat, NEW to \in Seq(S),
         NEW arg \in Symbol \union Operator \union Callee \union
                       {"", "cond", "index", "void", "value", "zero"}
  PROVE  OpTo(name, arg, to) \in Operation /\ Jump(OpTo(name, arg, to), S)
<1>1. to \in Seq(Nat)
  BY MoreFacts
<1>2. name \in Names
  BY Zenon DEF Names, Terminators
<1>3. OpTo(name, arg, to) \in Operation
  BY <1>1, <1>2 DEF OpTo, Operation, Names
<1>4. OpTo(name, arg, to).op = name /\ OpTo(name, arg, to).to = to
  BY DEF OpTo
<1> QED
  BY <1>3, <1>4 DEF Jump

LEMMA ArgumentFacts ==
  /\ \A o \in Operation : o.arg \in Symbol \union Operator \union Callee \union
                                      {"", "cond", "index", "void", "value", "zero"}
  /\ \A name \in Names, arg \in Symbol \union Operator \union Callee \union
                                   {"", "cond", "index", "void", "value", "zero"} :
       /\ Op(name, arg) \in Operation
       /\ Op(name, arg).op = name /\ Op(name, arg).arg = arg /\ Op(name, arg).to = <<>>
<1>1. <<>> \in Seq(Nat)
  OBVIOUS
<1> QED
  BY <1>1 DEF Op, Operation, Names

(* What the patterns have in common.                                       *)
LEMMA PatternFacts ==
  ASSUME Typed(code, body), NEW void, Ordered(code, body, void), Single(code),
         NEW b \in ToSet(body), NEW i \in 1..Len(code[b])
  PROVE  /\ Len(code) \in Nat /\ b \in 1..Len(code) /\ cont = Len(code) + 1
         /\ code \in Seq(Seq(Operation)) /\ code[b] \in Seq(Operation)
         /\ Len(code[b]) \in Nat
         /\ code[b][i] \in Operation /\ code[b][i].to \in Seq(1..Len(code))
         /\ ToSet(body) \subseteq 1..Len(code)
<1>1. Len(code) \in Nat /\ b \in 1..Len(code) /\ ToSet(body) \subseteq 1..Len(code)
  BY TypedFacts
<1>2. code[b] \in Seq(Operation) /\ Len(code[b]) \in Nat
  BY <1>1, TypedFacts
<1>3. code[b][i] \in Operation /\ code[b][i].to \in Seq(1..Len(code))
  BY <1>1, <1>2, TypedFacts
<1> QED
  BY <1>1, <1>2, <1>3 DEF cont, Typed

LEMMA BodyGrows ==
  ASSUME Typed(code, body), NEW b \in ToSet(body), NEW m \in Nat, Len(code) <= m,
         NEW blocks \in Seq(1..m), IsInjective(blocks), ToSet(blocks) \cap ToSet(body) = {},
         body' = Inlined(b, blocks)
  PROVE  /\ body' \in Seq(1..m) /\ body' # <<>> /\ IsInjective(body')
         /\ ToSet(body') = ToSet(body) \union ToSet(blocks) /\ body'[1] = body[1]
<1>1. Len(code) \in Nat
  BY TypedFacts
<1>2. 1..Len(code) \subseteq 1..m
  BY <1>1
<1>3. body \in Seq(1..m) /\ IsInjective(body)
  BY <1>2 DEF Typed
<1> QED
  BY <1>3, InlinedFacts

LEMMA IndexCheckOpens ==
  ASSUME Typed(code, body), NEW void, Ordered(code, body, void), Single(code),
         NEW b \in ToSet(body), NEW i \in 1..Len(code[b]), IndexCheckLowering(b, i)
  PROVE  Opens(code, body, code', body', b, i, {})
<1>1. /\ Len(code) \in Nat /\ b \in 1..Len(code) /\ cont = Len(code) + 1
      /\ code \in Seq(Seq(Operation)) /\ code[b] \in Seq(Operation)
      /\ Len(code[b]) \in Nat /\ ToSet(body) \subseteq 1..Len(code)
  BY PatternFacts
<1>2. PICK n \in Nat : n = Len(code)
  BY <1>1
<1>24. PICK fail, ok : fail = cont + 1 /\ ok = cont
  OBVIOUS
<1>25. fail = n + 2 /\ ok = n + 1
  BY <1>1, <1>2, <1>24
<1>26. PICK o : o = OpTo("condbr", "index", <<fail, ok>>)
  OBVIOUS
<1>3. /\ fail = n + 2 /\ ok = n + 1 /\ fail = cont + 1 /\ ok = cont
      /\ o = OpTo("condbr", "index", <<fail, ok>>)
  BY <1>24, <1>25, <1>26
<1>4. PICK new : new = (n + 1)..(n + 2)
  OBVIOUS
<1>5. new \subseteq Nat /\ fail \in new /\ ok \in new /\ <<fail, ok>> \in Seq(new)
  <2>1. fail \in new /\ ok \in new
    BY <1>3, <1>4
  <2>2. <<fail, ok>> \in Seq(new)
    BY ONLY <2>1, PairFacts
  <2> QED
    BY <1>4, <2>1, <2>2
<1>6. o \in Operation /\ Jump(o, new)
  BY <1>3, <1>5, BranchFacts
<1>7. PICK before, behind, stop :
        /\ before = Append(Before(b, i), o) /\ behind = Behind(b, i)
        /\ stop = <<Op("indexError", ""), Op("unreachable", "")>>
  OBVIOUS
<1>8. /\ before \in Seq(Operation) /\ Len(before) = i /\ before[i] = o
      /\ \A l \in 1..(i - 1) : before[l] = code[b][l]
      /\ behind \in Seq(Operation) /\ Len(behind) = Len(code[b]) - i
      /\ \A l \in 1..(Len(code[b]) - i) : behind[l] = code[b][i + l]
  <2>1. PICK q : q = code[b]
    OBVIOUS
  <2>2. q \in Seq(Operation) /\ i \in 1..Len(q)
    BY <1>1, <2>1
  <2>3. before = Append(SubSeq(q, 1, i - 1), o) /\ behind = SubSeq(q, i + 1, Len(q))
    BY <1>7, <2>1 DEF Before, Behind
  <2> QED
    BY <1>6, <2>1, <2>2, <2>3, SplitFacts
<1>9. /\ stop \in Seq(Operation) /\ Len(stop) = 2
      /\ stop[1] = Op("indexError", "") /\ stop[2] = Op("unreachable", "")
  <2>1. PICK p, q : p = Op("indexError", "") /\ q = Op("unreachable", "")
    OBVIOUS
  <2>2. p \in Operation /\ q \in Operation
    <3>1. "indexError" \in Names /\ "unreachable" \in Names
      BY Zenon DEF Names, Terminators
    <3> QED
      BY <2>1, <3>1, ArgumentFacts
  <2>3. stop = <<p, q>>
    BY <1>7, <2>1
  <2>4. stop \in Seq(Operation) /\ Len(stop) = 2 /\ stop[1] = p /\ stop[2] = q
    BY ONLY <2>2, <2>3
  <2> QED
    BY <2>1, <2>4
<1>10. PICK e : e = [code EXCEPT ![b] = before]
  OBVIOUS
<1>11. /\ e \in Seq(Seq(Operation)) /\ Len(e) = n /\ e[b] = before
       /\ \A y \in 1..n : y # b => e[y] = code[y]
  <2>1. DOMAIN code = 1..n /\ \A y \in 1..n : code[y] \in Seq(Operation)
    BY <1>1, <1>2, LenProperties, ElementOfSeq
  <2>2. e \in [1..n -> Seq(Operation)]
    BY <1>8, <1>10, <2>1, <1>1
  <2> QED
    BY <1>1, <1>2, <1>10, <2>1, <2>2
<1>12. PICK x : x = <<behind, stop>>
  OBVIOUS
<1>13. x \in Seq(Seq(Operation)) /\ Len(x) = 2 /\ x[1] = behind /\ x[2] = stop
  <2>1. PICK S : S = Seq(Operation)
    OBVIOUS
  <2>2. behind \in S /\ stop \in S
    BY <1>8, <1>9, <2>1
  <2>3. x \in Seq(S) /\ Len(x) = 2 /\ x[1] = behind /\ x[2] = stop
    BY ONLY <1>12, <2>2
  <2> QED
    BY <2>1, <2>3
<1>14. code' = e \o x
  <2>1. code' = [code EXCEPT ![b] = Append(Before(b, i),
                                           OpTo("condbr", "index", <<cont + 1, cont>>))]
                  \o <<Behind(b, i), <<Op("indexError", ""), Op("unreachable", "")>> >>
    BY Zenon DEF IndexCheckLowering
  <2> QED
    BY <1>3, <1>7, <1>10, <1>12, <2>1
<1>15. /\ code' \in Seq(Seq(Operation)) /\ Len(code') = n + 2
       /\ \A y \in 1..n : code'[y] = e[y]
       /\ code'[n + 1] = behind /\ code'[n + 2] = stop
  <2>1. PICK S, d : S = Seq(Operation) /\ d = e \o x
    OBVIOUS
  <2>2. e \in Seq(S) /\ x \in Seq(S) /\ Len(e) = n /\ Len(x) = 2
    BY <1>11, <1>13, <2>1
  <2>5. /\ e \o x \in Seq(S) /\ Len(e \o x) = Len(e) + Len(x)
        /\ \A y \in 1..Len(e) : (e \o x)[y] = e[y]
        /\ \A y \in 1..Len(x) : (e \o x)[Len(e) + y] = x[y]
    <3>1. e \in Seq(S) /\ x \in Seq(S)
      BY <2>2
    <3> QED
      BY ONLY <3>1, JoinFacts
  <2>3. /\ d \in Seq(S) /\ Len(d) = Len(e) + Len(x)
        /\ \A y \in 1..Len(e) : d[y] = e[y]
        /\ \A y \in 1..Len(x) : d[Len(e) + y] = x[y]
    BY ONLY <2>1, <2>5
  <2>4. Len(d) = n + 2 /\ (\A y \in 1..n : d[y] = e[y]) /\ d[n + 1] = x[1] /\ d[n + 2] = x[2]
    <3>1. 1 \in 1..Len(x) /\ 2 \in 1..Len(x)
      BY <2>2
    <3> QED
      BY <2>2, <2>3, <3>1
  <2> QED
    BY <1>13, <1>14, <2>1, <2>3, <2>4
<1>16. New(code, code', {}) = new
  BY <1>2, <1>4, <1>15 DEF New
<1>17. Opened(code, code', b, i, {})
  <2>1. EndsWithJump(code[b], code'[b], i, new)
    BY <1>1, <1>2, <1>6, <1>8, <1>11, <1>15 DEF EndsWithJump
  <2>2. \A y \in (n + 2)..(n + 2) : code'[y] = stop
    BY <1>15
  <2> QED
    BY <1>2, <1>8, <1>9, <1>11, <1>15, <1>16, <2>1, <2>2 DEF Opened
<1>18. PICK blocks : blocks = <<fail, ok>>
  OBVIOUS
<1>19. /\ blocks \in Seq(1..(n + 2)) /\ IsInjective(blocks) /\ ToSet(blocks) = new
       /\ ToSet(blocks) \cap ToSet(body) = {}
  <2>1. Len(blocks) = 2 /\ blocks[1] = fail /\ blocks[2] = ok /\ DOMAIN blocks = 1..2
    BY <1>18
  <2>2. ToSet(blocks) = {fail, ok} /\ new = {fail, ok}
    BY <1>3, <1>4, <2>1 DEF ToSet
  <2>3. IsInjective(blocks)
    BY <1>3, <2>1 DEF IsInjective
  <2>4. fail \in 1..(n + 2) /\ ok \in 1..(n + 2)
    BY <1>3
  <2>5. blocks \in Seq(1..(n + 2))
    BY <1>18, <2>4, PairFacts
  <2>6. {fail, ok} \cap ToSet(body) = {}
    BY <1>1, <1>2, <1>3
  <2> QED
    BY <2>2, <2>3, <2>5, <2>6
<1>20. body' = Inlined(b, blocks)
  <2>1. body' = Inlined(b, <<cont + 1, cont>>)
    BY Zenon DEF IndexCheckLowering
  <2> QED
    BY <1>3, <1>18, <2>1
<1>21. /\ body' \in Seq(1..(n + 2)) /\ body' # <<>> /\ IsInjective(body')
       /\ ToSet(body') = ToSet(body) \union new /\ body'[1] = body[1]
  <2>1. n + 2 \in Nat /\ Len(code) <= n + 2
    BY <1>2
  <2> QED
    BY <1>19, <1>20, <2>1, BodyGrows
<1>22. code[b][i].op \notin Terminators /\ code[b][i].op \notin RegionOps
  <2>1. code[b][i].op = "cminus.index_check"
    BY DEF IndexCheckLowering
  <2> QED
    BY <2>1, Zenon DEF Terminators, RegionOps
<1>23. \A a : a \in {} <=> \E k : Holds(code, b, i, k) /\ a = Held(code, b, i, k)
  BY <1>22 DEF Holds
<1> QED
  BY <1>2, <1>15, <1>16, <1>17, <1>21, <1>22, <1>23 DEF Opens


LEMMA JoinOne ==
  ASSUME NEW S, NEW e \in Seq(S), NEW z \in S
  PROVE  /\ e \o <<z>> \in Seq(S) /\ Len(e \o <<z>>) = Len(e) + 1
         /\ \A y \in 1..Len(e) : (e \o <<z>>)[y] = e[y]
         /\ (e \o <<z>>)[Len(e) + 1] = z
<1>1. PICK x : x = <<z>>
  OBVIOUS
<1>2. x \in Seq(S) /\ Len(x) = 1 /\ x[1] = z
  BY <1>1
<1>3. /\ e \o x \in Seq(S) /\ Len(e \o x) = Len(e) + Len(x)
      /\ \A y \in 1..Len(e) : (e \o x)[y] = e[y]
      /\ \A y \in 1..Len(x) : (e \o x)[Len(e) + y] = x[y]
  BY ONLY e \in Seq(S), <1>2, JoinFacts
<1>4. 1 \in 1..Len(x)
  BY <1>2
<1> QED
  BY ONLY <1>1, <1>2, <1>3, <1>4

(* The end of a region that goes on at dest.                               *)
LEMMA YieldFacts ==
  ASSUME NEW q \in Seq(Operation), q # <<>>, NEW holder, NEW k,
         TerminatorOK(Last(q), FALSE, {}, holder, k), ~(holder = "cminus.while" /\ k = 1),
         NEW new, new \subseteq Nat, NEW dest \in new,
         NEW now, now = branchInsteadOfYield(q, dest)
  PROVE  /\ now \in Seq(Operation)
         /\ \/ now = q /\ Last(q).op \notin {"cminus.yield", "cminus.condition"}
            \/ EndsWithJump(q, now, Len(q), new)
<1>1. CASE Last(q).op = "cminus.yield"
  <2>1. PICK o : o = OpTo("br", "", <<dest>>)
    OBVIOUS
  <2>2. <<dest>> \in Seq(new)
    BY PairFacts
  <2>3. o \in Operation /\ Jump(o, new)
    BY <2>1, <2>2, BranchFacts
  <2>4. now = Append(Front(q), o)
    BY <1>1, <2>1 DEF branchInsteadOfYield
  <2> QED
    BY <2>3, <2>4, RewriteFacts
<1>2. CASE Last(q).op # "cminus.yield"
  <2>1. now = q
    BY <1>2 DEF branchInsteadOfYield
  <2>2. Last(q).op # "cminus.condition"
    BY DEF TerminatorOK
  <2> QED
    BY <1>2, <2>1, <2>2
<1> QED
  BY <1>1, <1>2

(* The regions of the operation that is converted.                         *)
Arms(b, i, r) ==
  /\ r \in Seq(1..Len(code)) /\ Len(r) \in Nat /\ IsInjective(r)
  /\ ToSet(r) \cap ToSet(body) = {} /\ ToSet(r) \subseteq 1..Len(code) /\ b \notin ToSet(r)
  /\ \A k \in 1..Len(r) :
       /\ r[k] \in ToSet(r)
       /\ code[r[k]] \in Seq(Operation) /\ code[r[k]] # <<>>
       /\ TerminatorOK(Last(code[r[k]]), FALSE, {}, code[b][i].op, k)
  /\ \A a : a \in ToSet(r) <=> \E k : Holds(code, b, i, k) /\ a = Held(code, b, i, k)

LEMMA ArmsFacts ==
  ASSUME Typed(code, body), NEW void, Ordered(code, body, void), Single(code),
         NEW b \in ToSet(body), NEW i \in 1..Len(code[b]), code[b][i].op \in RegionOps,
         NEW r, r = code[b][i].to
  PROVE  Arms(b, i, r)
<1>1. /\ Len(code) \in Nat /\ b \in 1..Len(code) /\ r \in Seq(1..Len(code))
      /\ code \in Seq(Seq(Operation))
  BY PatternFacts
<1>2. Len(r) \in Nat /\ DOMAIN r = 1..Len(r) /\ \A k \in 1..Len(r) : r[k] \in 1..Len(code)
  BY <1>1, LenProperties, ElementOfSeq
<1>3. \A k : Holds(code, b, i, k) <=> k \in 1..Len(r)
  BY <1>1 DEF Holds
<1>4. \A k : Held(code, b, i, k) = r[k]
  BY DEF Held
<1>5. ASSUME NEW k \in 1..Len(r)
      PROVE  /\ code[r[k]] \in Seq(Operation) /\ code[r[k]] # <<>> /\ r[k] \notin ToSet(body)
             /\ TerminatorOK(Last(code[r[k]]), FALSE, {}, code[b][i].op, k)
  <2>1. Holds(code, b, i, k) /\ Held(code, b, i, k) = r[k]
    BY <1>3, <1>4
  <2>2. /\ r[k] \notin ToSet(body) /\ BlockOK(code[r[k]])
        /\ TerminatorOK(Last(code[r[k]]), FALSE, {}, code[b][i].op, k)
    BY <2>1 DEF Ordered
  <2>3. code[r[k]] \in Seq(Operation)
    BY <1>1, <1>2, ElementOfSeq
  <2> QED
    BY <2>2, <2>3 DEF BlockOK
<1>6. \A k, l \in 1..Len(r) : r[k] = r[l] => k = l
  BY <1>3, <1>4 DEF Single
<1>7. IsInjective(r)
  BY <1>2, <1>6 DEF IsInjective
<1>8. \A a : a \in ToSet(r) <=> \E k \in 1..Len(r) : a = r[k]
  BY <1>2 DEF ToSet
<1>9. ToSet(r) \cap ToSet(body) = {} /\ ToSet(r) \subseteq 1..Len(code)
  <2>1. \A k \in 1..Len(r) : r[k] \notin ToSet(body)
    BY <1>5
  <2>2. \A a : a \in ToSet(r) => a \notin ToSet(body)
    BY ONLY <1>8, <2>1
  <2>3. \A a : a \in ToSet(r) => a \in 1..Len(code)
    BY ONLY <1>2, <1>8
  <2> QED
    BY ONLY <2>2, <2>3
<1>10. \A a : a \in ToSet(r) <=> \E k : Holds(code, b, i, k) /\ a = Held(code, b, i, k)
  BY <1>3, <1>4, <1>8
<1>11. \A k \in 1..Len(r) : r[k] \in ToSet(r)
  BY <1>8
<1> QED
  BY ONLY <1>1, <1>2, <1>5, <1>7, <1>9, <1>10, <1>11 DEF Arms

(* The blocks of the regions, then the one behind the operation.           *)
LEMMA ThenCont ==
  ASSUME NEW n \in Nat, NEW r \in Seq(1..n), IsInjective(r),
         NEW blocks, blocks = Append(r, n + 1)
  PROVE  /\ blocks \in Seq(1..(n + 1)) /\ IsInjective(blocks)
         /\ ToSet(blocks) = ToSet(r) \union {n + 1}
<1>1. PICK k \in Nat : k = Len(r) /\ DOMAIN r = 1..k
  BY LenProperties
<1>2. \A l \in 1..k : r[l] \in 1..n
  BY <1>1, ElementOfSeq
<1>3. n + 1 \in 1..(n + 1) /\ 1..n \subseteq 1..(n + 1)
  OBVIOUS
<1>4. r \in Seq(1..(n + 1))
  BY <1>3, MoreFacts
<1>5. /\ blocks \in Seq(1..(n + 1)) /\ Len(blocks) = k + 1
      /\ \A l \in 1..k : blocks[l] = r[l]
      /\ blocks[k + 1] = n + 1
  BY <1>1, <1>3, <1>4, AppendProperties
<1>6. DOMAIN blocks = 1..(k + 1)
  BY <1>5, LenProperties
<1>7. \A l \in 1..(k + 1) : l = k + 1 \/ l \in 1..k
  OBVIOUS
<1>8. \A l \in 1..k : l \in 1..(k + 1) /\ l # k + 1 /\ r[l] # n + 1
  BY <1>2
<1>9. \A l, m \in 1..k : r[l] = r[m] => l = m
  BY <1>1 DEF IsInjective
<1>10. \A l, m \in 1..(k + 1) : blocks[l] = blocks[m] => l = m
  BY <1>5, <1>7, <1>8, <1>9
<1>11. IsInjective(blocks)
  BY <1>6, <1>10 DEF IsInjective
<1>12. \A x : x \in ToSet(blocks) <=> \E l \in 1..(k + 1) : x = blocks[l]
  BY <1>6 DEF ToSet
<1>13. \A x : x \in ToSet(r) <=> \E l \in 1..k : x = r[l]
  BY <1>1 DEF ToSet
<1>14. k + 1 \in 1..(k + 1)
  OBVIOUS
<1>15. \A x : x \in ToSet(blocks) <=> x \in ToSet(r) \/ x = n + 1
  BY <1>5, <1>7, <1>8, <1>12, <1>13, <1>14
<1> QED
  BY <1>5, <1>11, <1>15

LEMMA IfOpens ==
  ASSUME Typed(code, body), NEW void, Ordered(code, body, void), Single(code),
         NEW b \in ToSet(body), NEW i \in 1..Len(code[b]), IfLowering(b, i)
  PROVE  Opens(code, body, code', body', b, i, ToSet(code[b][i].to))
<1>1. /\ Len(code) \in Nat /\ b \in 1..Len(code) /\ cont = Len(code) + 1
      /\ code \in Seq(Seq(Operation)) /\ code[b] \in Seq(Operation)
      /\ Len(code[b]) \in Nat /\ code[b][i] \in Operation /\ ToSet(body) \subseteq 1..Len(code)
  BY PatternFacts
<1>2. PICK n \in Nat : n = Len(code)
  BY <1>1
<1>3. PICK r : r = code[b][i].to
  OBVIOUS
<1>4. code[b][i].op = "cminus.if"
  BY DEF IfLowering
<1>5. code[b][i].op \in RegionOps /\ code[b][i].op \notin Terminators
  BY <1>4, Zenon DEF RegionOps, Terminators
<1>6. Len(r) \in 1..2
  <2>1. RegionsOK(code[b][i])
    BY <1>1 DEF Typed
  <2> QED
    BY <1>3, <1>4, <2>1 DEF RegionsOK
<1>7. /\ r \in Seq(1..n) /\ IsInjective(r)
      /\ ToSet(r) \cap ToSet(body) = {} /\ ToSet(r) \subseteq 1..n /\ b \notin ToSet(r)
      /\ \A k \in 1..Len(r) :
           /\ r[k] \in ToSet(r)
           /\ code[r[k]] \in Seq(Operation) /\ code[r[k]] # <<>>
           /\ TerminatorOK(Last(code[r[k]]), FALSE, {}, code[b][i].op, k)
      /\ \A a : a \in ToSet(r) <=> \E k : Holds(code, b, i, k) /\ a = Held(code, b, i, k)
  <2>1. Arms(b, i, r)
    BY <1>3, <1>5, ArmsFacts
  <2> QED
    BY ONLY <1>2, <2>1 DEF Arms
<1>8. DOMAIN r = 1..Len(r)
  BY <1>7, LenProperties
<1>9. PICK new : new = ToSet(r) \union {n + 1}
  OBVIOUS
<1>10. PICK els, o : /\ els = IF Len(r) = 2 THEN r[2] ELSE cont
                     /\ o = OpTo("condbr", code[b][i].arg, <<r[1], els>>)
  OBVIOUS
<1>11. new \subseteq Nat /\ r[1] \in new /\ els \in new /\ cont \in new
  <2>1. 1 \in 1..Len(r) /\ (Len(r) = 2 => 2 \in 1..Len(r))
    BY <1>6
  <2>2. ToSet(r) \subseteq Nat
    BY <1>7
  <2>3. cont = n + 1
    BY <1>1, <1>2
  <2>4. cont \in new /\ new \subseteq Nat
    BY ONLY n \in Nat, <1>9, <2>2, <2>3
  <2>5. r[1] \in new
    BY <1>7, <1>9, <2>1
  <2>6. els \in new
    BY <1>7, <1>9, <1>10, <2>1, <2>4
  <2> QED
    BY <2>4, <2>5, <2>6
<1>12. o \in Operation /\ Jump(o, new)
  <2>1. <<r[1], els>> \in Seq(new)
    BY ONLY <1>11, PairFacts
  <2>2. PICK to : to = <<r[1], els>>
    OBVIOUS
  <2> QED
    BY <1>1, <1>10, <1>11, <2>1, <2>2, ArgumentFacts, BranchFacts
<1>13. PICK before, behind : before = Append(Before(b, i), o) /\ behind = Behind(b, i)
  OBVIOUS
<1>14. /\ before \in Seq(Operation) /\ Len(before) = i /\ before[i] = o
       /\ \A l \in 1..(i - 1) : before[l] = code[b][l]
       /\ behind \in Seq(Operation) /\ Len(behind) = Len(code[b]) - i
       /\ \A l \in 1..(Len(code[b]) - i) : behind[l] = code[b][i + l]
  <2>1. PICK q : q = code[b]
    OBVIOUS
  <2>2. q \in Seq(Operation) /\ i \in 1..Len(q)
    BY <1>1, <2>1
  <2>3. before = Append(SubSeq(q, 1, i - 1), o) /\ behind = SubSeq(q, i + 1, Len(q))
    BY <1>13, <2>1 DEF Before, Behind
  <2> QED
    BY <1>12, <2>1, <2>2, <2>3, SplitFacts
<1>15. PICK e : e = [c \in 1..n |-> CASE c = b -> before
                                      [] Contains(r, c) -> branchInsteadOfYield(code[c], cont)
                                      [] OTHER -> code[c]]
  OBVIOUS
<1>16. \A c : Contains(r, c) <=> c \in ToSet(r)
  BY <1>8 DEF Contains, ToSet
<1>17. ASSUME NEW a \in ToSet(r)
       PROVE  /\ e[a] \in Seq(Operation)
              /\ \/ e[a] = code[a] /\ Last(code[a]).op \notin {"cminus.yield", "cminus.condition"}
                 \/ EndsWithJump(code[a], e[a], Len(code[a]), new)
  <2>1. PICK k \in 1..Len(r) : a = r[k]
    BY <1>8 DEF ToSet
  <2>2. e[a] = branchInsteadOfYield(code[a], cont)
    BY <1>7, <1>15, <1>16
  <2>3. /\ code[a] \in Seq(Operation) /\ code[a] # <<>>
        /\ TerminatorOK(Last(code[a]), FALSE, {}, "cminus.if", k)
    BY <1>4, <1>7, <2>1
  <2>4. PICK q, holder, now : q = code[a] /\ holder = "cminus.if" /\ now = e[a]
    OBVIOUS
  <2>5. now = branchInsteadOfYield(q, cont)
    BY <2>2, <2>4
  <2>6. /\ q \in Seq(Operation) /\ q # <<>>
        /\ TerminatorOK(Last(q), FALSE, {}, holder, k) /\ ~(holder = "cminus.while" /\ k = 1)
    BY <2>3, <2>4
  <2>7. /\ now \in Seq(Operation)
        /\ \/ now = q /\ Last(q).op \notin {"cminus.yield", "cminus.condition"}
           \/ EndsWithJump(q, now, Len(q), new)
    BY <1>11, <2>5, <2>6, YieldFacts
  <2> QED
    BY <2>4, <2>7
<1>18. e[b] = before
  <2>1. b \in 1..n
    BY <1>1, <1>2
  <2> QED
    BY <1>7, <1>15, <1>16, <2>1
<1>19. \A y \in 1..n : y # b /\ y \notin ToSet(r) => e[y] = code[y]
  BY <1>15, <1>16
<1>20. e \in Seq(Seq(Operation)) /\ Len(e) = n
  <2>1. \A y \in 1..n : e[y] \in Seq(Operation)
    <3>1. \A y \in 1..n : code[y] \in Seq(Operation)
      BY <1>1, <1>2, ElementOfSeq
    <3> QED
      BY <1>14, <1>17, <1>18, <1>19, <3>1
  <2>2. PICK S : S = Seq(Operation)
    OBVIOUS
  <2>3. e \in [1..n -> S]
    BY <1>15, <2>1, <2>2
  <2>4. e \in Seq(S) /\ Len(e) = n
    BY ONLY n \in Nat, <2>3
  <2> QED
    BY <2>2, <2>4
<1>21. code' = e \o <<behind>>
  <2>1. code' = [c \in 1..Len(code) |->
                   CASE c = b -> Append(Before(b, i), OpTo("condbr", code[b][i].arg,
                          <<code[b][i].to[1],
                            IF Len(code[b][i].to) = 2 THEN code[b][i].to[2] ELSE cont>>))
                     [] Contains(code[b][i].to, c) -> branchInsteadOfYield(code[c], cont)
                     [] OTHER -> code[c]] \o <<Behind(b, i)>>
    BY Zenon DEF IfLowering
  <2> QED
    BY <1>2, <1>3, <1>10, <1>13, <1>15, <2>1
<1>22. /\ code' \in Seq(Seq(Operation)) /\ Len(code') = n + 1
       /\ \A y \in 1..n : code'[y] = e[y]
       /\ code'[n + 1] = behind
  <2>1. PICK S, d : S = Seq(Operation) /\ d = e \o <<behind>>
    OBVIOUS
  <2>2. e \in Seq(S) /\ behind \in S
    BY <1>14, <1>20, <2>1
  <2>3. /\ d \in Seq(S) /\ Len(d) = Len(e) + 1
        /\ \A y \in 1..Len(e) : d[y] = e[y]
        /\ d[Len(e) + 1] = behind
    BY ONLY <2>1, <2>2, JoinOne
  <2> QED
    BY <1>20, <1>21, <2>1, <2>3
<1>23. New(code, code', ToSet(r)) = new
  BY <1>2, <1>9, <1>22 DEF New
<1>24. Opened(code, code', b, i, ToSet(r))
  <2>1. EndsWithJump(code[b], code'[b], i, new)
    BY <1>1, <1>2, <1>12, <1>14, <1>18, <1>22 DEF EndsWithJump
  <2>2. \A a \in ToSet(r) :
          \/ code'[a] = code[a] /\ Last(code[a]).op \notin {"cminus.yield", "cminus.condition"}
          \/ EndsWithJump(code[a], code'[a], Len(code[a]), new)
    BY <1>7, <1>17, <1>22
  <2>3. \A y \in 1..n : y # b /\ y \notin ToSet(r) => code'[y] = code[y]
    BY <1>19, <1>22
  <2>4. (Len(code) + 2)..Len(code') = {}
    BY <1>2, <1>22
  <2> QED
    BY <1>2, <1>14, <1>22, <1>23, <2>1, <2>2, <2>3, <2>4 DEF Opened
<1>25. PICK blocks : blocks = Append(r, cont)
  OBVIOUS
<1>26. /\ blocks \in Seq(1..(n + 1)) /\ IsInjective(blocks) /\ ToSet(blocks) = new
       /\ ToSet(blocks) \cap ToSet(body) = {}
  <2>1. blocks \in Seq(1..(n + 1)) /\ IsInjective(blocks) /\ ToSet(blocks) = new
    BY <1>1, <1>2, <1>7, <1>9, <1>25, ThenCont
  <2>2. n + 1 \notin ToSet(body)
    BY <1>1, <1>2
  <2> QED
    BY <1>7, <1>9, <2>1, <2>2
<1>27. body' = Inlined(b, blocks)
  <2>1. body' = Inlined(b, Append(code[b][i].to, cont))
    BY Zenon DEF IfLowering
  <2> QED
    BY <1>3, <1>25, <2>1
<1>28. /\ body' \in Seq(1..(n + 1)) /\ body' # <<>> /\ IsInjective(body')
       /\ ToSet(body') = ToSet(body) \union new /\ body'[1] = body[1]
  <2>1. n + 1 \in Nat /\ Len(code) <= n + 1
    BY <1>2
  <2> QED
    BY <1>26, <1>27, <2>1, BodyGrows
<1>29. Len(code) < Len(code')
  BY <1>2, <1>22
<1>30. Opens(code, body, code', body', b, i, ToSet(r))
  BY <1>5, <1>7, <1>22, <1>23, <1>24, <1>28, <1>29 DEF Opens
<1> QED
  BY <1>3, <1>30


LEMMA WhileOpens ==
  ASSUME Typed(code, body), NEW void, Ordered(code, body, void), Single(code),
         NEW b \in ToSet(body), NEW i \in 1..Len(code[b]), WhileLowering(b, i)
  PROVE  Opens(code, body, code', body', b, i, ToSet(code[b][i].to))
<1>1. /\ Len(code) \in Nat /\ b \in 1..Len(code) /\ cont = Len(code) + 1
      /\ code \in Seq(Seq(Operation)) /\ code[b] \in Seq(Operation)
      /\ Len(code[b]) \in Nat /\ code[b][i] \in Operation /\ ToSet(body) \subseteq 1..Len(code)
  BY PatternFacts
<1>2. PICK n \in Nat : n = Len(code)
  BY <1>1
<1>3. PICK r : r = code[b][i].to
  OBVIOUS
<1>4. code[b][i].op = "cminus.while"
  BY DEF WhileLowering
<1>5. code[b][i].op \in RegionOps /\ code[b][i].op \notin Terminators
  BY <1>4, Zenon DEF RegionOps, Terminators
<1>6. Len(r) = 2
  <2>1. RegionsOK(code[b][i])
    BY <1>1 DEF Typed
  <2> QED
    BY <1>3, <1>4, <2>1 DEF RegionsOK
<1>7. /\ r \in Seq(1..n) /\ IsInjective(r)
      /\ ToSet(r) \cap ToSet(body) = {} /\ ToSet(r) \subseteq 1..n /\ b \notin ToSet(r)
      /\ \A k \in 1..Len(r) :
           /\ r[k] \in ToSet(r)
           /\ code[r[k]] \in Seq(Operation) /\ code[r[k]] # <<>>
           /\ TerminatorOK(Last(code[r[k]]), FALSE, {}, code[b][i].op, k)
      /\ \A a : a \in ToSet(r) <=> \E k : Holds(code, b, i, k) /\ a = Held(code, b, i, k)
  <2>1. Arms(b, i, r)
    BY <1>3, <1>5, ArmsFacts
  <2> QED
    BY ONLY <1>2, <2>1 DEF Arms
<1>8. DOMAIN r = 1..Len(r)
  BY <1>7, LenProperties
<1>9. PICK new : new = ToSet(r) \union {n + 1}
  OBVIOUS
<1>10. PICK c1, c2 : c1 = r[1] /\ c2 = r[2]
  OBVIOUS
<1>11. /\ new \subseteq Nat /\ c1 \in new /\ c2 \in new /\ cont \in new
       /\ 1 \in 1..Len(r) /\ 2 \in 1..Len(r)
       /\ c1 \in ToSet(r) /\ c2 \in ToSet(r) /\ c1 # c2 /\ c1 # b /\ c2 # b
       /\ c1 \in 1..n /\ c2 \in 1..n
  <2>1. 1 \in 1..Len(r) /\ 2 \in 1..Len(r)
    BY <1>6
  <2>2. ToSet(r) \subseteq Nat
    BY <1>7
  <2>3. cont = n + 1
    BY <1>1, <1>2
  <2>4. cont \in new /\ new \subseteq Nat
    BY ONLY n \in Nat, <1>9, <2>2, <2>3
  <2>5. c1 \in ToSet(r) /\ c2 \in ToSet(r)
    BY <1>7, <1>10, <2>1
  <2>6. c1 \in new /\ c2 \in new
    BY <1>9, <2>5
  <2>7. c1 # c2
    BY <1>7, <1>8, <1>10, <2>1 DEF IsInjective
  <2>8. c1 # b /\ c2 # b /\ c1 \in 1..n /\ c2 \in 1..n
    BY ONLY <1>7, <2>5
  <2> QED
    BY <2>1, <2>4, <2>5, <2>6, <2>7, <2>8
<1>31. PICK condition, o, p :
         /\ condition = Last(code[c1]) /\ o = OpTo("br", "", <<c1>>)
         /\ p = OpTo("condbr", condition.arg, <<c2, cont>>)
  OBVIOUS
<1>32. /\ code[c1] \in Seq(Operation) /\ code[c1] # <<>>
       /\ code[c2] \in Seq(Operation) /\ code[c2] # <<>>
       /\ TerminatorOK(Last(code[c2]), FALSE, {}, "cminus.while", 2)
       /\ condition \in Operation
  <2>1. /\ code[c1] \in Seq(Operation) /\ code[c1] # <<>>
        /\ code[c2] \in Seq(Operation) /\ code[c2] # <<>>
        /\ TerminatorOK(Last(code[c2]), FALSE, {}, "cminus.while", 2)
    BY <1>4, <1>7, <1>10, <1>11
  <2>2. PICK q : q = code[c1]
    OBVIOUS
  <2>3. q[Len(q)] \in Operation
    BY <2>1, <2>2, PopFacts
  <2> QED
    BY <1>31, <2>1, <2>2, <2>3 DEF Last
<1>12. o \in Operation /\ Jump(o, new) /\ p \in Operation /\ Jump(p, new)
  <2>1. <<c1>> \in Seq(new) /\ <<c2, cont>> \in Seq(new)
    BY ONLY <1>11, PairFacts
  <2>2. PICK to, too, arg : to = <<c1>> /\ too = <<c2, cont>> /\ arg = condition.arg
    OBVIOUS
  <2>3. o = OpTo("br", "", to) /\ p = OpTo("condbr", arg, too)
    BY <1>31, <2>2
  <2>4. /\ arg \in Symbol \union Operator \union Callee \union
                    {"", "cond", "index", "void", "value", "zero"}
        /\ to \in Seq(new) /\ too \in Seq(new)
    BY <1>32, <2>1, <2>2, ArgumentFacts
  <2>5. o \in Operation /\ Jump(o, new)
    BY <1>11, <2>3, <2>4, BranchFacts
  <2>6. p \in Operation /\ Jump(p, new)
    BY <1>11, <2>3, <2>4, BranchFacts
  <2> QED
    BY <2>5, <2>6
<1>13. PICK before, behind : before = Append(Before(b, i), o) /\ behind = Behind(b, i)
  OBVIOUS
<1>14. /\ before \in Seq(Operation) /\ Len(before) = i /\ before[i] = o
       /\ \A l \in 1..(i - 1) : before[l] = code[b][l]
       /\ behind \in Seq(Operation) /\ Len(behind) = Len(code[b]) - i
       /\ \A l \in 1..(Len(code[b]) - i) : behind[l] = code[b][i + l]
  <2>1. PICK q : q = code[b]
    OBVIOUS
  <2>2. q \in Seq(Operation) /\ i \in 1..Len(q)
    BY <1>1, <2>1
  <2>3. before = Append(SubSeq(q, 1, i - 1), o) /\ behind = SubSeq(q, i + 1, Len(q))
    BY <1>13, <2>1 DEF Before, Behind
  <2> QED
    BY <1>12, <2>1, <2>2, <2>3, SplitFacts
<1>15. PICK now, end : /\ now = Append(Front(code[c1]), p)
                       /\ end = branchInsteadOfYield(code[c2], c1)
  OBVIOUS
<1>16. PICK e : e = [code EXCEPT ![b] = before, ![c1] = now, ![c2] = end]
  OBVIOUS
<1>17. /\ now \in Seq(Operation) /\ EndsWithJump(code[c1], now, Len(code[c1]), new)
       /\ end \in Seq(Operation)
       /\ \/ end = code[c2] /\ Last(code[c2]).op \notin {"cminus.yield", "cminus.condition"}
          \/ EndsWithJump(code[c2], end, Len(code[c2]), new)
  <2>1. PICK q : q = code[c1]
    OBVIOUS
  <2>2. now = Append(Front(q), p) /\ q \in Seq(Operation) /\ q # <<>>
    BY <1>15, <1>32, <2>1
  <2>3. now \in Seq(Operation) /\ EndsWithJump(q, now, Len(q), new)
    BY <1>12, <2>2, RewriteFacts
  <2>4. PICK u, holder, k : u = code[c2] /\ holder = "cminus.while" /\ k = 2
    OBVIOUS
  <2>5. /\ u \in Seq(Operation) /\ u # <<>>
        /\ TerminatorOK(Last(u), FALSE, {}, holder, k) /\ ~(holder = "cminus.while" /\ k = 1)
    <3>1. k # 1
      BY <2>4
    <3> QED
      BY <1>32, <2>4, <3>1, Zenon
  <2>6. end = branchInsteadOfYield(u, c1)
    BY <1>15, <2>4
  <2>7. /\ end \in Seq(Operation)
        /\ \/ end = u /\ Last(u).op \notin {"cminus.yield", "cminus.condition"}
           \/ EndsWithJump(u, end, Len(u), new)
    BY <1>11, <2>5, <2>6, YieldFacts
  <2> QED
    BY <2>1, <2>3, <2>4, <2>7
<1>18. /\ DOMAIN e = 1..n /\ e[b] = before /\ e[c1] = now /\ e[c2] = end
       /\ \A y \in 1..n : y # b /\ y \notin ToSet(r) => e[y] = code[y]
  <2>1. DOMAIN code = 1..n /\ b \in 1..n
    BY <1>1, <1>2, LenProperties
  <2> QED
    BY <1>11, <1>16, <2>1
<1>33. \A a \in ToSet(r) : a = c1 \/ a = c2
  <2>1. \A k \in 1..Len(r) : k = 1 \/ k = 2
    BY <1>6
  <2>2. \A a \in ToSet(r) : \E k \in 1..Len(r) : a = r[k]
    BY <1>8 DEF ToSet
  <2> QED
    BY <1>10, <2>1, <2>2
<1>20. e \in Seq(Seq(Operation)) /\ Len(e) = n
  <2>1. \A y \in 1..n : e[y] \in Seq(Operation)
    <3>1. \A y \in 1..n : code[y] \in Seq(Operation)
      BY <1>1, <1>2, ElementOfSeq
    <3> QED
      BY <1>14, <1>17, <1>18, <1>33, <3>1
  <2>2. PICK S : S = Seq(Operation)
    OBVIOUS
  <2>3. e \in [1..n -> S]
    BY <1>16, <1>18, <2>1, <2>2
  <2>4. e \in Seq(S) /\ Len(e) = n
    BY ONLY n \in Nat, <2>3
  <2> QED
    BY <2>2, <2>4
<1>21. code' = e \o <<behind>>
  <2>1. code' = [code EXCEPT
                   ![b] = Append(Before(b, i), OpTo("br", "", <<code[b][i].to[1]>>)),
                   ![code[b][i].to[1]] =
                     Append(Front(@), OpTo("condbr", Last(code[code[b][i].to[1]]).arg,
                                           <<code[b][i].to[2], cont>>)),
                   ![code[b][i].to[2]] = branchInsteadOfYield(@, code[b][i].to[1])]
                  \o <<Behind(b, i)>>
    BY Zenon DEF WhileLowering
  <2>2. code' = [code EXCEPT ![b] = before, ![c1] = Append(Front(@), p),
                             ![c2] = branchInsteadOfYield(@, c1)] \o <<behind>>
    BY <1>3, <1>10, <1>13, <1>31, <2>1
  <2>3. [code EXCEPT ![b] = before, ![c1] = Append(Front(@), p),
                     ![c2] = branchInsteadOfYield(@, c1)]
        = [code EXCEPT ![b] = before, ![c1] = now, ![c2] = end]
    BY <1>11, <1>15
  <2> QED
    BY <1>16, <2>2, <2>3
<1>22. /\ code' \in Seq(Seq(Operation)) /\ Len(code') = n + 1
       /\ \A y \in 1..n : code'[y] = e[y]
       /\ code'[n + 1] = behind
  <2>1. PICK S, d : S = Seq(Operation) /\ d = e \o <<behind>>
    OBVIOUS
  <2>2. e \in Seq(S) /\ behind \in S
    BY <1>14, <1>20, <2>1
  <2>3. /\ d \in Seq(S) /\ Len(d) = Len(e) + 1
        /\ \A y \in 1..Len(e) : d[y] = e[y]
        /\ d[Len(e) + 1] = behind
    BY ONLY <2>1, <2>2, JoinOne
  <2> QED
    BY <1>20, <1>21, <2>1, <2>3
<1>23. New(code, code', ToSet(r)) = new
  BY <1>2, <1>9, <1>22 DEF New
<1>24. Opened(code, code', b, i, ToSet(r))
  <2>1. EndsWithJump(code[b], code'[b], i, new)
    BY <1>1, <1>2, <1>12, <1>14, <1>18, <1>22 DEF EndsWithJump
  <2>2. \A a \in ToSet(r) :
          \/ code'[a] = code[a] /\ Last(code[a]).op \notin {"cminus.yield", "cminus.condition"}
          \/ EndsWithJump(code[a], code'[a], Len(code[a]), new)
    BY <1>11, <1>17, <1>18, <1>22, <1>33
  <2>3. \A y \in 1..n : y # b /\ y \notin ToSet(r) => code'[y] = code[y]
    BY <1>18, <1>22
  <2>4. (Len(code) + 2)..Len(code') = {}
    BY <1>2, <1>22
  <2> QED
    BY <1>2, <1>14, <1>22, <1>23, <2>1, <2>2, <2>3, <2>4 DEF Opened
<1>25. PICK blocks : blocks = <<c1, c2, cont>>
  OBVIOUS
<1>26. /\ blocks \in Seq(1..(n + 1)) /\ IsInjective(blocks) /\ ToSet(blocks) = new
       /\ ToSet(blocks) \cap ToSet(body) = {}
  <2>1. blocks = Append(r, cont)
    <3>1. r = <<c1, c2>>
      BY <1>6, <1>7, <1>10
    <3> QED
      BY <1>25, <3>1
  <2>2. blocks \in Seq(1..(n + 1)) /\ IsInjective(blocks) /\ ToSet(blocks) = new
    BY <1>1, <1>2, <1>7, <1>9, <2>1, ThenCont
  <2>3. n + 1 \notin ToSet(body)
    BY <1>1, <1>2
  <2> QED
    BY <1>7, <1>9, <2>2, <2>3
<1>27. body' = Inlined(b, blocks)
  <2>1. body' = Inlined(b, <<code[b][i].to[1], code[b][i].to[2], cont>>)
    BY Zenon DEF WhileLowering
  <2> QED
    BY <1>3, <1>10, <1>25, <2>1
<1>28. /\ body' \in Seq(1..(n + 1)) /\ body' # <<>> /\ IsInjective(body')
       /\ ToSet(body') = ToSet(body) \union new /\ body'[1] = body[1]
  <2>1. n + 1 \in Nat /\ Len(code) <= n + 1
    BY <1>2
  <2> QED
    BY <1>26, <1>27, <2>1, BodyGrows
<1>29. Len(code) < Len(code')
  BY <1>2, <1>22
<1>30. Opens(code, body, code', body', b, i, ToSet(r))
  BY <1>5, <1>7, <1>22, <1>23, <1>24, <1>28, <1>29 DEF Opens
<1> QED
  BY <1>3, <1>30



-----------------------------------------------------------------------------
(* The return that is lowered stays where it is.                           *)
Returned(c, d, b, i, o) ==
  /\ d \in Seq(Seq(Operation)) /\ Len(d) = Len(c)
  /\ \A y \in 1..Len(c) : /\ d[y] \in Seq(Operation) /\ Len(d[y]) = Len(c[y])
                          /\ y # b => d[y] = c[y]
                          /\ \A j \in 1..Len(c[y]) : y # b \/ j # i => d[y][j] = c[y][j]
  /\ d[b][i] = o /\ o \in Operation /\ o.op = "return" /\ o.arg = c[b][i].arg /\ o.to = <<>>
  /\ \A x, j, k : Holds(d, x, j, k) <=> Holds(c, x, j, k)
  /\ \A x, j, k : Holds(c, x, j, k) => Held(d, x, j, k) = Held(c, x, j, k)
  /\ \A x, j, k : Holds(c, x, j, k) => d[x][j] = c[x][j]

LEMMA ReturnHolds ==
  ASSUME NEW c, NEW s, Typed(c, s), NEW b \in 1..Len(c), NEW i \in 1..Len(c[b]),
         c[b][i].op = "cminus.return", NEW d, NEW o, o = Op("return", c[b][i].arg),
         d = [c EXCEPT ![b] = [@ EXCEPT ![i] = o]]
  PROVE  Returned(c, d, b, i, o)
<1>1. PICK n \in Nat : n = Len(c) /\ c \in Seq(Seq(Operation)) /\ DOMAIN c = 1..n
  BY TypedFacts, LenProperties DEF Typed
<1>2. \A y \in 1..n : c[y] \in Seq(Operation) /\ Len(c[y]) \in Nat /\ DOMAIN c[y] = 1..Len(c[y])
  BY <1>1, TypedFacts, LenProperties
<1>3. PICK q : q = c[b]
  OBVIOUS
<1>4. q \in Seq(Operation) /\ Len(q) \in Nat /\ DOMAIN q = 1..Len(q) /\ i \in 1..Len(q)
  BY <1>1, <1>2, <1>3
<1>5. /\ o \in Operation /\ o.op = "return" /\ o.arg = q[i].arg /\ o.to = <<>>
  <2>1. q[i] \in Operation
    BY <1>4, ElementOfSeq
  <2>2. PICK arg : arg = q[i].arg
    OBVIOUS
  <2>3. arg \in Symbol \union Operator \union Callee \union
                  {"", "cond", "index", "void", "value", "zero"}
    BY <2>1, <2>2, ArgumentFacts
  <2>4. PICK name : name = "return"
    OBVIOUS
  <2>5. name \in Names
    BY <2>4, Zenon DEF Names, Terminators
  <2>6. o = Op(name, arg)
    BY <1>3, <2>2, <2>4
  <2>7. o \in Operation /\ o.op = name /\ o.arg = arg /\ o.to = <<>>
    BY ONLY <2>3, <2>5, <2>6, ArgumentFacts
  <2> QED
    BY <2>2, <2>4, <2>7
<1>6. PICK u : u = [q EXCEPT ![i] = o]
  OBVIOUS
<1>7. /\ u \in Seq(Operation) /\ Len(u) = Len(q) /\ u[i] = o
      /\ \A j \in 1..Len(q) : j # i => u[j] = q[j]
  <2>1. PICK S, l : S = Operation /\ l = Len(q) /\ l \in Nat
    BY <1>4
  <2>2. \A j \in 1..l : q[j] \in S
    BY <1>4, <2>1, ElementOfSeq
  <2>3. u \in [1..l -> S]
    BY <1>4, <1>5, <1>6, <2>1, <2>2
  <2>4. u \in Seq(S) /\ Len(u) = l
    BY ONLY <2>1, <2>3
  <2> QED
    BY <1>4, <1>6, <2>1, <2>4
<1>8. d = [c EXCEPT ![b] = u]
  BY <1>3, <1>6
<1>9. /\ d \in Seq(Seq(Operation)) /\ Len(d) = n /\ d[b] = u
      /\ \A y \in 1..n : y # b => d[y] = c[y]
  <2>1. PICK S : S = Seq(Operation)
    OBVIOUS
  <2>2. d \in [1..n -> S]
    BY <1>1, <1>2, <1>7, <1>8, <2>1
  <2>3. d \in Seq(S) /\ Len(d) = n
    BY ONLY n \in Nat, <2>2
  <2> QED
    BY <1>1, <1>8, <2>1, <2>3
<1>10. \A y \in 1..n : /\ d[y] \in Seq(Operation) /\ Len(d[y]) = Len(c[y])
                       /\ y # b => d[y] = c[y]
                       /\ \A j \in 1..Len(c[y]) : y # b \/ j # i => d[y][j] = c[y][j]
  BY <1>2, <1>3, <1>7, <1>9
<1>11. o.op \notin RegionOps /\ c[b][i].op \notin RegionOps
  BY <1>5, Zenon DEF RegionOps
<1>12. \A x, j, k : Holds(d, x, j, k) <=> Holds(c, x, j, k)
  <2> SUFFICES ASSUME NEW x, NEW j, NEW k
               PROVE  Holds(d, x, j, k) <=> Holds(c, x, j, k)
    OBVIOUS
  <2>1. CASE x = b /\ j = i
    BY <1>3, <1>7, <1>9, <1>11, <2>1 DEF Holds
  <2>2. CASE ~(x = b /\ j = i)
    <3>1. CASE x \in 1..n /\ j \in 1..Len(c[x])
      <4>1. d[x][j] = c[x][j] /\ Len(d[x]) = Len(c[x])
        BY <1>10, <2>2, <3>1
      <4> QED
        BY <1>1, <1>9, <3>1, <4>1 DEF Holds
    <3>2. CASE ~(x \in 1..n /\ j \in 1..Len(c[x]))
      BY <1>1, <1>9, <1>10, <3>2 DEF Holds
    <3> QED
      BY <3>1, <3>2
  <2> QED
    BY <2>1, <2>2
<1>13. \A x, j, k : Holds(c, x, j, k) => d[x][j] = c[x][j]
  <2> SUFFICES ASSUME NEW x, NEW j, NEW k, Holds(c, x, j, k)
               PROVE  d[x][j] = c[x][j]
    OBVIOUS
  <2>1. x \in 1..n /\ j \in 1..Len(c[x]) /\ ~(x = b /\ j = i)
    BY <1>1, <1>11 DEF Holds
  <2> QED
    BY <1>10, <2>1
<1>14. \A x, j, k : Holds(c, x, j, k) => Held(d, x, j, k) = Held(c, x, j, k)
  BY <1>13 DEF Held
<1> QED
  <2>1. d[b][i] = o /\ o.arg = c[b][i].arg
    BY <1>3, <1>5, <1>7, <1>9
  <2>2. d \in Seq(Seq(Operation)) /\ Len(d) = Len(c)
    BY <1>1, <1>9
  <2> QED
    BY ONLY <1>1, <1>5, <1>10, <1>12, <1>13, <1>14, <2>1, <2>2 DEF Returned

Returns(c, d, b, i, o) ==
  /\ c[b][i].op = "cminus.return" /\ o = Op("return", c[b][i].arg)
  /\ d = [c EXCEPT ![b] = [@ EXCEPT ![i] = o]]

LEMMA ReturnKeeps ==
  ASSUME NEW c, NEW s, Typed(c, s), NEW void, Ordered(c, s, void), Single(c),
         NEW b \in ToSet(s), NEW i \in 1..Len(c[b]), NEW d, NEW o, Returns(c, d, b, i, o),
         NEW rank, Nested(c, s, rank)
  PROVE  Typed(d, s) /\ Single(d) /\ Ordered(d, s, void) /\ Nested(d, s, rank) /\ Len(d) = Len(c)
<1>1. b \in 1..Len(c) /\ \A y \in ToSet(s) : y \in 1..Len(c)
  BY TypedFacts
<1>8. Returned(c, d, b, i, o)
  BY <1>1, ReturnHolds DEF Returns
<1>10. c[b][i].op = "cminus.return"
  BY DEF Returns
<1>2. /\ d \in Seq(Seq(Operation)) /\ Len(d) = Len(c)
      /\ \A y \in 1..Len(c) : /\ d[y] \in Seq(Operation) /\ Len(d[y]) = Len(c[y])
                              /\ y # b => d[y] = c[y]
                              /\ \A j \in 1..Len(c[y]) : y # b \/ j # i => d[y][j] = c[y][j]
      /\ d[b][i] = o /\ o \in Operation /\ o.op = "return" /\ o.arg = c[b][i].arg /\ o.to = <<>>
      /\ \A x, j, k : Holds(d, x, j, k) <=> Holds(c, x, j, k)
      /\ \A x, j, k : Holds(c, x, j, k) => Held(d, x, j, k) = Held(c, x, j, k)
      /\ \A x, j, k : Holds(c, x, j, k) => d[x][j] = c[x][j]
  BY ONLY <1>8 DEF Returned
<1>9. /\ \A x, j, k : Holds(d, x, j, k) <=> Holds(c, x, j, k)
      /\ \A x, j, k : Holds(c, x, j, k) => Held(d, x, j, k) = Held(c, x, j, k)
      /\ \A x, j, k : Holds(c, x, j, k) => d[x][j] = c[x][j]
  BY ONLY <1>8 DEF Returned
<1>3. Typed(d, s)
  <2>1. \A x \in 1..Len(d) : \A j \in 1..Len(d[x]) :
          d[x][j].to \in Seq(1..Len(d)) /\ RegionsOK(d[x][j])
    <3> SUFFICES ASSUME NEW x \in 1..Len(d), NEW j \in 1..Len(d[x])
                 PROVE  d[x][j].to \in Seq(1..Len(d)) /\ RegionsOK(d[x][j])
      OBVIOUS
    <3>1. CASE x = b /\ j = i
      <4>1. <<>> \in Seq(1..Len(d))
        OBVIOUS
      <4> QED
        BY <1>2, <3>1, <4>1 DEF RegionsOK
    <3>2. CASE x # b \/ j # i
      <4>1. d[x][j] = c[x][j] /\ x \in 1..Len(c) /\ j \in 1..Len(c[x])
        BY <1>2, <3>2
      <4> QED
        BY <1>2, <4>1 DEF Typed
    <3> QED
      BY <3>1, <3>2
  <2>2. s \in Seq(1..Len(d)) /\ s # <<>> /\ IsInjective(s)
    BY <1>2 DEF Typed
  <2> QED
    BY <1>2, <2>1, <2>2 DEF Typed
<1>4. Single(d)
  <2> SUFFICES ASSUME NEW x, NEW j, NEW k, NEW y, NEW l, NEW m, Holds(d, x, j, k),
                      Holds(d, y, l, m), Held(d, x, j, k) = Held(d, y, l, m)
               PROVE  x = y /\ j = l /\ k = m
    BY Zenon DEF Single
  <2>1. Holds(c, x, j, k) /\ Holds(c, y, l, m)
    BY ONLY <1>9, Holds(d, x, j, k), Holds(d, y, l, m)
  <2>2. Held(c, x, j, k) = Held(c, y, l, m)
    BY ONLY <1>9, <2>1, Held(d, x, j, k) = Held(d, y, l, m)
  <2> QED
    BY <2>1, <2>2, Zenon DEF Single
<1>5. \A y : Placed(d, s, y) <=> Placed(c, s, y)
  BY ONLY <1>9 DEF Placed
<1>6. Nested(d, s, rank)
  BY ONLY <1>2, <1>5, <1>9, Nested(c, s, rank) DEF Nested
<1>7. Ordered(d, s, void)
  <2>1. ASSUME NEW y, Placed(d, s, y)
        PROVE  GlobalsExist(d[y], Globals) /\ ReturnsOK(d[y], void)
    <3>1. /\ y \in 1..Len(c) /\ GlobalsExist(c[y], Globals) /\ ReturnsOK(c[y], void)
          /\ Len(d[y]) = Len(c[y])
      BY <1>2, <1>5, <2>1, TypedFacts DEF Ordered
    <3>2. GlobalsExist(d[y], Globals)
      BY <1>2, <3>1 DEF GlobalsExist
    <3>3. ReturnsOK(d[y], void)
      BY <1>2, <1>10, <3>1 DEF ReturnsOK
    <3> QED
      BY <3>2, <3>3
  <2>2. ASSUME NEW y \in ToSet(s)
        PROVE  BlockOK(d[y]) /\ TerminatorOK(Last(d[y]), TRUE, ToSet(Tail(s)), "func.func", 1)
    <3>1. /\ BlockOK(c[y]) /\ TerminatorOK(Last(c[y]), TRUE, ToSet(Tail(s)), "func.func", 1)
          /\ y \in 1..Len(c)
      BY <1>1 DEF Ordered
    <3>2. CASE y = b
      <4>1. o.op \in Terminators /\ c[b][i].op \in Terminators
        BY <1>2, <1>10, Zenon DEF Terminators
      <4>2. i = Len(c[b]) /\ c[b] # <<>>
        BY <3>1, <3>2, <4>1 DEF BlockOK
      <4>3. /\ Len(d[b]) = Len(c[b]) /\ d[b] \in Seq(Operation) /\ c[b] \in Seq(Operation)
            /\ \A j \in 1..Len(c[b]) : j # i => d[b][j] = c[b][j]
        BY <1>1, <1>2, TypedFacts
      <4>4. d[b] # <<>>
        BY <4>2, <4>3, EmptySeq
      <4>5. Last(d[b]) = o
        BY <1>2, <4>2, <4>3 DEF Last
      <4>6. BlockOK(d[b])
        BY <1>2, <3>1, <3>2, <4>1, <4>2, <4>3, <4>4 DEF BlockOK
      <4>7. TerminatorOK(o, TRUE, ToSet(Tail(s)), "func.func", 1)
        BY <1>2, Zenon DEF TerminatorOK
      <4> QED
        BY <3>2, <4>5, <4>6, <4>7
    <3>3. CASE y # b
      BY <1>2, <3>1, <3>3
    <3> QED
      BY <3>2, <3>3
  <2>3. ASSUME NEW x, NEW j, NEW k, Holds(d, x, j, k)
        PROVE  /\ Held(d, x, j, k) \notin ToSet(s)
               /\ BlockOK(d[Held(d, x, j, k)])
               /\ TerminatorOK(Last(d[Held(d, x, j, k)]), FALSE, {}, d[x][j].op, k)
    <3>1. PICK y : y = Held(c, x, j, k)
      OBVIOUS
    <3>2. /\ Holds(c, x, j, k) /\ Held(d, x, j, k) = y /\ d[x][j] = c[x][j]
          /\ y \in 1..Len(c)
      <4>1. Holds(c, x, j, k) /\ Held(d, x, j, k) = y /\ d[x][j] = c[x][j]
        BY ONLY <1>9, <2>3, <3>1
      <4> QED
        BY <3>1, <4>1, TypedFacts
    <3>3. /\ y \notin ToSet(s) /\ BlockOK(c[y])
          /\ TerminatorOK(Last(c[y]), FALSE, {}, c[x][j].op, k)
      BY <3>1, <3>2 DEF Ordered
    <3>4. d[y] = c[y]
      BY <1>2, <3>2, <3>3
    <3> QED
      BY <3>2, <3>3, <3>4
  <2> QED
    BY <2>1, <2>2, <2>3 DEF Ordered
<1> QED
  BY <1>2, <1>3, <1>4, <1>6, <1>7


(* Whichever pattern is applied, to whichever operation of the body.       *)
LEMMA PatternKeeps ==
  ASSUME Typed(code, body), NEW void, Ordered(code, body, void), Single(code),
         \E rank : Nested(code, body, rank), implicit \in 0..Len(code),
         NEW b \in ToSet(body), NEW i \in 1..Len(code[b]),
         \/ IndexCheckLowering(b, i) \/ IfLowering(b, i)
         \/ WhileLowering(b, i) \/ ReturnLowering(b, i)
  PROVE  /\ Typed(code', body') /\ Single(code') /\ Ordered(code', body', void)
         /\ \E rank : Nested(code', body', rank)
         /\ implicit' \in 0..Len(code')
<1>1. PICK rank : Nested(code, body, rank)
  OBVIOUS
<1>2. Len(code) \in Nat
  BY TypedFacts
<1>3. ASSUME NEW arms, Opens(code, body, code', body', b, i, arms), ReturnMoves(b)
      PROVE  /\ Typed(code', body') /\ Single(code') /\ Ordered(code', body', void)
             /\ \E high : Nested(code', body', high)
             /\ implicit' \in 0..Len(code')
  <2>1. PICK c, s, d, t : c = code /\ s = body /\ d = code' /\ t = body'
    OBVIOUS
  <2>2. Typed(c, s) /\ Ordered(c, s, void) /\ Single(c) /\ Nested(c, s, rank)
    BY <1>1, <2>1
  <2>3. Opens(c, s, d, t, b, i, arms)
    BY <1>3, <2>1
  <2>4. Typed(d, t)
    BY ONLY <2>2, <2>3, OpensTyped
  <2>5. Single(d)
    BY ONLY <2>2, <2>3, OpensSingle
  <2>6. Ordered(d, t, void)
    BY ONLY <2>2, <2>3, OpensOrdered
  <2>7. \E high : Nested(d, t, high)
    BY ONLY <2>2, <2>3, OpensNested
  <2>8. Len(d) \in Nat /\ Len(c) < Len(d)
    BY ONLY <2>2, <2>3, OpensFacts
  <2>9. implicit' \in 0..Len(code')
    <3>1. implicit' = Len(c) + 1 \/ implicit' = implicit
      BY <1>3, <2>1 DEF ReturnMoves, cont
    <3>2. Len(c) \in Nat /\ implicit \in 0..Len(c)
      BY <1>2, <2>1
    <3>3. implicit' \in 0..Len(d)
      BY ONLY <2>8, <3>1, <3>2
    <3> QED
      BY <2>1, <3>3
  <2> QED
    BY <2>1, <2>4, <2>5, <2>6, <2>7, <2>9
<1>4. CASE IndexCheckLowering(b, i)
  <2>1. Opens(code, body, code', body', b, i, {})
    BY <1>4, IndexCheckOpens
  <2>2. ReturnMoves(b)
    BY <1>4, Zenon DEF IndexCheckLowering
  <2> QED
    BY <1>3, <2>1, <2>2
<1>5. CASE IfLowering(b, i)
  <2>1. Opens(code, body, code', body', b, i, ToSet(code[b][i].to))
    BY <1>5, IfOpens
  <2>2. ReturnMoves(b)
    BY <1>5, Zenon DEF IfLowering
  <2> QED
    BY <1>3, <2>1, <2>2
<1>6. CASE WhileLowering(b, i)
  <2>1. Opens(code, body, code', body', b, i, ToSet(code[b][i].to))
    BY <1>6, WhileOpens
  <2>2. ReturnMoves(b)
    BY <1>6, Zenon DEF WhileLowering
  <2> QED
    BY <1>3, <2>1, <2>2
<1>7. CASE ReturnLowering(b, i)
  <2>1. /\ code[b][i].op = "cminus.return" /\ body' = body /\ implicit' = implicit
        /\ code' = [code EXCEPT ![b][i] = Op("return", @.arg)]
    BY <1>7 DEF ReturnLowering
  <2>2. PICK c, s, d, o : c = code /\ s = body /\ d = code' /\ o = Op("return", code[b][i].arg)
    OBVIOUS
  <2>3. d = [c EXCEPT ![b] = [@ EXCEPT ![i] = o]]
    BY <2>1, <2>2
  <2>4. /\ Typed(c, s) /\ Ordered(c, s, void) /\ Single(c) /\ Nested(c, s, rank)
        /\ b \in ToSet(s) /\ i \in 1..Len(c[b]) /\ Returns(c, d, b, i, o)
    BY <1>1, <2>1, <2>2, <2>3 DEF Returns
  <2>5. /\ Typed(d, s) /\ Single(d) /\ Ordered(d, s, void) /\ Nested(d, s, rank)
        /\ Len(d) = Len(c)
    BY ONLY <2>4, ReturnKeeps
  <2> QED
    BY <2>1, <2>2, <2>5
<1> QED
  BY <1>4, <1>5, <1>6, <1>7

-----------------------------------------------------------------------------
(* The blocks that the entry block leads to.                               *)
LEMMA SizeFacts ==
  ASSUME NEW S, NEW s \in Seq(S), IsInjective(s)
  PROVE  IsFiniteSet(ToSet(s)) /\ Cardinality(ToSet(s)) = Len(s)
<1>1. PICK n \in Nat : n = Len(s) /\ DOMAIN s = 1..n /\ s \in [1..n -> S]
  BY LenProperties
<1>2. ToSet(s) = {s[k] : k \in 1..n}
  BY <1>1 DEF ToSet
<1>3. s \in [1..n -> ToSet(s)]
  BY <1>1, <1>2
<1>4. \A k, l \in 1..n : s[k] = s[l] => k = l
  BY <1>1 DEF IsInjective
<1>5. \A x \in ToSet(s) : \E k \in 1..n : s[k] = x
  BY <1>2
<1>6. s \in Bijection(1..n, ToSet(s))
  BY <1>3, <1>4, <1>5 DEF Bijection, Injection, Surjection
<1>7. ExistsBijection(1..n, ToSet(s))
  BY <1>6 DEF ExistsBijection
<1>8. IsFiniteSet(ToSet(s))
  BY <1>7, FS_NatBijection
<1> QED
  BY <1>1, <1>7, <1>8, FS_CountingElements

(* A set that grows until it does not has stopped growing after as many    *)
(* steps as there are elements.                                            *)
Steady(g) ==
  /\ g[0] # {}
  /\ \A n \in Nat : g[n] \subseteq g[n + 1] /\ (g[n + 1] = g[n] => g[n + 2] = g[n + 1])

LEMMA GrowthEnds ==
  ASSUME NEW T, IsFiniteSet(T), NEW g \in [Nat -> SUBSET T], Steady(g),
         NEW m \in Nat, m = Cardinality(T)
  PROVE  \A k \in Nat : m <= k => g[k] = g[m] /\ g[k + 1] = g[m]
<1> DEFINE Q == {n \in Nat : g[n + 1] = g[n] \/ n + 2 <= Cardinality(g[n + 1])}
<1>1. \A n \in Nat : IsFiniteSet(g[n]) /\ Cardinality(g[n]) \in Nat /\ Cardinality(g[n]) <= m
  BY FS_Subset, FS_CardinalityType
<1>2. ASSUME NEW n \in Nat, g[n + 1] # g[n]
      PROVE  Cardinality(g[n]) + 1 <= Cardinality(g[n + 1])
  <2>1. g[n] \in SUBSET g[n + 1]
    BY DEF Steady
  <2>2. n + 1 \in Nat
    OBVIOUS
  <2>3. /\ Cardinality(g[n]) <= Cardinality(g[n + 1])
        /\ Cardinality(g[n + 1]) = Cardinality(g[n]) => g[n + 1] = g[n]
    BY <1>1, <2>1, <2>2, FS_Subset
  <2>4. PICK x, y : x = Cardinality(g[n]) /\ y = Cardinality(g[n + 1])
    OBVIOUS
  <2>5. x \in Nat /\ y \in Nat /\ x <= y /\ x # y
    BY <1>1, <1>2, <2>2, <2>3, <2>4
  <2>6. x + 1 <= y
    BY ONLY <2>5
  <2> QED
    BY <2>4, <2>6
<1>3. 0 \in Q
  <2>1. CASE g[0 + 1] = g[0]
    BY <2>1
  <2>2. CASE g[0 + 1] # g[0]
    <3>1. Cardinality(g[0]) # 0
      BY <1>1, FS_EmptySet DEF Steady
    <3>2. Cardinality(g[0]) + 1 <= Cardinality(g[0 + 1])
      BY <1>2, <2>2
    <3>3. Cardinality(g[0]) \in Nat /\ Cardinality(g[0 + 1]) \in Nat
      BY <1>1
    <3>4. 0 + 2 <= Cardinality(g[0 + 1])
      BY ONLY <3>1, <3>2, <3>3
    <3> QED
      BY <3>4
  <2> QED
    BY <2>1, <2>2
<1>4. ASSUME NEW n \in Nat, n \in Q
      PROVE  n + 1 \in Q
  <2>1. CASE g[n + 1 + 1] = g[n + 1]
    BY <2>1
  <2>2. CASE g[n + 1 + 1] # g[n + 1]
    <3>1. n + 1 + 1 = n + 2 /\ n + 1 \in Nat /\ n + 2 \in Nat
      OBVIOUS
    <3>2. g[n + 1] # g[n]
      BY <2>2, <3>1 DEF Steady
    <3>3. n + 2 <= Cardinality(g[n + 1])
      BY <1>4, <3>2
    <3>4. Cardinality(g[n + 1]) + 1 <= Cardinality(g[n + 1 + 1])
      BY <1>2, <2>2, <3>1
    <3>5. Cardinality(g[n + 1]) \in Nat /\ Cardinality(g[n + 1 + 1]) \in Nat
      BY <1>1, <3>1
    <3>6. n + 1 + 2 <= Cardinality(g[n + 1 + 1])
      BY ONLY n \in Nat, <3>3, <3>4, <3>5
    <3> QED
      BY <3>1, <3>6
  <2> QED
    BY <2>1, <2>2
<1>5. m \in Q
  <2> HIDE DEF Q
  <2>1. Nat \subseteq Q
    BY <1>3, <1>4, SetInduction
  <2> QED
    BY <2>1
<1>6. g[m + 1] = g[m]
  <2>1. m + 1 \in Nat
    OBVIOUS
  <2>2. Cardinality(g[m + 1]) \in Nat /\ Cardinality(g[m + 1]) <= m
    BY <1>1, <2>1
  <2>3. ~(m + 2 <= Cardinality(g[m + 1]))
    BY ONLY m \in Nat, <2>2
  <2> QED
    BY <1>5, <2>3
<1> DEFINE R == {n \in Nat : g[m + n] = g[m] /\ g[m + n + 1] = g[m]}
<1>7. 0 \in R
  BY <1>6
<1>8. ASSUME NEW n \in Nat, n \in R
      PROVE  n + 1 \in R
  <2>1. m + n \in Nat /\ m + (n + 1) = m + n + 1 /\ m + (n + 1) + 1 = m + n + 2
    OBVIOUS
  <2>2. g[m + n + 2] = g[m + n + 1]
    BY <1>8, <2>1 DEF Steady
  <2> QED
    BY <1>8, <2>1, <2>2
<1>9. Nat \subseteq R
  <2> HIDE DEF R
  <2> QED
    BY <1>7, <1>8, SetInduction
<1> QED
  <2> SUFFICES ASSUME NEW k \in Nat, m <= k
               PROVE  g[k] = g[m] /\ g[k + 1] = g[m]
    OBVIOUS
  <2>1. PICK n \in Nat : k = m + n
    <3>1. k - m \in Nat /\ k = m + (k - m)
      OBVIOUS
    <3> QED
      BY <3>1
  <2>2. n \in R
    BY <1>9
  <2> QED
    BY <2>1, <2>2


(* One step along the branches.                                            *)
Onward(c, B) == UNION {{b} \union Successors(c, b) : b \in B}

LEMMA OnwardFacts ==
  ASSUME NEW c, NEW B
  PROVE  \A x : x \in Onward(c, B) <=> x \in B \/ \E b \in B : x \in Successors(c, b)
<1> SUFFICES ASSUME NEW x
             PROVE  x \in Onward(c, B) <=> x \in B \/ \E b \in B : x \in Successors(c, b)
  OBVIOUS
<1>1. ASSUME x \in Onward(c, B)
      PROVE  x \in B \/ \E b \in B : x \in Successors(c, b)
  BY <1>1 DEF Onward
<1>2. ASSUME NEW b \in B, x = b \/ x \in Successors(c, b)
      PROVE  x \in Onward(c, B)
  BY <1>2 DEF Onward
<1> QED
  BY <1>1, <1>2

Walks(c, e, g) == g[0] = {e} /\ \A n \in Nat : g[n + 1] = Onward(c, g[n])

LEMMA WalkExists ==
  ASSUME NEW c, NEW T, NEW e \in T, \A b \in T : Successors(c, b) \subseteq T
  PROVE  \E g \in [Nat -> SUBSET T] : Walks(c, e, g)
<1> DEFINE F == [x \in Nat \X SUBSET T |-> Onward(c, x[2])]
<1>1. \A B \in SUBSET T : Onward(c, B) \in SUBSET T
  BY OnwardFacts
<1>2. F \in [Nat \X SUBSET T -> SUBSET T]
  BY <1>1
<1>3. \A n \in Nat, B \in SUBSET T : F[<<n, B>>] = Onward(c, B)
  OBVIOUS
<1>4. {e} \in SUBSET T
  OBVIOUS
<1>5. PICK g \in [Nat -> SUBSET T] : Iterates(g, {e}, F)
  <2> HIDE DEF F
  <2> QED
    BY <1>2, <1>4, IterationExists, Zenon
<1>6. \A n \in Nat : g[n + 1] = Onward(c, g[n])
  <2> HIDE DEF F
  <2> QED
    BY <1>3, <1>5 DEF Iterates
<1>7. g[0] = {e}
  BY <1>5 DEF Iterates
<1> QED
  BY <1>6, <1>7 DEF Walks

LEMMA WalkSteady ==
  ASSUME NEW c, NEW e, NEW g, Walks(c, e, g)
  PROVE  Steady(g)
<1>1. g[0] # {}
  BY DEF Walks
<1>2. ASSUME NEW n \in Nat
      PROVE  g[n] \subseteq g[n + 1] /\ (g[n + 1] = g[n] => g[n + 2] = g[n + 1])
  <2>1. g[n + 1] = Onward(c, g[n])
    BY DEF Walks
  <2>2. n + 1 \in Nat /\ n + 1 + 1 = n + 2
    OBVIOUS
  <2>3. g[n + 2] = Onward(c, g[n + 1])
    BY <2>2 DEF Walks
  <2>4. g[n] \subseteq g[n + 1]
    BY <2>1, OnwardFacts
  <2> QED
    BY <2>1, <2>3, <2>4
<1> QED
  BY <1>1, <1>2 DEF Steady

ReachedEquation(c, s, f) ==
  f = [n \in 0..Len(s) |-> IF n = 0 THEN {s[1]} ELSE Onward(c, f[n - 1])]

LEMMA ReachableIs ==
  ASSUME NEW c, NEW s, Len(s) \in Nat, NEW g, Walks(c, s[1], g)
  PROVE  Reachable(c, s) = g[Len(s)]
<1>1. PICK l \in Nat : l = Len(s)
  OBVIOUS
<1>2. PICK f : f = CHOOSE h : ReachedEquation(c, s, h)
  OBVIOUS
<1>3. Reachable(c, s) = f[Len(s)]
  BY <1>2 DEF Reachable, ReachedEquation, Onward
<1>4. ReachedEquation(c, s, f)
  <2>1. PICK h : h = [n \in 0..l |-> g[n]]
    OBVIOUS
  <2>2. \A n \in 0..l : h[n] = IF n = 0 THEN {s[1]} ELSE Onward(c, h[n - 1])
    <3> SUFFICES ASSUME NEW n \in 0..l
                 PROVE  h[n] = IF n = 0 THEN {s[1]} ELSE Onward(c, h[n - 1])
      OBVIOUS
    <3>1. CASE n = 0
      BY <2>1, <3>1 DEF Walks
    <3>2. CASE n # 0
      <4>1. n - 1 \in Nat /\ n - 1 \in 0..l /\ n - 1 + 1 = n
        BY <3>2
      <4>2. g[n - 1 + 1] = Onward(c, g[n - 1])
        BY <4>1 DEF Walks
      <4> QED
        BY <2>1, <3>2, <4>1, <4>2
    <3> QED
      BY <3>1, <3>2
  <2>3. h = [n \in 0..l |-> IF n = 0 THEN {s[1]} ELSE Onward(c, h[n - 1])]
    BY <2>1, <2>2
  <2>4. ReachedEquation(c, s, h)
    BY <1>1, <2>3 DEF ReachedEquation
  <2> QED
    BY <1>2, <2>4, Zenon
<1>5. \A n \in 0..l : f[n] = IF n = 0 THEN {s[1]} ELSE Onward(c, f[n - 1])
  <2>1. f = [n \in 0..l |-> IF n = 0 THEN {s[1]} ELSE Onward(c, f[n - 1])]
    BY ONLY <1>1, <1>4 DEF ReachedEquation
  <2> QED
    BY ONLY <2>1, Zenon
<1> DEFINE Q == {n \in Nat : n <= l => f[n] = g[n]}
<1>6. 0 \in Q
  <2>1. 0 \in 0..l
    OBVIOUS
  <2>2. f[0] = {s[1]}
    BY <1>5, <2>1
  <2> QED
    BY <2>2 DEF Walks
<1>7. ASSUME NEW n \in Nat, n \in Q
      PROVE  n + 1 \in Q
  <2> SUFFICES ASSUME n + 1 <= l
               PROVE  f[n + 1] = g[n + 1]
    OBVIOUS
  <2>1. n + 1 \in 0..l /\ n + 1 # 0 /\ n + 1 - 1 = n /\ n <= l
    OBVIOUS
  <2>2. f[n + 1] = Onward(c, f[n])
    BY <1>5, <2>1
  <2>3. f[n] = g[n]
    BY <1>7, <2>1
  <2> QED
    BY <2>2, <2>3 DEF Walks
<1>8. Nat \subseteq Q
  <2> HIDE DEF Q
  <2> QED
    BY <1>6, <1>7, SetInduction
<1> QED
  BY <1>1, <1>3, <1>8

(* Branches lead on, and what they lead to is closed under them; and       *)
(* leaving out the rest of the blocks takes no block out of reach.         *)
LEMMA ReachableFacts ==
  ASSUME NEW c, NEW S, NEW s \in Seq(S), s # <<>>, IsInjective(s),
         \A b \in ToSet(s) : Successors(c, b) \subseteq ToSet(s),
         NEW R, R = Reachable(c, s)
  PROVE  /\ R \subseteq ToSet(s) /\ s[1] \in R
         /\ \A b \in R : Successors(c, b) \subseteq R
         /\ \A t \in Seq(S) : IsInjective(t) /\ t[1] = s[1] /\ ToSet(t) = R
              => Reachable(c, t) = R
<1>1. PICK T, m : T = ToSet(s) /\ m = Len(s) /\ m \in Nat
  BY LenProperties
<1>2. IsFiniteSet(T) /\ Cardinality(T) = m
  BY <1>1, SizeFacts
<1>3. s[1] \in T
  <2>1. m # 0 /\ DOMAIN s = 1..m
    BY <1>1, EmptySeq, LenProperties
  <2>2. 1 \in DOMAIN s
    BY <1>1, <2>1
  <2> QED
    BY <1>1, <2>2 DEF ToSet
<1>4. PICK g \in [Nat -> SUBSET T] : Walks(c, s[1], g)
  BY <1>1, <1>3, WalkExists
<1>5. R = g[m]
  BY <1>1, <1>4, ReachableIs
<1>6. Steady(g)
  BY <1>4, WalkSteady
<1>7. g[m + 1] = g[m]
  BY <1>1, <1>2, <1>6, GrowthEnds
<1>8. R \in SUBSET T /\ R = Onward(c, R)
  BY <1>1, <1>4, <1>5, <1>7 DEF Walks
<1>9. \A b \in R : Successors(c, b) \subseteq R
  BY <1>8, OnwardFacts
<1> DEFINE Q == {n \in Nat : s[1] \in g[n]}
<1>10. s[1] \in R
  <2>1. 0 \in Q
    BY <1>4 DEF Walks
  <2>2. ASSUME NEW n \in Nat, n \in Q
        PROVE  n + 1 \in Q
    BY <1>6, <2>2 DEF Steady
  <2> HIDE DEF Q
  <2>3. Nat \subseteq Q
    BY <2>1, <2>2, SetInduction
  <2>4. m \in Q
    BY <1>1, <2>3
  <2> USE DEF Q
  <2> QED
    BY <1>5, <2>4
<1> DEFINE P == {n \in Nat : g[n] \subseteq R}
<1>11. \A n \in Nat : g[n] \in SUBSET R
  <2>1. 0 \in P
    BY <1>4, <1>10 DEF Walks
  <2>2. ASSUME NEW n \in Nat, n \in P
        PROVE  n + 1 \in P
    <3>1. g[n + 1] = Onward(c, g[n])
      BY <1>4 DEF Walks
    <3>2. \A x \in g[n + 1] : x \in R
      BY <1>9, <2>2, <3>1, OnwardFacts
    <3> QED
      BY <3>2
  <2>3. Nat \subseteq P
    <3> HIDE DEF P
    <3> QED
      BY <2>1, <2>2, SetInduction
  <2> QED
    BY <2>3
<1>12. ASSUME NEW t \in Seq(S), IsInjective(t), t[1] = s[1], ToSet(t) = R
       PROVE  Reachable(c, t) = R
  <2>1. PICK l : l = Len(t) /\ l \in Nat
    BY LenProperties
  <2>2. IsFiniteSet(R) /\ Cardinality(R) = l
    BY <1>12, <2>1, SizeFacts
  <2>3. l <= m
    BY <1>2, <1>8, <2>2, FS_Subset
  <2>4. g \in [Nat -> SUBSET R]
    BY <1>4, <1>11
  <2>5. g[m] = g[l]
    BY <1>1, <1>6, <2>1, <2>2, <2>3, <2>4, GrowthEnds
  <2>6. Walks(c, t[1], g)
    BY <1>4, <1>12
  <2>7. Reachable(c, t) = g[l]
    BY <2>1, <2>6, ReachableIs
  <2> QED
    BY <1>5, <2>5, <2>7
<1> QED
  BY <1>1, <1>8, <1>9, <1>10, <1>12


-----------------------------------------------------------------------------
(* The blocks that are kept.                                               *)
KeptEquation(s, B, f) ==
  f = [k \in 0..Len(s) |->
         IF k = 0 THEN <<>>
         ELSE IF s[k] \in B THEN Append(f[k - 1], s[k]) ELSE f[k - 1]]
KeptOf(s, B) == CHOOSE f : KeptEquation(s, B, f)

LEMMA KeptIs ==
  ASSUME NEW B
  PROVE  Kept(B) = KeptOf(body, B)[Len(body)]
BY DEF Kept, KeptOf, KeptEquation

Adds(p, q, x, S) ==
  /\ p \in Seq(S) /\ IsInjective(p) /\ ToSet(p) = ToSet(q) \union {x}
  /\ Len(p) = Len(q) + 1 /\ (q # <<>> => p[1] = q[1]) /\ (q = <<>> => p[1] = x)

LEMMA OneMore ==
  ASSUME NEW S, NEW q \in Seq(S), IsInjective(q), NEW x \in S, x \notin ToSet(q),
         NEW p, p = Append(q, x)
  PROVE  Adds(p, q, x, S)
<1>1. PICK k \in Nat : k = Len(q) /\ DOMAIN q = 1..k
  BY LenProperties
<1>2. /\ p \in Seq(S) /\ Len(p) = k + 1 /\ p[k + 1] = x
      /\ \A l \in 1..k : p[l] = q[l]
  BY <1>1, AppendProperties
<1>3. DOMAIN p = 1..(k + 1)
  BY <1>2, LenProperties
<1>4. \A l \in 1..(k + 1) : l = k + 1 \/ l \in 1..k
  OBVIOUS
<1>5. \A l \in 1..k : l \in 1..(k + 1) /\ l # k + 1
  OBVIOUS
<1>6. \A y : y \in ToSet(q) <=> \E l \in 1..k : y = q[l]
  BY <1>1 DEF ToSet
<1>7. \A l \in 1..k : q[l] # x
  BY <1>6
<1>8. \A l, m \in 1..k : q[l] = q[m] => l = m
  BY <1>1 DEF IsInjective
<1>9. \A l, m \in 1..(k + 1) : p[l] = p[m] => l = m
  BY <1>2, <1>4, <1>7, <1>8
<1>10. IsInjective(p)
  BY <1>3, <1>9 DEF IsInjective
<1>11. \A y : y \in ToSet(p) <=> \E l \in 1..(k + 1) : y = p[l]
  BY <1>3 DEF ToSet
<1>12. k + 1 \in 1..(k + 1)
  OBVIOUS
<1>13. \A y : y \in ToSet(p) <=> y \in ToSet(q) \/ y = x
  BY <1>2, <1>4, <1>5, <1>6, <1>11, <1>12
<1>14. ToSet(p) = ToSet(q) \union {x}
  BY <1>13
<1>15. q = <<>> => p[1] = x
  BY <1>1, <1>2, EmptySeq
<1>16. q # <<>> => p[1] = q[1]
  <2>1. q # <<>> => 1 \in 1..k
    BY <1>1, EmptySeq
  <2> QED
    BY <1>2, <2>1
<1> QED
  BY <1>1, <1>2, <1>10, <1>14, <1>15, <1>16 DEF Adds

LEMMA KeptFacts ==
  ASSUME NEW S, NEW s \in Seq(S), s # <<>>, IsInjective(s), NEW B, s[1] \in B,
         NEW t, t = KeptOf(s, B)[Len(s)]
  PROVE  /\ t \in Seq(S) /\ t # <<>> /\ IsInjective(t)
         /\ ToSet(t) = ToSet(s) \cap B /\ t[1] = s[1]
<1>1. PICK l \in Nat : l = Len(s) /\ DOMAIN s = 1..l
  BY LenProperties
<1>2. 1 <= l
  BY <1>1, EmptySeq
<1>3. \A k \in 1..l : s[k] \in S
  BY <1>1, ElementOfSeq
<1>4. PICK f : f = KeptOf(s, B)
  OBVIOUS
<1>5. KeptEquation(s, B, f)
  <2> DEFINE F == [x \in Nat \X Seq(S) |->
                     IF x[1] + 1 \in 1..l /\ s[x[1] + 1] \in B
                     THEN Append(x[2], s[x[1] + 1]) ELSE x[2]]
  <2>1. F \in [Nat \X Seq(S) -> Seq(S)]
    <3> SUFFICES ASSUME NEW n \in Nat, NEW q \in Seq(S)
                 PROVE  (IF n + 1 \in 1..l /\ s[n + 1] \in B
                         THEN Append(q, s[n + 1]) ELSE q) \in Seq(S)
      OBVIOUS
    <3>1. ASSUME n + 1 \in 1..l
          PROVE  Append(q, s[n + 1]) \in Seq(S)
      <4>1. s[n + 1] \in S
        BY <1>3, <3>1
      <4> QED
        BY <4>1, AppendProperties
    <3> QED
      BY <3>1
  <2>2. \A n \in Nat, q \in Seq(S) :
          F[<<n, q>>] = IF n + 1 \in 1..l /\ s[n + 1] \in B THEN Append(q, s[n + 1]) ELSE q
    OBVIOUS
  <2>3. <<>> \in Seq(S)
    OBVIOUS
  <2>4. PICK g \in [Nat -> Seq(S)] : Iterates(g, <<>>, F)
    <3> HIDE DEF F
    <3> QED
      BY <2>1, <2>3, IterationExists, Zenon
  <2>5. PICK h : h = [k \in 0..l |-> g[k]]
    OBVIOUS
  <2>6. ASSUME NEW k \in 0..l
        PROVE  h[k] = IF k = 0 THEN <<>>
                      ELSE IF s[k] \in B THEN Append(h[k - 1], s[k]) ELSE h[k - 1]
    <3>1. CASE k = 0
      BY <2>4, <2>5, <3>1 DEF Iterates
    <3>2. CASE k # 0
      <4> HIDE DEF F
      <4>1. PICK n \in Nat : n = k - 1
        BY <3>2
      <4>2. n \in 0..l /\ n + 1 = k /\ n + 1 \in 1..l
        BY <4>1
      <4>3. g[n + 1] = F[<<n, g[n]>>]
        BY <2>4 DEF Iterates
      <4>4. g[n] \in Seq(S)
        BY <2>4
      <4>5. g[n + 1] = IF s[n + 1] \in B THEN Append(g[n], s[n + 1]) ELSE g[n]
        BY <2>2, <4>2, <4>3, <4>4
      <4>6. h[k] = g[n + 1] /\ h[k - 1] = g[n]
        BY <2>5, <4>1, <4>2
      <4> QED
        BY <3>2, <4>2, <4>5, <4>6
    <3> QED
      BY <3>1, <3>2
  <2>7. h = [k \in 0..l |-> IF k = 0 THEN <<>>
                            ELSE IF s[k] \in B THEN Append(h[k - 1], s[k]) ELSE h[k - 1]]
    BY <2>5, <2>6
  <2>8. KeptEquation(s, B, h)
    BY <1>1, <2>7 DEF KeptEquation
  <2> QED
    BY <1>4, <2>8, Zenon DEF KeptOf
<1>6. \A k \in 0..l : f[k] = IF k = 0 THEN <<>>
                             ELSE IF s[k] \in B THEN Append(f[k - 1], s[k]) ELSE f[k - 1]
  <2>1. f = [k \in 0..l |-> IF k = 0 THEN <<>>
                            ELSE IF s[k] \in B THEN Append(f[k - 1], s[k]) ELSE f[k - 1]]
    BY ONLY <1>1, <1>5 DEF KeptEquation
  <2> QED
    BY ONLY <2>1, Zenon
<1> DEFINE Part(n, q) ==
      /\ q \in Seq(S) /\ IsInjective(q)
      /\ \A x : x \in ToSet(q) <=> x \in B /\ \E k \in 1..n : x = s[k]
      /\ 1 <= n => q # <<>> /\ q[1] = s[1]
    Q == {n \in Nat : n <= l => Part(n, f[n])}
<1>7. 0 \in Q
  <2>1. 0 \in 0..l /\ 1..0 = {} /\ ~(1 <= 0)
    OBVIOUS
  <2>2. f[0] = <<>>
    BY <1>6, <2>1
  <2>3. PICK q : q = <<>>
    OBVIOUS
  <2>4. q \in Seq(S) /\ DOMAIN q = {}
    BY <2>3
  <2>5. IsInjective(q) /\ ToSet(q) = {}
    BY <2>4 DEF IsInjective, ToSet
  <2>6. Part(0, q)
    BY <2>1, <2>4, <2>5
  <2> QED
    BY <2>2, <2>3, <2>6
<1>8. ASSUME NEW n \in Nat, n \in Q
      PROVE  n + 1 \in Q
  <2> SUFFICES ASSUME n + 1 <= l
               PROVE  Part(n + 1, f[n + 1])
    OBVIOUS
  <2>1. /\ n + 1 \in 0..l /\ n + 1 # 0 /\ n + 1 - 1 = n /\ n <= l /\ n + 1 \in 1..l
        /\ 1..n \subseteq 1..l /\ n + 1 \notin 1..n
        /\ \A k : k \in 1..(n + 1) <=> k \in 1..n \/ k = n + 1
    OBVIOUS
  <2>2. PICK q, p, e : q = f[n] /\ p = f[n + 1] /\ e = s[n + 1]
    OBVIOUS
  <2>3. Part(n, q)
    BY <1>8, <2>1, <2>2
  <2>4. p = IF e \in B THEN Append(q, e) ELSE q
    BY <1>6, <2>1, <2>2
  <2>5. e \in S
    BY <1>3, <2>1, <2>2
  <2>6. \A k \in 1..n : s[k] # e
    <3>1. \A k, m \in 1..l : s[k] = s[m] => k = m
      BY <1>1 DEF IsInjective
    <3> QED
      BY <2>1, <2>2, <3>1
  <2>7. \A x : (\E k \in 1..(n + 1) : x = s[k]) <=> (\E k \in 1..n : x = s[k]) \/ x = e
    BY <2>1, <2>2
  <2>8. n = 0 => e = s[1]
    BY <2>2
  <2>9. CASE e \in B
    <3>1. q \in Seq(S) /\ IsInjective(q) /\ e \notin ToSet(q) /\ p = Append(q, e)
      BY <2>3, <2>4, <2>6, <2>9
    <3>2. /\ p \in Seq(S) /\ IsInjective(p) /\ ToSet(p) = ToSet(q) \union {e}
          /\ Len(p) = Len(q) + 1 /\ (q # <<>> => p[1] = q[1]) /\ (q = <<>> => p[1] = e)
      <4>1. Adds(p, q, e, S)
        BY ONLY <2>5, <3>1, OneMore
      <4> QED
        BY <4>1 DEF Adds
    <3>3. \A x : x \in ToSet(p) <=> x \in B /\ \E k \in 1..(n + 1) : x = s[k]
      BY <2>3, <2>7, <2>9, <3>2
    <3>4. p # <<>>
      <4>1. Len(q) \in Nat
        BY <3>1, LenProperties
      <4>2. Len(p) # 0
        BY <3>2, <4>1
      <4> QED
        BY <3>2, <4>2, EmptySeq
    <3>5. p[1] = s[1]
      <4>1. CASE n = 0
        <5>1. 1..n = {}
          BY <4>1
        <5>2. ToSet(q) = {}
          BY <2>3, <5>1
        <5>3. q = <<>>
          <6>1. q # <<>> => 1 \in DOMAIN q
            BY <3>1, LenProperties, EmptySeq
          <6> QED
            BY <5>2, <6>1 DEF ToSet
        <5> QED
          BY <2>8, <3>2, <4>1, <5>3
      <4>2. CASE n # 0
        <5>1. 1 <= n
          BY <4>2
        <5> QED
          BY <2>3, <3>2, <5>1
      <4> QED
        BY <4>1, <4>2
    <3> QED
      BY <2>2, <3>2, <3>3, <3>4, <3>5
  <2>10. CASE e \notin B
    <3>1. p = q
      BY <2>4, <2>10
    <3>2. \A x : x \in ToSet(p) <=> x \in B /\ \E k \in 1..(n + 1) : x = s[k]
      BY <2>3, <2>7, <2>10, <3>1
    <3>3. n # 0
      BY <2>8, <2>10
    <3>4. 1 <= n
      BY <3>3
    <3>5. p \in Seq(S) /\ IsInjective(p) /\ p # <<>> /\ p[1] = s[1]
      BY <2>3, <3>1, <3>4
    <3> QED
      BY <2>2, <3>2, <3>5
  <2> QED
    BY <2>9, <2>10
<1>9. Part(l, f[l])
  <2>1. Nat \subseteq Q
    <3> HIDE DEF Q
    <3> QED
      BY <1>7, <1>8, SetInduction
  <2> QED
    BY <2>1
<1>10. \A x : x \in ToSet(s) <=> \E k \in 1..l : x = s[k]
  BY <1>1 DEF ToSet
<1>11. t = f[l]
  BY <1>1, <1>4
<1>12. ToSet(t) = ToSet(s) \cap B
  BY <1>9, <1>10, <1>11
<1> QED
  BY <1>2, <1>9, <1>11, <1>12


-----------------------------------------------------------------------------
(* When nothing is left to convert, no operation has a region.             *)
LEMMA IllegalIs ==
  ASSUME NEW o
  PROVE  o \in Illegal <=> \E b, i : /\ b \in ToSet(body) /\ i \in 1..Len(code[b])
                                     /\ code[b][i].op \in CMinusOps /\ o = <<b, i>>
<1>1. ASSUME o \in Illegal
      PROVE  \E b, i : /\ b \in ToSet(body) /\ i \in 1..Len(code[b])
                       /\ code[b][i].op \in CMinusOps /\ o = <<b, i>>
  <2>1. PICK b \in ToSet(body) :
          o \in {<<b, i>> : i \in {k \in 1..Len(code[b]) : code[b][k].op \in CMinusOps}}
    BY <1>1, Zenon DEF Illegal
  <2>2. PICK i \in {k \in 1..Len(code[b]) : code[b][k].op \in CMinusOps} : o = <<b, i>>
    BY <2>1, Zenon
  <2> QED
    BY <2>2, Zenon
<1>2. ASSUME NEW b \in ToSet(body), NEW i \in 1..Len(code[b]), code[b][i].op \in CMinusOps,
             o = <<b, i>>
      PROVE  o \in Illegal
  <2>1. i \in {k \in 1..Len(code[b]) : code[b][k].op \in CMinusOps}
    BY <1>2, Zenon
  <2>2. o \in {<<b, j>> : j \in {k \in 1..Len(code[b]) : code[b][k].op \in CMinusOps}}
    BY <1>2, <2>1, Zenon
  <2>3. PICK T : T = {<<b, j>> : j \in {k \in 1..Len(code[b]) : code[b][k].op \in CMinusOps}}
    OBVIOUS
  <2>4. T \in {{<<y, j>> : j \in {k \in 1..Len(code[y]) : code[y][k].op \in CMinusOps}} :
                 y \in ToSet(body)}
    BY <2>3
  <2>5. o \in UNION {{<<y, j>> : j \in {k \in 1..Len(code[y]) : code[y][k].op \in CMinusOps}} :
                       y \in ToSet(body)}
    BY <2>2, <2>3, <2>4
  <2> QED
    BY <2>5 DEF Illegal
<1> QED
  BY <1>1, <1>2, Zenon

LEMMA NoRegions ==
  ASSUME NEW c, NEW s, NEW rank, Nested(c, s, rank),
         \A b \in ToSet(s) : \A i \in 1..Len(c[b]) : c[b][i].op \notin CMinusOps
  PROVE  \A x, j, k : ~Holds(c, x, j, k)
<1> DEFINE T == {n \in Nat : \E x, j, k : Holds(c, x, j, k) /\ n = rank[x]}
<1>1. \A x, j, k : Holds(c, x, j, k) => rank[x] \in Nat
  BY DEF Nested, Holds
<1>2. SUFFICES ASSUME T # {}
               PROVE  FALSE
  BY <1>1
<1>3. T \subseteq Nat
  OBVIOUS
<1>4. PICK m \in T : \A n \in T : m <= n
  <2> HIDE DEF T
  <2> QED
    BY <1>2, <1>3, LeastNumber
<1>5. PICK x, j, k : Holds(c, x, j, k) /\ m = rank[x]
  BY <1>4
<1>6. x \notin ToSet(s)
  BY <1>5, NamesApart DEF Holds
<1>7. PICK y, l, p : Holds(c, y, l, p) /\ x = Held(c, y, l, p)
  BY <1>5, <1>6 DEF Nested, Placed
<1>8. rank[y] < rank[x]
  BY <1>7 DEF Nested
<1>9. rank[y] \in T
  BY <1>1, <1>7
<1>10. rank[y] \in Nat /\ m \in Nat
  BY <1>9
<1> QED
  BY <1>4, <1>5, <1>8, <1>9, <1>10

LEMMA BranchesStay ==
  ASSUME NEW o, NEW T, TerminatorOK(o, TRUE, T, "func.func", 1)
  PROVE  /\ o.op \in {"br", "condbr"} => ToSet(o.to) \subseteq T
         /\ \A U : (o.op \in {"br", "condbr"} => ToSet(o.to) \subseteq U)
              => TerminatorOK(o, TRUE, U, "func.func", 1)
BY DEF TerminatorOK

(* What is left of the blocks is as good as they were, and all of it can   *)
(* be reached.                                                             *)
LEMMA ErasedFacts ==
  ASSUME NEW c, NEW s, Typed(c, s), NEW void, Ordered(c, s, void),
         \A x, j, k : ~Holds(c, x, j, k),
         NEW R, R = Reachable(c, s), NEW t, t = KeptOf(s, R)[Len(s)]
  PROVE  /\ Typed(c, t) /\ Ordered(c, t, void)
         /\ ToSet(t) \subseteq ToSet(s) /\ ToSet(t) \subseteq Reachable(c, t)
<1>1. s \in Seq(1..Len(c)) /\ s # <<>> /\ IsInjective(s)
  BY DEF Typed
<1>2. PICK S : S = 1..Len(c)
  OBVIOUS
<1>3. ToSet(Tail(s)) = ToSet(s) \ {s[1]}
  BY <1>1, TailSet
<1>4. ASSUME NEW b \in ToSet(s)
      PROVE  Successors(c, b) \subseteq ToSet(Tail(s))
  <2>1. TerminatorOK(Last(c[b]), TRUE, ToSet(Tail(s)), "func.func", 1)
    BY DEF Ordered
  <2>2. PICK o, T : o = Last(c[b]) /\ T = ToSet(Tail(s))
    OBVIOUS
  <2>3. o.op \in {"br", "condbr"} => ToSet(o.to) \subseteq T
    BY <2>1, <2>2, BranchesStay
  <2> QED
    BY <2>2, <2>3 DEF Successors
<1>5. \A b \in ToSet(s) : Successors(c, b) \subseteq ToSet(s)
  BY <1>3, <1>4
<1>6. /\ R \subseteq ToSet(s) /\ s[1] \in R
      /\ \A b \in R : Successors(c, b) \subseteq R
      /\ \A u \in Seq(S) : IsInjective(u) /\ u[1] = s[1] /\ ToSet(u) = R
           => Reachable(c, u) = R
  <2>1. s \in Seq(S)
    BY <1>1, <1>2
  <2> QED
    BY <1>1, <1>5, <2>1, ReachableFacts
<1>7. /\ t \in Seq(S) /\ t # <<>> /\ IsInjective(t)
      /\ ToSet(t) = ToSet(s) \cap R /\ t[1] = s[1]
  BY <1>1, <1>2, <1>6, KeptFacts
<1>8. ToSet(t) = R
  BY <1>6, <1>7
<1>9. Typed(c, t)
  BY <1>2, <1>7 DEF Typed
<1>10. ToSet(Tail(t)) = R \ {s[1]}
  BY <1>7, <1>8, TailSet
<1>11. \A y : Placed(c, t, y) => Placed(c, s, y)
  BY <1>6, <1>8 DEF Placed
<1>12. ASSUME NEW y \in ToSet(t)
       PROVE  BlockOK(c[y]) /\ TerminatorOK(Last(c[y]), TRUE, ToSet(Tail(t)), "func.func", 1)
  <2>1. y \in R /\ y \in ToSet(s)
    BY <1>6, <1>8
  <2>2. BlockOK(c[y]) /\ TerminatorOK(Last(c[y]), TRUE, ToSet(Tail(s)), "func.func", 1)
    BY <2>1 DEF Ordered
  <2>3. PICK o, T, U : o = Last(c[y]) /\ T = ToSet(Tail(s)) /\ U = ToSet(Tail(t))
    OBVIOUS
  <2>4. TerminatorOK(o, TRUE, T, "func.func", 1)
    BY <2>2, <2>3
  <2>5. o.op \in {"br", "condbr"} => ToSet(o.to) = Successors(c, y)
    <3>1. c[y] # <<>>
      BY <2>2 DEF BlockOK
    <3> QED
      BY <2>3, <3>1 DEF Successors
  <2>6. Successors(c, y) \subseteq U
    BY <1>3, <1>4, <1>6, <1>10, <2>1, <2>3
  <2>7. TerminatorOK(o, TRUE, U, "func.func", 1)
    BY <2>4, <2>5, <2>6, BranchesStay
  <2> QED
    BY <2>2, <2>3, <2>7
<1>13. \A y : Placed(c, t, y) => GlobalsExist(c[y], Globals) /\ ReturnsOK(c[y], void)
  BY <1>11 DEF Ordered
<1>14. Ordered(c, t, void)
  BY <1>12, <1>13 DEF Ordered
<1>15. Reachable(c, t) = R
  BY <1>6, <1>7, <1>8
<1> QED
  BY <1>6, <1>8, <1>9, <1>14, <1>15

-----------------------------------------------------------------------------
(* What holds at every step.                                               *)
NoDialect(c, s) ==
  \A y : Placed(c, s, y) => \A i \in 1..Len(c[y]) : c[y][i].op \notin CMinusOps

LInv ==
  /\ phase \in {"generated", "rejected", "converting", "flat", "lowered", "failed"}
  /\ Typed(code, body) /\ implicit \in 0..Len(code)
  /\ phase \in {"generated", "converting"} => \E rank : Nested(code, body, rank)
  /\ phase = "generated" =>
       \A x \in 1..Len(code) : \A j \in 1..Len(code[x]) :
         code[x][j].op \in CMinusOps => input.structured
  /\ phase \in {"converting", "flat"} =>
       Single(code) /\ Ordered(code, body, input.function.kind = "void")
  /\ phase = "flat" =>
       NoDialect(code, body) /\ (input.structured => ToSet(body) \subseteq Reachable(code, body))
  /\ NoneStranded

LEMMA LInvInit ==
  ASSUME Init
  PROVE  LInv
<1>1. PICK m \in Modules :
        /\ input = [function |-> m.function, indexChecks |-> m.indexChecks,
                    structured |-> m.structured]
        /\ code = m.code /\ body = m.body /\ implicit = m.implicit /\ phase = "generated"
  BY DEF Init
<1>2. /\ code \in Seq(Seq(Operation))
      /\ body \in Seq(1..Len(code)) /\ body # <<>> /\ IsInjective(body)
      /\ implicit \in 0..Len(code)
      /\ \A b \in 1..Len(code) : \A i \in 1..Len(code[b]) :
           /\ code[b][i].to \in Seq(1..Len(code)) /\ RegionsOK(code[b][i])
           /\ code[b][i].op \in CMinusOps => m.structured
      /\ \A r \in Regions(code) : r[1] \in InPlace(code, body) /\ r[1] < BlockOf(code, r)
  BY <1>1, ModulesAssumption
<1>3. Typed(code, body)
  BY <1>2 DEF Typed
<1>4. \E rank : Nested(code, body, rank)
  <2>1. PICK rank : rank = [x \in 1..Len(code) |-> x]
    OBVIOUS
  <2>2. Len(code) \in Nat
    BY <1>3, TypedFacts
  <2>3. rank \in [1..Len(code) -> Nat]
    BY <2>1
  <2>4. ASSUME NEW x, NEW j, NEW k, Holds(code, x, j, k)
        PROVE  Placed(code, body, x) /\ rank[x] < rank[Held(code, x, j, k)]
    <3>1. PICK r : r = <<x, j, k>>
      OBVIOUS
    <3>2. r \in Regions(code)
      BY <2>4, <3>1, RegionForm
    <3>3. r[1] = x /\ BlockOf(code, r) = Held(code, x, j, k)
      BY <3>1 DEF BlockOf, Held
    <3>4. x \in InPlace(code, body) /\ x < Held(code, x, j, k)
      BY <1>2, <3>2, <3>3
    <3>5. Placed(code, body, x)
      BY <3>4, PlacedIs
    <3>6. x \in 1..Len(code) /\ Held(code, x, j, k) \in 1..Len(code)
      BY <1>3, <2>4, TypedFacts
    <3> QED
      BY <2>1, <3>4, <3>5, <3>6
  <2> QED
    BY <2>3, <2>4 DEF Nested
<1>5. input.structured = m.structured
  BY <1>1
<1>6. NoneStranded
  BY <1>1 DEF NoneStranded
<1> QED
  BY <1>1, <1>2, <1>3, <1>4, <1>5, <1>6 DEF LInv


LEMMA LInvStart ==
  ASSUME LInv, StartLowering
  PROVE  LInv'
<1>1. /\ phase = "generated" /\ input' = input /\ code' = code /\ body' = body
      /\ implicit' = implicit
  BY DEF StartLowering
<1>2. Typed(code, body) /\ implicit \in 0..Len(code) /\ \E rank : Nested(code, body, rank)
  BY <1>1 DEF LInv
<1>3. \A x \in 1..Len(code) : \A j \in 1..Len(code[x]) :
        code[x][j].op \in CMinusOps => input.structured
  BY <1>1 DEF LInv
<1>4. Accepted => Single(code) /\ Ordered(code, body, input.function.kind = "void")
  BY AcceptedIs DEF Accepted
<1>5. \/ phase' = "rejected"
      \/ phase' = "converting" /\ Accepted
      \/ phase' = "flat" /\ Accepted /\ ~input.structured
  <2>1. phase' = CASE ~Accepted -> "rejected"
                   [] Accepted /\ input.structured -> "converting"
                   [] OTHER -> "flat"
    BY DEF StartLowering
  <2> QED
    BY <2>1
<1>6. ~input.structured => NoDialect(code, body)
  <2> SUFFICES ASSUME ~input.structured, NEW y, Placed(code, body, y), NEW i \in 1..Len(code[y])
               PROVE  code[y][i].op \notin CMinusOps
    BY DEF NoDialect
  <2>1. y \in 1..Len(code)
    BY <1>2, TypedFacts
  <2> QED
    BY <1>3, <2>1
<1>7. NoneStranded'
  BY <1>5 DEF NoneStranded
<1> QED
  BY <1>1, <1>2, <1>4, <1>5, <1>6, <1>7 DEF LInv

LEMMA LInvPattern ==
  ASSUME LInv, ApplyPattern
  PROVE  LInv'
<1>1. phase = "converting" /\ phase' = phase /\ input' = input
  BY DEF ApplyPattern
<1>2. PICK void : void = (input.function.kind = "void")
  OBVIOUS
<1>3. /\ Typed(code, body) /\ implicit \in 0..Len(code) /\ \E rank : Nested(code, body, rank)
      /\ Single(code) /\ Ordered(code, body, void)
  BY <1>1, <1>2 DEF LInv
<1>4. PICK o \in Turns : \/ IndexCheckLowering(o[1], o[2])
                         \/ IfLowering(o[1], o[2])
                         \/ WhileLowering(o[1], o[2])
                         \/ ReturnLowering(o[1], o[2])
  BY Zenon DEF ApplyPattern
<1>5. o \in Illegal
  BY DEF Turns
<1>6. PICK b, i : b \in ToSet(body) /\ i \in 1..Len(code[b]) /\ o = <<b, i>>
  BY <1>5, IllegalIs
<1>7. \/ IndexCheckLowering(b, i) \/ IfLowering(b, i)
      \/ WhileLowering(b, i) \/ ReturnLowering(b, i)
  <2>1. o[1] = b /\ o[2] = i
    BY <1>6
  <2> QED
    BY <1>4, <2>1, Zenon
<1>8. /\ Typed(code', body') /\ Single(code') /\ Ordered(code', body', void)
      /\ \E rank : Nested(code', body', rank)
      /\ implicit' \in 0..Len(code')
  BY <1>3, <1>6, <1>7, PatternKeeps
<1>9. NoneStranded'
  BY <1>1 DEF NoneStranded
<1> QED
  BY <1>1, <1>2, <1>8, <1>9 DEF LInv

LEMMA LInvErase ==
  ASSUME LInv, EraseUnreachableBlocks
  PROVE  LInv'
<1>1. /\ phase = "converting" /\ phase' = "flat" /\ input' = input /\ code' = code
      /\ implicit' = implicit /\ Illegal = {} /\ body' = Kept(Reachable(code, body))
  BY DEF EraseUnreachableBlocks
<1>2. PICK void : void = (input.function.kind = "void")
  OBVIOUS
<1>3. /\ Typed(code, body) /\ implicit \in 0..Len(code)
      /\ Single(code) /\ Ordered(code, body, void)
  BY <1>1, <1>2 DEF LInv
<1>4. PICK rank : Nested(code, body, rank)
  BY <1>1 DEF LInv
<1>5. \A b \in ToSet(body) : \A i \in 1..Len(code[b]) : code[b][i].op \notin CMinusOps
  BY <1>1, IllegalIs
<1>6. \A x, j, k : ~Holds(code, x, j, k)
  BY <1>4, <1>5, NoRegions
<1>7. body' = KeptOf(body, Reachable(code, body))[Len(body)]
  BY <1>1, KeptIs
<1>8. /\ Typed(code, body') /\ Ordered(code, body', void)
      /\ ToSet(body') \subseteq ToSet(body) /\ ToSet(body') \subseteq Reachable(code, body')
  <2>1. PICK R, t : R = Reachable(code, body) /\ t = body'
    OBVIOUS
  <2>2. t = KeptOf(body, R)[Len(body)]
    BY <1>7, <2>1
  <2> QED
    BY <1>3, <1>6, <2>1, <2>2, ErasedFacts
<1>9. NoDialect(code, body')
  BY <1>5, <1>6, <1>8 DEF NoDialect, Placed
<1>10. NoneStranded'
  BY <1>1 DEF NoneStranded
<1> QED
  BY <1>1, <1>2, <1>3, <1>8, <1>9, <1>10 DEF LInv

LEMMA ConvertedFacts ==
  ASSUME NEW n \in Nat, NEW q \in Seq(Operation),
         \A i \in 1..Len(q) : q[i].to \in Seq(1..n) /\ RegionsOK(q[i]),
         NEW p, p = Converted(q)
  PROVE  /\ p \in Seq(Operation) /\ Len(p) = Len(q)
         /\ \A i \in 1..Len(p) : p[i].to \in Seq(1..n) /\ RegionsOK(p[i])
<1>1. PICK l : l = Len(q) /\ l \in Nat /\ \A i \in 1..l : q[i] \in Operation
  BY LenProperties, ElementOfSeq
<1>2. p = [i \in 1..l |-> IF q[i].op = "return" THEN Op("ret", q[i].arg) ELSE q[i]]
  BY <1>1 DEF Converted
<1>3. ASSUME NEW i \in 1..l
      PROVE  p[i] \in Operation /\ p[i].to \in Seq(1..n) /\ RegionsOK(p[i])
  <2>1. CASE q[i].op = "return"
    <3>1. PICK name, arg : name = "ret" /\ arg = q[i].arg
      OBVIOUS
    <3>2. name \in Names
      BY <3>1, Zenon DEF Names, Terminators
    <3>3. arg \in Symbol \union Operator \union Callee \union
                    {"", "cond", "index", "void", "value", "zero"}
      BY <1>1, <3>1, ArgumentFacts
    <3>4. PICK o : o = Op(name, arg)
      OBVIOUS
    <3>5. o \in Operation /\ o.op = name /\ o.to = <<>>
      BY ONLY <3>2, <3>3, <3>4, ArgumentFacts
    <3>6. p[i] = o
      BY <1>2, <2>1, <3>1, <3>4
    <3>7. <<>> \in Seq(1..n)
      OBVIOUS
    <3>8. RegionsOK(o)
      BY <3>1, <3>5 DEF RegionsOK
    <3> QED
      BY <3>5, <3>6, <3>7, <3>8
  <2>2. CASE q[i].op # "return"
    BY <1>1, <1>2, <2>2
  <2> QED
    BY <2>1, <2>2
<1>4. p \in Seq(Operation) /\ Len(p) = l
  <2>1. PICK S : S = Operation
    OBVIOUS
  <2>2. p \in [1..l -> S]
    BY <1>2, <1>3, <2>1
  <2>3. p \in Seq(S) /\ Len(p) = l
    BY ONLY <1>1, <2>2
  <2> QED
    BY <2>1, <2>3
<1> QED
  BY <1>1, <1>3, <1>4

LEMMA LInvConvert ==
  ASSUME LInv, ConvertToLLVM
  PROVE  LInv'
<1>1. PICK reached : reached = Reachable(code, body)
  OBVIOUS
<1>2. /\ phase = "flat" /\ input' = input /\ body' = body /\ implicit' = implicit
      /\ code' = [b \in 1..Len(code) |->
                    IF b \in reached THEN Converted(code[b]) ELSE code[b]]
      /\ phase' = IF \E b \in ToSet(body) \ reached : Last(code[b]).op = "return"
                  THEN "failed" ELSE "lowered"
  BY <1>1 DEF ConvertToLLVM
<1>3. Typed(code, body) /\ implicit \in 0..Len(code)
  BY DEF LInv
<1>4. input.structured => ToSet(body) \subseteq reached
  BY <1>1, <1>2 DEF LInv
<1>5. NoneStranded'
  BY <1>2, <1>4 DEF NoneStranded
<1>6. PICK n : n = Len(code) /\ n \in Nat
  BY <1>3, TypedFacts
<1>7. ASSUME NEW b \in 1..n
      PROVE  /\ code'[b] \in Seq(Operation)
             /\ \A i \in 1..Len(code'[b]) : code'[b][i].to \in Seq(1..n) /\ RegionsOK(code'[b][i])
  <2>1. PICK q, p : q = code[b] /\ p = Converted(code[b])
    OBVIOUS
  <2>2. q \in Seq(Operation) /\ \A i \in 1..Len(q) : q[i].to \in Seq(1..n) /\ RegionsOK(q[i])
    BY <1>3, <1>6, <2>1, ElementOfSeq DEF Typed
  <2>3. p = Converted(q)
    BY <2>1
  <2>4. /\ p \in Seq(Operation)
        /\ \A i \in 1..Len(p) : p[i].to \in Seq(1..n) /\ RegionsOK(p[i])
    BY <1>6, <2>2, <2>3, ConvertedFacts
  <2>5. code'[b] = IF b \in reached THEN p ELSE q
    BY <1>2, <1>6, <2>1
  <2> QED
    BY <2>2, <2>4, <2>5
<1>8. code' \in Seq(Seq(Operation)) /\ Len(code') = n
  <2>1. PICK S, d : S = Seq(Operation) /\ d = code'
    OBVIOUS
  <2>2. d \in [1..n -> S]
    BY <1>2, <1>6, <1>7, <2>1
  <2>3. d \in Seq(S) /\ Len(d) = n
    BY ONLY <1>6, <2>2
  <2> QED
    BY <2>1, <2>3
<1>9. Typed(code', body')
  BY <1>2, <1>3, <1>6, <1>7, <1>8 DEF Typed
<1>10. implicit' \in 0..Len(code')
  BY <1>2, <1>3, <1>6, <1>8
<1>11. phase' \in {"failed", "lowered"}
  BY <1>2
<1> QED
  BY <1>5, <1>9, <1>10, <1>11 DEF LInv

LEMMA LInvHolds ==
  Spec => []LInv
<1>1. Init => LInv
  BY LInvInit
<1>2. LInv /\ [Next]_vars => LInv'
  <2> SUFFICES ASSUME LInv, [Next]_vars
               PROVE  LInv'
    OBVIOUS
  <2>1. CASE StartLowering
    BY <2>1, LInvStart
  <2>2. CASE ApplyPattern
    BY <2>2, LInvPattern
  <2>3. CASE EraseUnreachableBlocks
    BY <2>3, LInvErase
  <2>4. CASE ConvertToLLVM
    BY <2>4, LInvConvert
  <2>5. CASE UNCHANGED vars
    BY <2>5 DEF LInv, NoneStranded, vars
  <2> QED
    BY <2>1, <2>2, <2>3, <2>4, <2>5 DEF Next
<1> QED
  BY <1>1, <1>2, PTL DEF Spec

(* Throughout the lowering, branches, regions and the list of blocks name  *)
(* blocks that exist, no block is in the list twice, and the return that   *)
(* emitFunction adds is in a block that exists: splitBlock and             *)
(* inlineRegionBefore never leave anything dangling, whatever is nested in *)
(* what and whichever operation a pattern is applied to.                   *)
THEOREM TypeCorrect ==
  Spec => []TypeOK
<1>1. LInv => TypeOK
  BY DEF LInv, Typed, TypeOK
<1> QED
  BY <1>1, LInvHolds, PTL

(* What LowerCMinusToCFPass::runOnOperation leaves is a function that      *)
(* mlir::verify accepts and that has no operation of the cminus dialect,   *)
(* for every function that it accepted before the pass and every order of  *)
(* the patterns.                                                           *)
THEOREM VerifiedCorrect ==
  Spec => []Verified
<1>1. LInv => Verified
  <2> SUFFICES ASSUME LInv, phase = "flat"
               PROVE  /\ Accepted
                      /\ \A b \in InPlace(code, body) : \A i \in 1..Len(code[b]) :
                           code[b][i].op \notin CMinusOps
    BY DEF Verified
  <2>1. /\ Single(code) /\ Ordered(code, body, input.function.kind = "void")
        /\ IsInjective(body) /\ NoDialect(code, body)
    BY DEF LInv, Typed
  <2>2. Accepted
    BY <2>1, AcceptedIs DEF Accepted
  <2>3. \A b \in InPlace(code, body) : \A i \in 1..Len(code[b]) : code[b][i].op \notin CMinusOps
    BY <2>1, PlacedIs DEF NoDialect
  <2> QED
    BY <2>2, <2>3
<1> QED
  BY <1>1, LInvHolds, PTL

(* After eraseUnreachableBlocks every block of the function can be         *)
(* reached, so convert-func-to-llvm never meets a func.return that it      *)
(* would leave behind: no function of the cminus flavour fails there.      *)
THEOREM NoneStrandedCorrect ==
  Spec => []NoneStranded
<1>1. LInv => NoneStranded
  BY DEF LInv
<1> QED
  BY <1>1, LInvHolds, PTL
=============================================================================
