----------------------------- MODULE StackLemmas -----------------------------
(***************************************************************************)
(* Facts about sequences used as stacks (innermost element last), about    *)
(* sequences of sequences that grow at one place, and about what is        *)
(* counted or computed step by step.                                       *)
(***************************************************************************)
EXTENDS Integers, Sequences, SequenceTheorems, WellFoundedInduction, TLAPS

(* Short sequences.                                                        *)
LEMMA PairFacts ==
  ASSUME NEW S, NEW a \in S, NEW b \in S
  PROVE  <<a>> \in Seq(S) /\ <<a, b>> \in Seq(S)
  OBVIOUS

(* Popping.                                                                *)
LEMMA PopFacts ==
  ASSUME NEW S, NEW s \in Seq(S), s # <<>>
  PROVE  LET t == SubSeq(s, 1, Len(s) - 1)
         IN /\ t \in Seq(S)
            /\ Len(t) = Len(s) - 1
            /\ \A k \in 1..(Len(s) - 1) : t[k] = s[k]
            /\ Len(s) \in Nat \ {0}
            /\ s[Len(s)] \in S
<1>1. PICK n \in Nat \ {0} : n = Len(s)
  BY EmptySeq
<1>2. \A i \in 1..n : s[i] \in S
  BY <1>1, ElementOfSeq
<1>3. /\ SubSeq(s, 1, n - 1) \in Seq(S)
      /\ Len(SubSeq(s, 1, n - 1)) = IF 1 <= n - 1 THEN n - 1 - 1 + 1 ELSE 0
      /\ \A i \in 1..(n - 1 - 1 + 1) : SubSeq(s, 1, n - 1)[i] = s[1 + i - 1]
  <2>1. 1 \in Int /\ n - 1 \in Int /\ \A i \in 1..(n - 1) : s[i] \in S
    BY <1>2
  <2> QED
    BY <2>1, SubSeqProperties
<1>4. (IF 1 <= n - 1 THEN n - 1 - 1 + 1 ELSE 0) = n - 1
  <2>1. CASE n = 1
    BY <2>1
  <2>2. CASE n # 1
    BY <2>2
  <2> QED
    BY <2>1, <2>2
<1>5. n - 1 - 1 + 1 = n - 1 /\ \A i \in 1..(n - 1) : 1 + i - 1 = i
  OBVIOUS
<1>6. s[n] \in S
  BY <1>2
<1> QED
  BY <1>1, <1>3, <1>4, <1>5, <1>6, Zenon

(* Replacing the top.                                                      *)
LEMMA ReplaceFacts ==
  ASSUME NEW S, NEW s \in Seq(S), s # <<>>, NEW a \in S
  PROVE  LET t == Append(SubSeq(s, 1, Len(s) - 1), a)
         IN /\ t \in Seq(S)
            /\ Len(t) = Len(s)
            /\ \A k \in 1..(Len(s) - 1) : t[k] = s[k]
            /\ t[Len(s)] = a
<1> DEFINE p == SubSeq(s, 1, Len(s) - 1)
<1>1. /\ p \in Seq(S)
      /\ Len(p) = Len(s) - 1
      /\ \A k \in 1..(Len(s) - 1) : p[k] = s[k]
      /\ Len(s) \in Nat \ {0}
  BY PopFacts, Zenon
<1> HIDE DEF p
<1>2. /\ Append(p, a) \in Seq(S)
      /\ Len(Append(p, a)) = Len(p) + 1
      /\ \A i \in 1..Len(p) : Append(p, a)[i] = p[i]
      /\ Append(p, a)[Len(p) + 1] = a
  BY <1>1, AppendProperties
<1>3. Len(p) + 1 = Len(s)
  BY <1>1
<1>4. /\ Append(p, a) \in Seq(S)
      /\ Len(Append(p, a)) = Len(s)
      /\ \A k \in 1..(Len(s) - 1) : Append(p, a)[k] = s[k]
      /\ Append(p, a)[Len(s)] = a
  BY <1>1, <1>2, <1>3, Zenon
<1> QED
  BY <1>4, Zenon DEF p

(* Replacing the top and pushing another element.                          *)
LEMMA CallFacts ==
  ASSUME NEW S, NEW s \in Seq(S), s # <<>>, NEW a \in S, NEW b \in S
  PROVE  LET t == Append(Append(SubSeq(s, 1, Len(s) - 1), a), b)
         IN /\ t \in Seq(S)
            /\ Len(t) = Len(s) + 1
            /\ \A k \in 1..(Len(s) - 1) : t[k] = s[k]
            /\ t[Len(s)] = a
            /\ t[Len(s) + 1] = b
<1> DEFINE p == Append(SubSeq(s, 1, Len(s) - 1), a)
<1>1. /\ p \in Seq(S)
      /\ Len(p) = Len(s)
      /\ \A k \in 1..(Len(s) - 1) : p[k] = s[k]
      /\ p[Len(s)] = a
  BY ReplaceFacts, Zenon
<1>2. Len(s) \in Nat \ {0}
  BY EmptySeq
<1> HIDE DEF p
<1>3. /\ Append(p, b) \in Seq(S)
      /\ Len(Append(p, b)) = Len(p) + 1
      /\ \A i \in 1..Len(p) : Append(p, b)[i] = p[i]
      /\ Append(p, b)[Len(p) + 1] = b
  BY <1>1, AppendProperties
<1>4. 1..(Len(s) - 1) \subseteq 1..Len(s) /\ Len(s) \in 1..Len(s)
  BY <1>2
<1>5. /\ Append(p, b) \in Seq(S)
      /\ Len(Append(p, b)) = Len(s) + 1
      /\ \A k \in 1..(Len(s) - 1) : Append(p, b)[k] = s[k]
      /\ Append(p, b)[Len(s)] = a
      /\ Append(p, b)[Len(s) + 1] = b
  BY <1>1, <1>3, <1>4, Zenon
<1> QED
  BY <1>5, Zenon DEF p

(* Appending an element to one member of a sequence of sequences.          *)
LEMMA GrowFacts ==
  ASSUME NEW S, NEW c \in Seq(Seq(S)), NEW b \in 1..Len(c), NEW i \in S
  PROVE  LET d == [c EXCEPT ![b] = Append(@, i)]
         IN /\ d \in Seq(Seq(S))
            /\ Len(d) = Len(c)
            /\ \A k \in 1..Len(c) : k # b => d[k] = c[k]
            /\ d[b] = Append(c[b], i)
<1>1. c[b] \in Seq(S)
  BY ElementOfSeq
<1>2. Append(c[b], i) \in Seq(S)
  BY <1>1, AppendProperties
<1>3. /\ [c EXCEPT ![b] = Append(c[b], i)] \in Seq(Seq(S))
      /\ Len([c EXCEPT ![b] = Append(c[b], i)]) = Len(c)
      /\ \A j \in 1..Len(c) :
           [c EXCEPT ![b] = Append(c[b], i)][j] = IF j = b THEN Append(c[b], i) ELSE c[j]
  BY <1>2, ExceptSeq
<1> QED
  BY <1>3, Zenon

(* Two sequences joined.                                                   *)
LEMMA JoinFacts ==
  ASSUME NEW S, NEW d \in Seq(S), NEW x \in Seq(S)
  PROVE  /\ d \o x \in Seq(S)
         /\ Len(d \o x) = Len(d) + Len(x)
         /\ \A k \in 1..Len(d) : (d \o x)[k] = d[k]
         /\ \A k \in 1..Len(x) : (d \o x)[Len(d) + k] = x[k]
<1>1. /\ d \o x \in Seq(S)
      /\ Len(d \o x) = Len(d) + Len(x)
  BY ConcatProperties
<1>2. \A k \in 1..Len(d) + Len(x) :
        (d \o x)[k] = IF k <= Len(d) THEN d[k] ELSE x[k - Len(d)]
  BY ConcatProperties
<1>3. \A m, n \in Nat :
        /\ \A k \in 1..m : k \in 1..(m + n) /\ k <= m
        /\ \A k \in 1..n : m + k \in 1..(m + n) /\ ~(m + k <= m) /\ m + k - m = k
  OBVIOUS
<1>4. Len(d) \in Nat /\ Len(x) \in Nat
  BY LenProperties
<1>5. ASSUME NEW k \in 1..Len(d)
      PROVE  (d \o x)[k] = d[k]
  <2>1. k \in 1..Len(d) + Len(x) /\ k <= Len(d)
    BY <1>3, <1>4, Zenon
  <2> QED
    BY <1>2, <2>1, Zenon
<1>6. \A k \in 1..Len(x) : \E j \in 1..Len(d) + Len(x) :
        j = Len(d) + k /\ ~(j <= Len(d)) /\ j - Len(d) = k
  <2>1. \A m, n \in Nat : \A k \in 1..n : \E j \in 1..m + n :
          j = m + k /\ ~(j <= m) /\ j - m = k
    OBVIOUS
  <2> QED
    BY <1>4, <2>1, Zenon
<1>7. ASSUME NEW k \in 1..Len(x)
      PROVE  (d \o x)[Len(d) + k] = x[k]
  <2>1. PICK j \in 1..Len(d) + Len(x) :
          j = Len(d) + k /\ ~(j <= Len(d)) /\ j - Len(d) = k
    BY <1>6, Zenon
  <2>2. (d \o x)[j] = x[j - Len(d)]
    BY <1>2, <2>1, Zenon
  <2> QED
    BY <2>1, <2>2, Zenon
<1> QED
  BY <1>1, <1>5, <1>7, Zenon

-----------------------------------------------------------------------------
(* Induction, without an operator for what is proved: the set of numbers   *)
(* it holds of takes its place.                                            *)

LEMMA LeastNumber ==
  ASSUME NEW T, T \subseteq Nat, T # {}
  PROVE  \E m \in T : \A k \in T : m <= k
<1>1. \E x \in T : \A y \in T : ~ (<<y, x>> \in OpToRel(<,Nat))
  BY NatLessThanWellFounded, WFMin, Zenon
<1>2. PICK x \in T : \A y \in T : ~ (<<y, x>> \in OpToRel(<,Nat))
  BY <1>1
<1>3. \A y \in T : y < x => <<y, x>> \in OpToRel(<,Nat)
  BY DEF OpToRel
<1>4. \A y \in T : ~ (y < x)
  BY <1>2, <1>3, Zenon
<1>5. ASSUME NEW y \in T
      PROVE  x <= y
  <2>1. x \in Nat /\ y \in Nat
    OBVIOUS
  <2>2. ~ (y < x)
    BY <1>4
  <2> QED
    BY <2>1, <2>2
<1> QED
  BY <1>5

LEMMA SetInduction ==
  ASSUME NEW S, 0 \in S, \A n \in Nat : n \in S => n + 1 \in S
  PROVE  Nat \subseteq S
<1>1. SUFFICES ASSUME Nat \ S # {}
               PROVE  FALSE
  OBVIOUS
<1>2. PICK m \in Nat \ S : \A k \in Nat \ S : m <= k
  BY <1>1, LeastNumber
<1>3. m # 0 /\ m - 1 \in Nat
  BY <1>2
<1>4. m - 1 \in S
  BY <1>2, <1>3
<1> QED
  BY <1>2, <1>3, <1>4

(* What is computed step by step from what was computed before is a        *)
(* function.                                                               *)
Iterates(g, e, F) == g[0] = e /\ \A n \in Nat : g[n + 1] = F[<<n, g[n]>>]

LEMMA IterationExists ==
  ASSUME NEW S, NEW e \in S, NEW F \in [Nat \X S -> S]
  PROVE  \E g \in [Nat -> S] : Iterates(g, e, F)
<1> DEFINE To(n, h) == h[0] = e /\ \A i \in 0..(n - 1) : h[i + 1] = F[<<i, h[i]>>]
           D == {n \in Nat : \E h \in [Nat -> S] : To(n, h)}
<1>1. 0 \in D
  <2> DEFINE h == [i \in Nat |-> e]
  <2>1. h \in [Nat -> S] /\ h[0] = e
    OBVIOUS
  <2>2. 0..(0 - 1) = {}
    OBVIOUS
  <2> HIDE DEF h
  <2>3. To(0, h)
    BY <2>1, <2>2
  <2> QED
    BY <2>1, <2>3
<1>2. ASSUME NEW n \in Nat, n \in D
      PROVE  n + 1 \in D
  <2>1. PICK h \in [Nat -> S] : To(n, h)
    BY <1>2
  <2>2. <<n, h[n]>> \in Nat \X S /\ F[<<n, h[n]>>] \in S
    BY <2>1
  <2> DEFINE k == [i \in Nat |-> IF i = n + 1 THEN F[<<n, h[n]>>] ELSE h[i]]
  <2>3. k \in [Nat -> S] /\ k[n + 1] = F[<<n, h[n]>>]
    BY <2>2
  <2>4. \A i \in Nat : i # n + 1 => k[i] = h[i]
    OBVIOUS
  <2> HIDE DEF k
  <2>5. k[0] = e
    BY <2>1, <2>4
  <2>6. ASSUME NEW i \in 0..n
        PROVE  k[i + 1] = F[<<i, k[i]>>]
    <3>1. k[i] = h[i]
      BY <2>4
    <3>2. CASE i = n
      BY <2>3, <3>1, <3>2
    <3>3. CASE i # n
      <4>1. i \in 0..(n - 1) /\ i + 1 \in Nat /\ i + 1 # n + 1
        BY <3>3
      <4>2. h[i + 1] = F[<<i, h[i]>>] /\ k[i + 1] = h[i + 1]
        BY <2>1, <2>4, <4>1
      <4> QED
        BY <3>1, <4>2
    <3> QED
      BY <3>2, <3>3
  <2>7. To(n + 1, k)
    <3>1. n + 1 - 1 = n
      OBVIOUS
    <3> QED
      BY <2>5, <2>6, <3>1
  <2> QED
    BY <2>3, <2>7
<1>3. Nat \subseteq D
  <2> HIDE DEF D
  <2> QED
    BY <1>1, <1>2, SetInduction
<1>4. ASSUME NEW h \in [Nat -> S], NEW k \in [Nat -> S], NEW m \in Nat, NEW n \in Nat,
             m <= n, To(m, h), To(n, k)
      PROVE  h[m] = k[m]
  <2> DEFINE E == {i \in Nat : i <= m => h[i] = k[i]}
  <2>1. 0 \in E
    BY <1>4
  <2>2. ASSUME NEW i \in Nat, i \in E
        PROVE  i + 1 \in E
    <3>1. CASE i + 1 <= m
      <4>1. i \in 0..(m - 1) /\ i \in 0..(n - 1)
        BY <1>4, <3>1
      <4>2. h[i + 1] = F[<<i, h[i]>>] /\ k[i + 1] = F[<<i, k[i]>>]
        BY <1>4, <4>1
      <4>3. h[i] = k[i]
        BY <2>2, <3>1
      <4> QED
        BY <4>2, <4>3
    <3>2. CASE ~ (i + 1 <= m)
      BY <3>2
    <3> QED
      BY <3>1, <3>2
  <2>3. Nat \subseteq E
    <3> HIDE DEF E
    <3> QED
      BY <2>1, <2>2, SetInduction
  <2> QED
    BY <2>3
<1> DEFINE At(n) == CHOOSE h \in [Nat -> S] : To(n, h)
           g == [n \in Nat |-> At(n)[n]]
<1>5. \A n \in Nat : At(n) \in [Nat -> S] /\ To(n, At(n))
  <2> HIDE DEF To
  <2> QED
    BY <1>3
<1>6. g \in [Nat -> S] /\ \A n \in Nat : g[n] = At(n)[n]
  <2> HIDE DEF At
  <2> QED
    BY <1>5
<1> HIDE DEF g, At
<1>7. g[0] = e
  BY <1>5, <1>6
<1>8. ASSUME NEW n \in Nat
      PROVE  g[n + 1] = F[<<n, g[n]>>]
  <2>1. n + 1 \in Nat /\ n <= n + 1 /\ n \in 0..(n + 1 - 1)
    OBVIOUS
  <2>2. To(n, At(n)) /\ To(n + 1, At(n + 1)) /\ At(n) \in [Nat -> S] /\ At(n + 1) \in [Nat -> S]
    BY <1>5, <2>1
  <2>3. At(n)[n] = At(n + 1)[n]
    <3> HIDE DEF To
    <3> QED
      BY <1>4, <2>1, <2>2
  <2>4. At(n + 1)[n + 1] = F[<<n, At(n + 1)[n]>>]
    BY <2>1, <2>2
  <2> QED
    BY <1>6, <2>1, <2>3, <2>4
<1> QED
  BY <1>6, <1>7, <1>8 DEF Iterates


(* A recursive definition over trees is a step F from a guess to a better  *)
(* one: what it gives at e depends on what the guess gives at what is      *)
(* lower than e, and nothing else.                                         *)
Agree(f, g, E, rank, n) == \A d \in E : rank[d] < n => f[d] = g[d]

LowerDecides(E, V, rank, F) ==
  \A f, g \in [E -> V] : \A e \in E : Agree(f, g, E, rank, rank[e]) => F[f][e] = F[g][e]

Recursion(E, V, rank, F) ==
  /\ V # {} /\ rank \in [E -> Nat] /\ F \in [[E -> V] -> [E -> V]]
  /\ LowerDecides(E, V, rank, F)

Answered(E, V, F) == \E f \in [E -> V] : F[f] = f

LEMMA RecursionExists ==
  ASSUME NEW E, NEW V, NEW rank, NEW F, Recursion(E, V, rank, F)
  PROVE  Answered(E, V, F)
<1> USE DEF Recursion
<1> PICK v \in V : TRUE
  OBVIOUS
<1> DEFINE S == [E -> V]
           first == [e \in E |-> v]
           G == [x \in Nat \X S |-> F[x[2]]]
<1>1. first \in S /\ G \in [Nat \X S -> S]
  OBVIOUS
<1>2. PICK g \in [Nat -> S] : \A n \in Nat : g[n + 1] = F[g[n]]
  <2>1. \A n \in Nat, s \in S : <<n, s>> \in Nat \X S /\ G[<<n, s>>] = F[s]
    OBVIOUS
  <2> HIDE DEF G, S, first
  <2>2. PICK g \in [Nat -> S] : Iterates(g, first, G)
    BY <1>1, IterationExists
  <2>3. \A n \in Nat : g[n] \in S
    BY <2>2
  <2>4. \A n \in Nat : g[n + 1] = F[g[n]]
    BY <2>1, <2>2, <2>3 DEF Iterates
  <2> QED
    BY <2>2, <2>4
<1>3. \A n \in Nat : Agree(g[n + 1], g[n], E, rank, n)
  <2> DEFINE T == {n \in Nat : Agree(g[n + 1], g[n], E, rank, n)}
  <2>1. 0 \in T
    BY DEF Agree
  <2>2. ASSUME NEW n \in Nat, n \in T
        PROVE  n + 1 \in T
    <3>1. ASSUME NEW d \in E, rank[d] < n + 1
          PROVE  g[n + 1 + 1][d] = g[n + 1][d]
      <4>1. Agree(g[n + 1], g[n], E, rank, rank[d])
        BY <2>2, <3>1 DEF Agree
      <4>2. g[n] \in [E -> V] /\ g[n + 1] \in [E -> V]
        OBVIOUS
      <4>3. F[g[n + 1]][d] = F[g[n]][d]
        BY <4>1, <4>2 DEF LowerDecides
      <4>4. g[n + 1 + 1] = F[g[n + 1]] /\ g[n + 1] = F[g[n]]
        BY <1>2
      <4> QED
        BY <4>3, <4>4
    <3> QED
      BY <3>1 DEF Agree
  <2>3. Nat \subseteq T
    <3> HIDE DEF T
    <3> QED
      BY <2>1, <2>2, SetInduction
  <2> QED
    BY <2>3
<1>4. ASSUME NEW e \in E, NEW m \in Nat, rank[e] < m
      PROVE  g[m][e] = g[rank[e] + 1][e]
  <2> DEFINE T == {k \in Nat : g[rank[e] + 1 + k][e] = g[rank[e] + 1][e]}
  <2>1. rank[e] \in Nat
    OBVIOUS
  <2>2. 0 \in T
    BY <2>1
  <2>3. ASSUME NEW k \in Nat, k \in T
        PROVE  k + 1 \in T
    <3>1. PICK n \in Nat : n = rank[e] + 1 + k
      BY <2>1
    <3>2. rank[e] < n /\ rank[e] + 1 + (k + 1) = n + 1
      <4>1. \A r \in Nat : r < r + 1 + k /\ r + 1 + (k + 1) = r + 1 + k + 1
        OBVIOUS
      <4> QED
        BY <2>1, <3>1, <4>1
    <3>3. g[n + 1][e] = g[n][e]
      BY <1>3, <3>2 DEF Agree
    <3>4. g[n][e] = g[rank[e] + 1][e]
      BY <2>3, <3>1
    <3> QED
      BY <3>2, <3>3, <3>4
  <2>4. Nat \subseteq T
    <3> HIDE DEF T
    <3> QED
      BY <2>2, <2>3, SetInduction
  <2>5. PICK k \in Nat : m = rank[e] + 1 + k
    <3>1. m - rank[e] - 1 \in Nat /\ m = rank[e] + 1 + (m - rank[e] - 1)
      BY <1>4, <2>1
    <3> QED
      BY <3>1
  <2>6. k \in T
    BY <2>4
  <2> QED
    BY <2>5, <2>6
<1> DEFINE f == [e \in E |-> g[rank[e] + 1][e]]
<1>5. f \in [E -> V]
  <2> SUFFICES ASSUME NEW e \in E PROVE g[rank[e] + 1][e] \in V
    OBVIOUS
  <2>1. rank[e] + 1 \in Nat
    OBVIOUS
  <2>2. g[rank[e] + 1] \in [E -> V]
    BY <2>1
  <2> QED
    BY <2>2
<1>6. ASSUME NEW e \in E
      PROVE  F[f][e] = f[e]
  <2>1. rank[e] \in Nat /\ rank[e] + 1 \in Nat
    OBVIOUS
  <2>2. ASSUME NEW d \in E, rank[d] < rank[e]
        PROVE  f[d] = g[rank[e]][d]
    BY <1>4, <2>1, <2>2
  <2>3. g[rank[e]] \in [E -> V]
    BY <2>1
  <2>4. f[e] = g[rank[e] + 1][e]
    OBVIOUS
  <2> HIDE DEF f
  <2>5. Agree(f, g[rank[e]], E, rank, rank[e])
    BY <2>2 DEF Agree
  <2>6. F[f][e] = F[g[rank[e]]][e]
    BY <1>5, <2>3, <2>5 DEF LowerDecides
  <2>7. g[rank[e] + 1] = F[g[rank[e]]]
    BY <1>2, <2>1
  <2> QED
    BY <2>4, <2>6, <2>7
<1> HIDE DEF f
<1>7. F[f] \in [E -> V]
  BY <1>5
<1>8. F[f] = f
  BY <1>5, <1>6, <1>7
<1> QED
  BY <1>5, <1>8 DEF Answered

(* What holds of a tree when it holds of everything lower holds of all.    *)
LEMMA TreeInduction ==
  ASSUME NEW E, NEW rank \in [E -> Nat], NEW S,
         \A e \in E : (\A d \in E : rank[d] < rank[e] => d \in S) => e \in S
  PROVE  E \subseteq S
<1>1. SUFFICES ASSUME E \ S # {}
               PROVE  FALSE
  OBVIOUS
<1> DEFINE T == {rank[e] : e \in E \ S}
<1>2. T \subseteq Nat /\ T # {}
  BY <1>1
<1>3. PICK m \in T : \A k \in T : m <= k
  <2> HIDE DEF T
  <2> QED
    BY <1>2, LeastNumber
<1>4. PICK e \in E \ S : rank[e] = m
  OBVIOUS
<1>5. ASSUME NEW d \in E, rank[d] < rank[e]
      PROVE  d \in S
  <2>1. CASE d \notin S
    <3>1. rank[d] \in T /\ rank[d] \in Nat /\ rank[e] \in Nat
      BY <2>1
    <3> HIDE DEF T
    <3> QED
      BY <1>3, <1>4, <1>5, <3>1
  <2> QED
    BY <2>1
<1> QED
  BY <1>4, <1>5
=============================================================================
