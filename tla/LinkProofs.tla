----------------------------- MODULE LinkProofs -----------------------------
(***************************************************************************)
(* Linking is right whatever the command lines, the programs on PATH and   *)
(* the archives: the properties of module Link, proved.                    *)
(***************************************************************************)
EXTENDS Link, StackLemmas

Steps == {"cross", "runtime", "driver", "split", "resolve", "archive", "run", "done"}

Word == Seq(Char) \union {cc, clang, gcc}

Typed ==
  /\ options \in [driver : Commands, runtime : {None, "option"},
                  useLinker : {None, <<>>, <<"b", "f", "d">>}, crossing : BOOLEAN]
  /\ environment \in [CC : CCs, RUNTIME : {None, "variable"}, path : Paths,
                      files : SUBSET Archives]
  /\ doing \in Steps
  /\ rest \in Seq(Char) /\ current \in Seq(Char)
  /\ driverWords \in Seq(Word)

(* namedByCaller says what it is called, once a driver was chosen.         *)
Chosen ==
  /\ doing \in {"cross", "runtime", "driver"} =>
       driverWords = <<>> /\ ~ namedByCaller /\ ~ inWord /\ current = <<>> /\ quote = None
  /\ doing = "split" => namedByCaller
  /\ doing \in {"split", "resolve", "archive", "run"} \/ WasRun =>
       (namedByCaller <=> Caller # Empty)

(* What was checked on the way still holds.                                *)
Checked ==
  /\ doing \notin {"cross", "done"} \/ WasRun => (options.crossing => checkCrossLinkInputs)
  /\ doing \in {"driver", "split", "resolve", "archive", "run"} \/ WasRun =>
       runtimePath = IF options.runtime = None THEN findRuntime ELSE options.runtime
  /\ doing \in {"archive", "run"} \/ WasRun =>
       driverWords # <<>> /\ findProgramByName(Head(driverWords))
  /\ doing = "run" \/ WasRun => runtimePath \in environment.files

(* There are two ways to be done.                                          *)
Done ==
  /\ WasRun => doing = "done" /\ args = driverWords \o useLinkerFlag \o Arguments
  /\ WasRun <=> ended # None
  /\ doing = "done" => (error = None <=> ended = "succeeded")

(* Between two parts of the command line the words of the parts read are   *)
(* there, the last of them perhaps not finished.                           *)
Between(n) ==
  /\ quote = None
  /\ rest = Spelled(Caller)[Len(Caller) - n]
  /\ inWord <=> n # 0 /\ Caller[n].kind # "blank"
  /\ Meant(Caller)[n] = IF inWord THEN Append(driverWords, current) ELSE driverWords
  /\ ~ inWord => current = <<>>

(* Within a quoted part, of which i characters were read, they have joined *)
(* the word begun before it, if there is one.                              *)
Within(n, i) ==
  LET means == Caller[n + 1].means
      read == SubSeq(means, 1, i)
      left == SubSeq(means, i + 1, Len(means))
  IN /\ quote \in Quotes /\ ~ Contains(means, quote) /\ inWord
     /\ Caller[n + 1].kind = "quoted"
     /\ rest = left \o <<quote>> \o Spelled(Caller)[Len(Caller) - n - 1]
     /\ IF n = 0 \/ Caller[n].kind = "blank"
        THEN Meant(Caller)[n] = driverWords /\ current = read
        ELSE /\ Front(Meant(Caller)[n]) = driverWords
             /\ current = Last(Meant(Caller)[n]) \o read

Progress ==
  doing = "split" =>
    \/ \E n \in 0..Len(Caller) : Between(n)
    \/ \E n \in 0..(Len(Caller) - 1) : \E i \in 0..Len(Caller[n + 1].means) : Within(n, i)

(* The inductive invariant.                                                *)
Inv ==
  /\ Typed /\ TypeOK
  /\ Chosen /\ Checked /\ Done /\ Progress /\ WordsSurvive

-----------------------------------------------------------------------------
(* The text and the words of a command line, part by part.                 *)

LEMMA PartFacts ==
  ASSUME NEW c \in Seq(Part), NEW i \in 1..Len(c)
  PROVE  c[i] \in Part /\ c[i].text \in Seq(Char) /\ c[i].means \in Seq(Char)
         /\ c[i].kind \in {"blank", "bare", "quoted"}
<1>1. c[i] \in Part
  BY ElementOfSeq
<1> QED
  BY <1>1 DEF Part

LEMMA SpelledFacts ==
  ASSUME NEW c \in Seq(Part)
  PROVE  /\ Spelled(c) \in [0..Len(c) -> Seq(Char)]
         /\ Spelled(c)[0] = <<>>
         /\ \A n \in 0..(Len(c) - 1) : Spelled(c)[n + 1] = c[Len(c) - n].text \o Spelled(c)[n]
<1> DEFINE F == [x \in Nat \X Seq(Char) |->
                   IF x[1] < Len(c) THEN c[Len(c) - x[1]].text \o x[2] ELSE x[2]]
           Equation(f) == f = [n \in 0..Len(c) |->
                                 IF n = 0 THEN <<>> ELSE c[Len(c) - n + 1].text \o f[n - 1]]
<1>1. Len(c) \in Nat
  OBVIOUS
<1>2. F \in [Nat \X Seq(Char) -> Seq(Char)]
  <2> SUFFICES ASSUME NEW n \in Nat, NEW s \in Seq(Char)
               PROVE  (IF n < Len(c) THEN c[Len(c) - n].text \o s ELSE s) \in Seq(Char)
    OBVIOUS
  <2>1. CASE n < Len(c)
    <3>1. c[Len(c) - n].text \in Seq(Char)
      BY <1>1, <2>1, PartFacts
    <3> QED
      BY <2>1, <3>1
  <2> QED
    BY <2>1
<1>3. <<>> \in Seq(Char)
  OBVIOUS
<1>4. PICK g \in [Nat -> Seq(Char)] :
        g[0] = <<>> /\ \A n \in Nat : g[n + 1] = F[<<n, g[n]>>]
  <2> HIDE DEF F
  <2>1. \E g \in [Nat -> Seq(Char)] : Iterates(g, <<>>, F)
    BY <1>2, <1>3, IterationExists, Zenon
  <2> QED
    BY <2>1 DEF Iterates
<1>5. ASSUME NEW n \in Nat, n < Len(c)
      PROVE  g[n + 1] = c[Len(c) - n].text \o g[n]
  <2>1. g[n + 1] = F[<<n, g[n]>>] /\ <<n, g[n]>> \in Nat \X Seq(Char)
    BY <1>4
  <2> QED
    BY <1>5, <2>1
<1> DEFINE f == [n \in 0..Len(c) |-> g[n]]
<1>6. Equation(f)
  <2> SUFFICES ASSUME NEW n \in 0..Len(c)
               PROVE  g[n] = IF n = 0 THEN <<>> ELSE c[Len(c) - n + 1].text \o f[n - 1]
    OBVIOUS
  <2>1. CASE n = 0
    BY <1>4, <2>1
  <2>2. CASE n # 0
    <3>1. n - 1 \in Nat /\ n - 1 + 1 = n /\ n - 1 < Len(c) /\ Len(c) - n + 1 = Len(c) - (n - 1)
      BY <1>1, <2>2
    <3>2. PICK m \in Nat : m + 1 = n /\ n - 1 = m /\ m < Len(c) /\ Len(c) - n + 1 = Len(c) - m
      BY <3>1
    <3>3. g[n] = c[Len(c) - n + 1].text \o g[m]
      BY <1>5, <3>2
    <3>4. f[m] = g[m]
      BY <1>1, <3>2
    <3> HIDE DEF f
    <3> QED
      BY <2>2, <3>2, <3>3, <3>4
  <2> QED
    BY <2>1, <2>2
<1>7. Equation(Spelled(c))
  <2>1. \E h : Equation(h)
    BY <1>6
  <2> HIDE DEF Equation
  <2>2. Equation(CHOOSE h : Equation(h))
    BY <2>1
  <2> QED
    BY <2>2 DEF Equation, Spelled
<1> DEFINE h == Spelled(c)
<1> HIDE DEF h
<1>8. h = [n \in 0..Len(c) |-> IF n = 0 THEN <<>> ELSE c[Len(c) - n + 1].text \o h[n - 1]]
  BY <1>7 DEF h
<1>9. h[0] = <<>>
  BY <1>1, <1>8
<1>10. ASSUME NEW n \in 0..(Len(c) - 1)
       PROVE  h[n + 1] = c[Len(c) - n].text \o h[n]
  <2>1. PICK m \in 0..Len(c) : m = n + 1 /\ m # 0 /\ m - 1 = n /\ Len(c) - m + 1 = Len(c) - n
    <3>1. n + 1 \in 0..Len(c) /\ n + 1 # 0 /\ n + 1 - 1 = n /\ Len(c) - (n + 1) + 1 = Len(c) - n
      BY <1>1
    <3> QED
      BY <3>1
  <2>2. h[m] = c[Len(c) - m + 1].text \o h[m - 1]
    BY <1>8, <2>1
  <2> QED
    BY <2>1, <2>2
<1>11. \A n \in Nat : n <= Len(c) => h[n] \in Seq(Char)
  <2> DEFINE S == {n \in Nat : n <= Len(c) => h[n] \in Seq(Char)}
  <2>1. 0 \in S
    BY <1>3, <1>9
  <2>2. ASSUME NEW n \in Nat, n \in S
        PROVE  n + 1 \in S
    <3>1. CASE n + 1 <= Len(c)
      <4>1. n \in 0..(Len(c) - 1) /\ Len(c) - n \in 1..Len(c) /\ h[n] \in Seq(Char)
        <5>1. n \in 0..(Len(c) - 1) /\ Len(c) - n \in 1..Len(c) /\ n <= Len(c)
          BY <1>1, <3>1, SMTT(20)
        <5>2. h[n] \in Seq(Char)
          BY <2>2, <5>1
        <5> QED
          BY <5>1, <5>2
      <4>2. c[Len(c) - n].text \in Seq(Char)
        BY <4>1, PartFacts
      <4>3. h[n + 1] \in Seq(Char)
        <5>1. h[n + 1] = c[Len(c) - n].text \o h[n]
          BY <1>10, <4>1
        <5> QED
          BY <4>1, <4>2, <5>1, ConcatProperties
      <4> QED
        BY <4>3
    <3> QED
      BY <3>1
  <2>3. Nat \subseteq S
    <3> HIDE DEF S
    <3> QED
      BY <2>1, <2>2, SetInduction
  <2> QED
    BY <2>3
<1>12. h \in [0..Len(c) -> Seq(Char)]
  <2>1. \A n \in 0..Len(c) : h[n] \in Seq(Char)
    BY <1>1, <1>11
  <2> QED
    BY <1>8, <2>1, Zenon
<1> QED
  BY <1>9, <1>10, <1>12 DEF h

LEMMA FurtherFacts ==
  ASSUME NEW c \in Seq(Part), NEW n \in 1..Len(c), NEW w \in Seq(Seq(Char)),
         n # 1 /\ c[n - 1].kind # "blank" => w # <<>>
  PROVE  /\ Further(c, n, w) \in Seq(Seq(Char))
         /\ c[n].kind # "blank" => Further(c, n, w) # <<>>
<1>1. c[n].means \in Seq(Char)
  BY PartFacts
<1>2. CASE c[n].kind = "blank"
  BY <1>2 DEF Further
<1>3. CASE c[n].kind # "blank" /\ (n = 1 \/ c[n - 1].kind = "blank")
  <2>1. Further(c, n, w) = Append(w, c[n].means)
    BY <1>3 DEF Further
  <2> DEFINE longer == Append(w, c[n].means)
  <2>2. longer \in Seq(Seq(Char)) /\ Len(longer) = Len(w) + 1
    BY <1>1, AppendProperties, Zenon
  <2>3. Len(w) \in Nat
    OBVIOUS
  <2> HIDE DEF longer
  <2>4. longer # <<>>
    BY <2>2, <2>3
  <2> QED
    BY <2>1, <2>2, <2>4 DEF longer
<1>4. CASE c[n].kind # "blank" /\ n # 1 /\ c[n - 1].kind # "blank"
  <2> DEFINE front == SubSeq(w, 1, Len(w) - 1)
             last == w[Len(w)] \o c[n].means
  <2>1. Further(c, n, w) = Append(front, last)
    BY <1>4 DEF Further, Front, Last
  <2>2. front \in Seq(Seq(Char)) /\ w[Len(w)] \in Seq(Char)
    BY <1>4, PopFacts, Zenon
  <2>3. last \in Seq(Char)
    BY <1>1, <2>2, ConcatProperties, Zenon
  <2> HIDE DEF front, last
  <2>4. Append(front, last) \in Seq(Seq(Char)) /\ Len(Append(front, last)) = Len(front) + 1
    BY <2>2, <2>3, AppendProperties, Zenon
  <2>5. Len(front) \in Nat
    BY <2>2
  <2> DEFINE longer == Append(front, last)
  <2>6. longer \in Seq(Seq(Char)) /\ Len(longer) = Len(front) + 1
    BY <2>4
  <2> HIDE DEF longer
  <2>7. longer # <<>>
    BY <2>5, <2>6
  <2> QED
    BY <2>1, <2>6, <2>7 DEF longer
<1> QED
  BY <1>2, <1>3, <1>4

LEMMA MeantFacts ==
  ASSUME NEW c \in Seq(Part)
  PROVE  /\ Meant(c)[0] = <<>>
         /\ \A n \in 0..(Len(c) - 1) : Meant(c)[n + 1] = Further(c, n + 1, Meant(c)[n])
         /\ \A n \in 0..Len(c) :
              /\ Meant(c)[n] \in Seq(Seq(Char))
              /\ n # 0 /\ c[n].kind # "blank" => Meant(c)[n] # <<>>
<1> DEFINE G(n, w) == IF Further(c, n, w) \in Seq(Seq(Char)) THEN Further(c, n, w) ELSE <<>>
           F == [x \in Nat \X Seq(Seq(Char)) |-> G(x[1] + 1, x[2])]
           Equation(f) == f = [n \in 0..Len(c) |-> IF n = 0 THEN <<>> ELSE Further(c, n, f[n - 1])]
<1>1. Len(c) \in Nat
  OBVIOUS
<1>2. <<>> \in Seq(Seq(Char))
  OBVIOUS
<1>3. F \in [Nat \X Seq(Seq(Char)) -> Seq(Seq(Char))]
  BY <1>2
<1>4. PICK g \in [Nat -> Seq(Seq(Char))] :
        g[0] = <<>> /\ \A n \in Nat : g[n + 1] = F[<<n, g[n]>>]
  <2> HIDE DEF F
  <2>1. \E g \in [Nat -> Seq(Seq(Char))] : Iterates(g, <<>>, F)
    BY <1>2, <1>3, IterationExists, Zenon
  <2> QED
    BY <2>1 DEF Iterates
<1>5. \A n \in Nat : g[n + 1] = G(n + 1, g[n])
  <2> SUFFICES ASSUME NEW n \in Nat
               PROVE  g[n + 1] = G(n + 1, g[n])
    OBVIOUS
  <2>1. g[n + 1] = F[<<n, g[n]>>] /\ <<n, g[n]>> \in Nat \X Seq(Seq(Char))
    BY <1>4
  <2> HIDE DEF G
  <2> QED
    BY <2>1
<1> DEFINE Begun(n) == n # 0 /\ c[n].kind # "blank" => g[n] # <<>>
<1>6. ASSUME NEW n \in Nat, n < Len(c), Begun(n)
      PROVE  g[n + 1] = Further(c, n + 1, g[n]) /\ Begun(n + 1)
  <2>1. PICK m \in 1..Len(c) : m = n + 1 /\ m - 1 = n
    <3>1. n + 1 \in 1..Len(c) /\ n + 1 - 1 = n
      BY <1>1, <1>6
    <3> QED
      BY <3>1
  <2>2. m # 1 /\ c[m - 1].kind # "blank" => g[n] # <<>>
    BY <1>6, <2>1
  <2>3. /\ Further(c, m, g[n]) \in Seq(Seq(Char))
        /\ c[m].kind # "blank" => Further(c, m, g[n]) # <<>>
    BY <1>4, <2>2, FurtherFacts, Zenon
  <2>4. g[m] = Further(c, m, g[n])
    BY <1>5, <2>1, <2>3
  <2> QED
    BY <2>1, <2>3, <2>4
<1>7. \A n \in Nat : n <= Len(c) => Begun(n)
  <2> DEFINE S == {n \in Nat : n <= Len(c) => Begun(n)}
  <2> HIDE DEF Begun
  <2>1. 0 \in S
    BY DEF Begun
  <2>2. ASSUME NEW n \in Nat, n \in S
        PROVE  n + 1 \in S
    <3>1. CASE n + 1 <= Len(c)
      <4>1. n < Len(c) /\ n <= Len(c)
        BY <1>1, <3>1, SMTT(20)
      <4>2. Begun(n)
        BY <2>2, <4>1
      <4>3. Begun(n + 1)
        BY <1>6, <4>1, <4>2
      <4> QED
        BY <4>3
    <3> QED
      BY <3>1
  <2>3. Nat \subseteq S
    <3> HIDE DEF S
    <3> QED
      BY <2>1, <2>2, SetInduction
  <2> QED
    BY <2>3
<1> DEFINE f == [n \in 0..Len(c) |-> g[n]]
<1> HIDE DEF F, G
<1>8. Equation(f)
  <2> SUFFICES ASSUME NEW n \in 0..Len(c)
               PROVE  g[n] = IF n = 0 THEN <<>> ELSE Further(c, n, f[n - 1])
    OBVIOUS
  <2>1. CASE n = 0
    BY <1>4, <2>1
  <2>2. CASE n # 0
    <3>1. n - 1 \in Nat /\ n - 1 + 1 = n /\ n - 1 < Len(c)
      BY <1>1, <2>2
    <3>2. PICK m \in Nat : m + 1 = n /\ n - 1 = m /\ m < Len(c)
      BY <3>1
    <3>3. g[n] = Further(c, n, g[m])
      <4> HIDE DEF Begun
      <4>1. Begun(m)
        BY <1>1, <1>7, <3>2
      <4> QED
        BY <1>6, <3>2, <4>1
    <3>4. f[m] = g[m]
      BY <1>1, <3>2
    <3> HIDE DEF f
    <3> QED
      BY <2>2, <3>2, <3>3, <3>4
  <2> QED
    BY <2>1, <2>2
<1>9. Equation(Meant(c))
  <2>1. \E h : Equation(h)
    BY <1>8
  <2> HIDE DEF Equation
  <2>2. Equation(CHOOSE h : Equation(h))
    BY <2>1
  <2> QED
    BY <2>2 DEF Equation, Meant
<1> DEFINE h == Meant(c)
<1> HIDE DEF h
<1>10. h = [n \in 0..Len(c) |-> IF n = 0 THEN <<>> ELSE Further(c, n, h[n - 1])]
  BY <1>9 DEF h
<1>11. h[0] = <<>>
  BY <1>1, <1>10
<1>12. ASSUME NEW n \in 0..(Len(c) - 1)
       PROVE  h[n + 1] = Further(c, n + 1, h[n])
  <2>1. PICK m \in 0..Len(c) : m = n + 1 /\ m # 0 /\ m - 1 = n
    <3>1. n + 1 \in 0..Len(c) /\ n + 1 # 0 /\ n + 1 - 1 = n
      BY <1>1
    <3> QED
      BY <3>1
  <2>2. h[m] = Further(c, m, h[m - 1])
    BY <1>10, <2>1
  <2> QED
    BY <2>1, <2>2
<1>13. \A n \in Nat : n <= Len(c) => h[n] = g[n]
  <2> DEFINE S == {n \in Nat : n <= Len(c) => h[n] = g[n]}
  <2>1. 0 \in S
    BY <1>4, <1>11
  <2>2. ASSUME NEW n \in Nat, n \in S
        PROVE  n + 1 \in S
    <3>1. CASE n + 1 <= Len(c)
      <4>1. n \in 0..(Len(c) - 1) /\ n < Len(c) /\ n <= Len(c) /\ h[n] = g[n]
        <5>1. n \in 0..(Len(c) - 1) /\ n < Len(c) /\ n <= Len(c)
          BY <1>1, <3>1, SMTT(20)
        <5>2. h[n] = g[n]
          BY <2>2, <5>1
        <5> QED
          BY <5>1, <5>2
      <4>2. Begun(n)
        BY <1>7, <4>1
      <4> HIDE DEF Begun
      <4>3. g[n + 1] = Further(c, n + 1, g[n])
        BY <1>6, <4>1, <4>2
      <4>4. h[n + 1] = g[n + 1]
        BY <1>12, <4>1, <4>3
      <4> QED
        BY <4>4
    <3> QED
      BY <3>1
  <2>3. Nat \subseteq S
    <3> HIDE DEF S
    <3> QED
      BY <2>1, <2>2, SetInduction
  <2> QED
    BY <2>3
<1>14. ASSUME NEW n \in 0..Len(c)
       PROVE  h[n] \in Seq(Seq(Char)) /\ (n # 0 /\ c[n].kind # "blank" => h[n] # <<>>)
  <2>1. n \in Nat /\ n <= Len(c)
    BY <1>1
  <2>2. h[n] = g[n] /\ Begun(n) /\ g[n] \in Seq(Seq(Char))
    BY <1>4, <1>7, <1>13, <2>1
  <2> QED
    BY <2>2
<1> QED
  BY <1>11, <1>12, <1>14 DEF h

(* The first of a sequence and the others.                                 *)
LEMMA ConsFacts ==
  ASSUME NEW S, NEW x \in S, NEW t \in Seq(S)
  PROVE  /\ <<x>> \o t \in Seq(S) /\ <<x>> \o t # <<>>
         /\ Head(<<x>> \o t) = x /\ Tail(<<x>> \o t) = t
<1>1. <<x>> \in Seq(S) /\ Len(<<x>>) = 1 /\ <<x>>[1] = x
  OBVIOUS
<1> DEFINE s == <<x>> \o t
<1>2. /\ s \in Seq(S) /\ Len(s) = 1 + Len(t) /\ Len(t) \in Nat
      /\ s[1] = x /\ \A k \in 1..Len(t) : s[1 + k] = t[k]
  BY <1>1, JoinFacts
<1> HIDE DEF s
<1>3. s # <<>>
  BY <1>2
<1>4. Head(s) = x /\ Tail(s) \in Seq(S)
  BY <1>2, <1>3, HeadTailProperties
<1>5. Len(Tail(s)) = Len(t) /\ \A k \in 1..Len(t) : Tail(s)[k] = t[k]
  BY <1>2, <1>3
<1>6. Tail(s) = t
  BY <1>4, <1>5, SeqEqual
<1> QED
  BY <1>2, <1>3, <1>4, <1>6 DEF s

LEMMA PartText ==
  ASSUME NEW part \in Part, NEW t \in Seq(Char)
  PROVE  LET s == part.text \o t
         IN /\ s # <<>>
            /\ part.kind = "blank" => Head(s) \in Separators /\ Tail(s) = t
            /\ part.kind = "bare" =>
                 /\ Head(s) \notin Quotes \union Separators
                 /\ part.means = <<Head(s)>> /\ Tail(s) = t
            /\ part.kind = "quoted" =>
                 /\ Head(s) \in Quotes /\ ~ Contains(part.means, Head(s))
                 /\ Tail(s) = part.means \o <<Head(s)>> \o t
<1>1. part.text \in Seq(Char) /\ part.means \in Seq(Char)
      /\ part.kind \in {"blank", "bare", "quoted"}
  BY DEF Part
<1>2. CASE part.kind = "blank"
  <2>1. PICK c \in Separators : part.text = <<c>>
    BY <1>2 DEF Part
  <2>2. c \in Char
    BY DEF Char
  <2> QED
    BY <1>2, <2>1, <2>2, ConsFacts
<1>3. CASE part.kind = "bare"
  <2>1. PICK c \in Letters : part.text = <<c>> /\ part.means = <<c>>
    BY <1>3 DEF Part
  <2>2. c \in Char /\ c \notin Quotes \union Separators
    BY LinkAssumption DEF Char
  <2> QED
    BY <1>3, <2>1, <2>2, ConsFacts
<1>4. CASE part.kind = "quoted"
  <2>1. PICK q \in Quotes : part.text = <<q>> \o part.means \o <<q>> /\ ~ Contains(part.means, q)
    BY <1>4 DEF Part
  <2>2. q \in Char
    BY DEF Char
  <2> DEFINE m == part.means
             u == m \o <<q>> \o t
  <2>3. <<q>> \in Seq(Char) /\ m \in Seq(Char)
    BY <1>1, <2>2
  <2> HIDE DEF m
  <2>4. m \o <<q>> \in Seq(Char) /\ u \in Seq(Char)
    BY <2>3, ConcatProperties
  <2>5. (<<q>> \o m) \o <<q>> = <<q>> \o (m \o <<q>>)
    BY <2>3, ConcatAssociative
  <2>6. (<<q>> \o (m \o <<q>>)) \o t = <<q>> \o u
    BY <2>3, <2>4, ConcatAssociative
  <2>7. part.text \o t = <<q>> \o u
    BY <2>1, <2>5, <2>6 DEF m
  <2> HIDE DEF u
  <2>8. <<q>> \o u # <<>> /\ Head(<<q>> \o u) = q /\ Tail(<<q>> \o u) = u
    BY <2>2, <2>4, ConsFacts
  <2> QED
    BY <1>4, <2>1, <2>7, <2>8 DEF u, m
<1> QED
  BY <1>1, <1>2, <1>3, <1>4

(* What is left behind n parts of a command line.                          *)
LEMMA SpelledNext ==
  ASSUME NEW c \in Seq(Part), NEW n \in 0..Len(c)
  PROVE  /\ Spelled(c)[Len(c) - n] \in Seq(Char)
         /\ Spelled(c)[Len(c) - n] = <<>> <=> n = Len(c)
         /\ n # Len(c) => /\ n \in 0..(Len(c) - 1) /\ n + 1 \in 1..Len(c) /\ c[n + 1] \in Part
                          /\ Spelled(c)[Len(c) - n - 1] \in Seq(Char)
                          /\ Spelled(c)[Len(c) - n] = c[n + 1].text \o Spelled(c)[Len(c) - n - 1]
<1>1. /\ Spelled(c) \in [0..Len(c) -> Seq(Char)] /\ Spelled(c)[0] = <<>>
      /\ \A k \in 0..(Len(c) - 1) : Spelled(c)[k + 1] = c[Len(c) - k].text \o Spelled(c)[k]
  BY SpelledFacts
<1>2. Len(c) \in Nat
  OBVIOUS
<1>3. CASE n = Len(c)
  <2>1. Len(c) - n = 0 /\ 0 \in 0..Len(c)
    BY <1>2, <1>3
  <2> QED
    BY <1>1, <1>3, <2>1
<1>4. CASE n # Len(c)
  <2>1. PICK k \in 0..(Len(c) - 1) : k = Len(c) - n - 1 /\ k + 1 = Len(c) - n /\ Len(c) - k = n + 1
    <3>1. Len(c) - n - 1 \in 0..(Len(c) - 1) /\ Len(c) - n - 1 + 1 = Len(c) - n
          /\ Len(c) - (Len(c) - n - 1) = n + 1
      BY <1>2, <1>4
    <3> QED
      BY <3>1
  <2>2. n \in 0..(Len(c) - 1) /\ n + 1 \in 1..Len(c) /\ Len(c) - n \in 0..Len(c) /\ k \in 0..Len(c)
    BY <1>2, <1>4, <2>1
  <2>3. c[n + 1] \in Part
    BY <2>2, PartFacts
  <2>4. Spelled(c)[Len(c) - n] = c[n + 1].text \o Spelled(c)[k]
    BY <1>1, <2>1
  <2>5. Spelled(c)[Len(c) - n] \in Seq(Char) /\ Spelled(c)[k] \in Seq(Char)
    BY <1>1, <2>2
  <2>6. Spelled(c)[Len(c) - n] # <<>>
    BY <2>3, <2>4, <2>5, PartText
  <2> QED
    BY <1>4, <2>1, <2>2, <2>3, <2>4, <2>5, <2>6
<1> QED
  BY <1>3, <1>4

-----------------------------------------------------------------------------
(* Each action keeps the invariant.                                        *)

LEMMA CallerType ==
  ASSUME Typed
  PROVE  Caller \in Seq(Part)
  BY LinkAssumption DEF Typed, Caller

LEMMA InvInit ==
  ASSUME Init
  PROVE  Inv
<1>1. Typed
  BY DEF Init, Typed, Steps
<1>2. TypeOK
  BY <1>1 DEF Init, TypeOK, Typed
<1>3. Chosen /\ Checked /\ Done /\ Progress /\ WordsSurvive
  BY DEF Init, Chosen, Checked, Done, Progress, WordsSurvive, WasRun
<1> QED
  BY <1>1, <1>2, <1>3 DEF Inv

LEMMA CheckCrossStep ==
  ASSUME Inv, CheckCross
  PROVE  Inv'
<1> USE DEF Inv, CheckCross, Fail, Goto, splitting, ran
<1>1. Typed'
  BY DEF Typed, Steps
<1>2. TypeOK'
  BY DEF TypeOK, Errors
<1>3. Chosen' /\ Progress'
  BY DEF Chosen, Progress, Done, WasRun
<1>4. Checked' /\ Done'
  BY LinkAssumption DEF Checked, Done, WasRun, checkCrossLinkInputs, Errors, Ends
<1>5. WordsSurvive'
  BY DEF Chosen, WordsSurvive
<1> QED
  BY <1>1, <1>2, <1>3, <1>4, <1>5

LEMMA FindRuntimeStep ==
  ASSUME Inv, FindRuntime
  PROVE  Inv'
<1> USE DEF Inv, FindRuntime, Fail, Goto, splitting, ran
<1>1. Typed'
  BY DEF Typed, Steps
<1>2. TypeOK'
  BY DEF Typed, TypeOK, findRuntime, Archives
<1>3. Chosen' /\ Progress'
  BY DEF Chosen, Progress, Done, WasRun
<1>4. Checked' /\ Done'
  BY DEF Checked, Done, WasRun, checkCrossLinkInputs, findRuntime
<1>5. WordsSurvive'
  BY DEF Chosen, WordsSurvive
<1> QED
  BY <1>1, <1>2, <1>3, <1>4, <1>5

LEMMA ChooseNamedStep ==
  ASSUME Inv, ChooseNamed
  PROVE  Inv'
<1> USE DEF Inv, ChooseNamed, Fail, Goto, splitting, ran
<1>1. Caller \in Seq(Part) /\ rest' = Text(Caller) /\ Caller' = Caller /\ Caller # Empty
  BY CallerType DEF Caller
<1>2. /\ Spelled(Caller)[Len(Caller) - 0] \in Seq(Char)
      /\ Meant(Caller)[0] = <<>> /\ Len(Caller) \in Nat /\ Len(Caller) - 0 = Len(Caller)
  <2>1. Len(Caller) \in Nat /\ 0 \in 0..Len(Caller) /\ Len(Caller) - 0 = Len(Caller)
    BY <1>1
  <2>2. Spelled(Caller)[Len(Caller) - 0] \in Seq(Char)
    BY <1>1, <2>1, SpelledNext
  <2> QED
    BY <1>1, <2>1, <2>2, MeantFacts
<1>3. Typed'
  BY <1>1, <1>2 DEF Typed, Steps, Text
<1>4. TypeOK'
  BY DEF TypeOK
<1>5. Chosen'
  BY <1>1 DEF Chosen, Done, WasRun
<1>6. Progress'
  <2>1. Between(0)'
    BY <1>1, <1>2 DEF Chosen, Between, Text
  <2> QED
    BY <1>1, <1>2, <2>1 DEF Progress
<1>7. Checked' /\ Done'
  BY DEF Checked, Done, WasRun, checkCrossLinkInputs, findRuntime
<1>8. WordsSurvive'
  BY DEF WordsSurvive
<1> QED
  BY <1>3, <1>4, <1>5, <1>6, <1>7, <1>8

LEMMA DefaultsType ==
  \A k \in 1..Len(Defaults) : <<Defaults[k]>> \in Seq(Word) /\ <<Defaults[k]>> # <<>>
<1>1. Defaults \in Seq(Word)
  BY DEF Defaults, Word
<1>2. \A k \in 1..Len(Defaults) : Defaults[k] \in Word
  BY <1>1
<1> QED
  BY <1>2

LEMMA ChooseDefaultStep ==
  ASSUME Inv, ChooseDefault
  PROVE  Inv'
<1> USE DEF Inv, ChooseDefault, Fail, Goto, splitting, ran
<1>1. \A k \in 1..Len(Defaults) : <<Defaults[k]>> \in Seq(Word) /\ <<Defaults[k]>> # <<>>
  BY DefaultsType
<1>2. Caller = Empty /\ Caller' = Caller
  BY DEF Caller
<1>3. Typed'
  BY <1>1 DEF Typed, Steps
<1>4. TypeOK'
  BY <1>1 DEF TypeOK, Errors
<1>5. Chosen' /\ Progress'
  BY <1>2 DEF Chosen, Progress, Done, WasRun
<1>6. Checked' /\ Done'
  BY LinkAssumption DEF Checked, Done, WasRun, checkCrossLinkInputs, findRuntime, Errors, Ends
<1>7. WordsSurvive'
  BY DEF Chosen, WordsSurvive
<1> QED
  BY <1>3, <1>4, <1>5, <1>6, <1>7

LEMMA ResolveStep ==
  ASSUME Inv, Resolve
  PROVE  Inv'
<1> USE DEF Inv, Resolve, Fail, Goto, splitting, ran
<1>1. Typed'
  BY DEF Typed, Steps
<1>2. TypeOK'
  BY DEF TypeOK, Errors
<1>3. Chosen' /\ Progress'
  BY DEF Chosen, Progress, Done, WasRun, Caller
<1>4. Checked' /\ Done'
  BY LinkAssumption DEF Checked, Done, WasRun, TypeOK, checkCrossLinkInputs, findRuntime,
    findProgramByName, Errors, Ends
<1>5. WordsSurvive'
  BY DEF WordsSurvive, Caller
<1> QED
  BY <1>1, <1>2, <1>3, <1>4, <1>5

LEMMA CheckArchiveStep ==
  ASSUME Inv, CheckArchive
  PROVE  Inv'
<1> USE DEF Inv, CheckArchive, Fail, Goto, splitting, ran
<1>1. Typed'
  BY DEF Typed, Steps
<1>2. TypeOK'
  BY DEF TypeOK, Errors
<1>3. Chosen' /\ Progress'
  BY DEF Chosen, Progress, Done, WasRun, Caller
<1>4. Checked' /\ Done'
  BY LinkAssumption DEF Checked, Done, WasRun, checkCrossLinkInputs, findRuntime,
    findProgramByName, Errors, Ends
<1>5. WordsSurvive'
  BY DEF WordsSurvive, Caller
<1> QED
  BY <1>1, <1>2, <1>3, <1>4, <1>5

(* The words w are those of d, then those of f, then those of a.           *)
Row(w, d, f, a) ==
  /\ Len(d) \in Nat /\ Len(f) \in Nat /\ Len(a) \in Nat
  /\ Len(w) = Len(d) + Len(f) + Len(a)
  /\ \A k \in 1..Len(d) : w[k] = d[k]
  /\ \A k \in 1..Len(a) : w[Len(d) + Len(f) + k] = a[k]

LEMMA RowFacts ==
  ASSUME NEW U, NEW d \in Seq(U), NEW f \in Seq(U), NEW a \in Seq(U)
  PROVE  d \o f \o a \in Seq(U) /\ Row(d \o f \o a, d, f, a)
<1>1. Len(d) \in Nat /\ Len(f) \in Nat /\ Len(a) \in Nat
  OBVIOUS
<1>2. /\ d \o f \in Seq(U) /\ Len(d \o f) = Len(d) + Len(f)
      /\ \A k \in 1..Len(d) : (d \o f)[k] = d[k]
  BY JoinFacts
<1>3. /\ d \o f \o a \in Seq(U) /\ Len(d \o f \o a) = Len(d \o f) + Len(a)
      /\ \A k \in 1..Len(d \o f) : (d \o f \o a)[k] = (d \o f)[k]
      /\ \A k \in 1..Len(a) : (d \o f \o a)[Len(d \o f) + k] = a[k]
  BY <1>2, JoinFacts
<1>4. \A k \in 1..Len(d) : k \in 1..Len(d \o f)
  BY <1>1, <1>2
<1> QED
  BY <1>1, <1>2, <1>3, <1>4 DEF Row

(* The words of the command that is run.                                   *)
LEMMA ArgumentsFacts ==
  ASSUME Typed
  PROVE  \E U : /\ driverWords \in Seq(U) /\ useLinkerFlag \in Seq(U) /\ Arguments \in Seq(U)
                /\ Len(Arguments) = 4 /\ Len(useLinkerFlag) \in {0, 1}
<1> DEFINE u == <<"-fuse-ld=">> \o options.useLinker
           v == <<"-fuse-ld=">> \o Lld
           o == <<"object">>
           r == <<runtimePath>>
           m == <<"-o">>
           x == <<"output">>
           U == Word \union {u, v, o, r, m, x}
<1>1. useLinkerFlag \in {<<>>, <<u>>, <<v>>}
  BY DEF useLinkerFlag
<1>2. Arguments = <<o, r, m, x>>
  BY DEF Arguments
<1>3. driverWords \in Seq(Word)
  BY DEF Typed
<1>4. Word \subseteq U /\ u \in U /\ v \in U /\ o \in U /\ r \in U /\ m \in U /\ x \in U
  OBVIOUS
<1> HIDE DEF U, u, v, o, r, m, x
<1>5. driverWords \in Seq(U)
  BY <1>3, <1>4
<1>6. useLinkerFlag \in Seq(U) /\ Len(useLinkerFlag) \in {0, 1}
  <2>1. CASE useLinkerFlag = <<>>
    BY <2>1
  <2>2. CASE useLinkerFlag = <<u>>
    BY <1>4, <2>2
  <2>3. CASE useLinkerFlag = <<v>>
    BY <1>4, <2>3
  <2> QED
    BY <1>1, <2>1, <2>2, <2>3
<1>7. Arguments \in Seq(U) /\ Len(Arguments) = 4
  BY <1>2, <1>4
<1> QED
  BY <1>5, <1>6, <1>7

LEMMA ArgumentsRun ==
  ASSUME Typed
  PROVE  driverWords \o useLinkerFlag \o Arguments # <<>>
<1>1. PICK U : /\ driverWords \in Seq(U) /\ useLinkerFlag \in Seq(U) /\ Arguments \in Seq(U)
               /\ Len(Arguments) = 4
  BY ArgumentsFacts
<1> DEFINE s == driverWords \o useLinkerFlag \o Arguments
<1>2. s \in Seq(U) /\ Len(s) = Len(driverWords) + Len(useLinkerFlag) + Len(Arguments)
      /\ Len(driverWords) \in Nat /\ Len(useLinkerFlag) \in Nat
  <2> DEFINE d == driverWords
             f == useLinkerFlag
             a == Arguments
  <2>1. d \in Seq(U) /\ f \in Seq(U) /\ a \in Seq(U)
    BY <1>1
  <2> HIDE DEF d, f, a
  <2>2. /\ d \o f \o a \in Seq(U) /\ Len(d \o f \o a) = Len(d) + Len(f) + Len(a)
        /\ Len(d) \in Nat /\ Len(f) \in Nat
    <3>1. d \o f \o a \in Seq(U) /\ Row(d \o f \o a, d, f, a)
      BY <2>1, RowFacts
    <3> QED
      BY <3>1 DEF Row
  <2> QED
    BY <2>2 DEF d, f, a
<1> HIDE DEF s
<1>3. s # <<>>
  BY <1>1, <1>2
<1> QED
  BY <1>3 DEF s

LEMMA ExecuteAndWaitStep ==
  ASSUME Inv, ExecuteAndWait
  PROVE  Inv'
<1> USE DEF Inv, ExecuteAndWait, Outcome, Ends, Fail, Goto, splitting, ran
<1>1. Typed'
  BY DEF Typed, Steps
<1>2. TypeOK'
  BY DEF TypeOK, Errors
<1>3. args' # <<>>
  BY ArgumentsRun DEF Inv
<1>4. Chosen' /\ Progress'
  BY DEF Chosen, Progress, Caller
<1>5. Checked'
  BY <1>3 DEF Checked, WasRun, checkCrossLinkInputs, findRuntime, findProgramByName
<1>7. Done'
  <2>1. doing' = "done" /\ ended' \in Ends /\ (error' = None <=> ended' = "succeeded")
    BY LinkAssumption DEF TypeOK, Errors
  <2>2. ended' # None /\ WasRun'
    BY <1>3, <2>1, LinkAssumption DEF WasRun
  <2> QED
    BY <2>1, <2>2 DEF Done, useLinkerFlag, Arguments
<1>6. WordsSurvive'
  BY DEF WordsSurvive, Caller
<1> QED
  BY <1>1, <1>2, <1>4, <1>5, <1>6, <1>7

-----------------------------------------------------------------------------
(* Reading the command line.                                               *)

LEMMA FrontLast ==
  ASSUME NEW S, NEW s \in Seq(S), NEW e \in S
  PROVE  Front(Append(s, e)) = s /\ Last(Append(s, e)) = e
<1> DEFINE t == Append(s, e)
<1>1. t \in Seq(S) /\ Len(t) = Len(s) + 1 /\ t[Len(s) + 1] = e
      /\ \A i \in 1..Len(s) : t[i] = s[i]
  BY AppendProperties
<1>2. Len(s) \in Nat /\ Len(s) + 1 - 1 = Len(s)
  OBVIOUS
<1> HIDE DEF t
<1>3. t # <<>>
  BY <1>1, <1>2
<1>4. LET u == SubSeq(t, 1, Len(t) - 1)
      IN /\ u \in Seq(S) /\ Len(u) = Len(t) - 1
         /\ \A k \in 1..(Len(t) - 1) : u[k] = t[k]
  BY <1>1, <1>3, PopFacts, Zenon
<1> DEFINE u == SubSeq(t, 1, Len(t) - 1)
<1>5. u \in Seq(S) /\ Len(u) = Len(s) /\ \A k \in 1..Len(s) : u[k] = s[k]
  BY <1>1, <1>2, <1>4
<1> HIDE DEF u
<1>6. u = s
  BY <1>5, SeqEqual
<1> QED
  BY <1>1, <1>6 DEF Front, Last, u, t

LEMMA MeantLast ==
  ASSUME NEW c \in Seq(Part), NEW n \in 0..Len(c), n # 0, c[n].kind # "blank"
  PROVE  Last(Meant(c)[n]) \in Seq(Char)
<1>1. Meant(c)[n] \in Seq(Seq(Char)) /\ Meant(c)[n] # <<>>
  BY MeantFacts
<1> DEFINE w == Meant(c)[n]
<1> HIDE DEF w
<1>2. w \in Seq(Seq(Char)) /\ w # <<>>
  BY <1>1 DEF w
<1>3. w[Len(w)] \in Seq(Char)
  BY <1>2, PopFacts, Zenon
<1> QED
  BY <1>3 DEF Last, w

(* The words when one more part was read.                                  *)
LEMMA MeantNext ==
  ASSUME NEW c \in Seq(Part), NEW n \in 0..(Len(c) - 1)
  PROVE  /\ c[n + 1].kind = "blank" => Meant(c)[n + 1] = Meant(c)[n]
         /\ c[n + 1].kind # "blank" /\ (n = 0 \/ c[n].kind = "blank") =>
              Meant(c)[n + 1] = Append(Meant(c)[n], c[n + 1].means)
         /\ c[n + 1].kind # "blank" /\ n # 0 /\ c[n].kind # "blank" =>
              Meant(c)[n + 1] = Append(Front(Meant(c)[n]), Last(Meant(c)[n]) \o c[n + 1].means)
<1>1. Meant(c)[n + 1] = Further(c, n + 1, Meant(c)[n])
  BY MeantFacts
<1>2. PICK k \in Nat : k = n + 1 /\ k - 1 = n /\ (k = 1 <=> n = 0)
  <2>1. n + 1 \in Nat /\ n + 1 - 1 = n /\ (n + 1 = 1 <=> n = 0)
    OBVIOUS
  <2> QED
    BY <2>1
<1>3. Meant(c)[k] = Further(c, k, Meant(c)[n])
  BY <1>1, <1>2
<1>4. Further(c, k, Meant(c)[n]) =
        IF c[k].kind = "blank" THEN Meant(c)[n]
        ELSE IF n = 0 \/ c[n].kind = "blank" THEN Append(Meant(c)[n], c[k].means)
        ELSE Append(Front(Meant(c)[n]), Last(Meant(c)[n]) \o c[k].means)
  BY <1>2 DEF Further
<1> QED
  BY <1>2, <1>3, <1>4, Zenon

LEMMA Regroup ==
  \A a \in Seq(Char), b \in Seq(Char), c \in Seq(Char) : (a \o b) \o c = a \o (b \o c)
  BY ConcatAssociative

(* What reading the character i + 1 of m does, when v follows m and u      *)
(* precedes the characters of m that are read.                             *)
ReadOn(m, i, u, v) ==
  LET left == SubSeq(m, i + 1, Len(m)) \o v
  IN /\ m[i + 1] \in Char /\ i + 1 \in 1..Len(m)
     /\ left # <<>> /\ Head(left) = m[i + 1]
     /\ Tail(left) = SubSeq(m, i + 1 + 1, Len(m)) \o v
     /\ Append(u \o SubSeq(m, 1, i), m[i + 1]) = u \o SubSeq(m, 1, i + 1)
     /\ Append(SubSeq(m, 1, i), m[i + 1]) = SubSeq(m, 1, i + 1)

LEMMA ReadFurther ==
  ASSUME NEW m \in Seq(Char), NEW i \in 0..Len(m), i # Len(m), NEW u \in Seq(Char), NEW v \in Seq(Char)
  PROVE  ReadOn(m, i, u, v)
<1>n. PICK n \in Nat : n = Len(m)
  OBVIOUS
<1>1. PICK k \in 1..n : n = Len(m) /\ k = i + 1 /\ k - 1 = i
  <2>1. Len(m) \in Nat /\ i + 1 \in 1..Len(m) /\ i + 1 - 1 = i
    OBVIOUS
  <2> QED
    BY <1>n, <2>1
<1>2. m[k] \in Char /\ \A j \in 1..n : m[j] \in Char
  BY <1>1, ElementOfSeq
<1>3. SubSeq(m, k, n) = <<m[k]>> \o SubSeq(m, k + 1, n)
  BY <1>1, SubSeqRecursiveFirst
<1>4. SubSeq(m, 1, k) = SubSeq(m, 1, k - 1) \o <<m[k]>>
  BY <1>1, SubSeqRecursiveSecond
<1>5. SubSeq(m, k + 1, n) \in Seq(Char)
  BY <1>1, <1>2
<1>6. SubSeq(m, 1, i) \in Seq(Char) /\ <<m[k]>> \in Seq(Char)
  BY <1>1, <1>2
<1> DEFINE x == <<m[k]>>
           s == SubSeq(m, k + 1, n)
           r == SubSeq(m, 1, i)
<1>12. s \in Seq(Char) /\ r \in Seq(Char) /\ x \in Seq(Char)
  BY <1>5, <1>6
<1> HIDE DEF s, r, x
<1>7. (x \o s) \o v = x \o (s \o v) /\ s \o v \in Seq(Char)
  <2>1. s \o v \in Seq(Char)
    BY <1>12, ConcatProperties
  <2>2. v \in Seq(Char)
    OBVIOUS
  <2>3. (x \o s) \o v = x \o (s \o v)
    BY <1>12, <2>2, Regroup, ZenonT(30)
  <2> QED
    BY <2>1, <2>3
<1>8. <<m[k]>> \o (s \o v) # <<>> /\ Head(<<m[k]>> \o (s \o v)) = m[k]
      /\ Tail(<<m[k]>> \o (s \o v)) = s \o v
  BY <1>2, <1>7, ConsFacts
<1>9. (u \o r) \o x = u \o (r \o x) /\ u \o r \in Seq(Char) /\ r \in Seq(Char)
  <2>1. u \o r \in Seq(Char)
    BY <1>12, ConcatProperties
  <2>2. (u \o r) \o x = u \o (r \o x)
    BY <1>12, Regroup, ZenonT(30)
  <2> QED
    BY <1>12, <2>1, <2>2
<1>10. Append(u \o r, m[k]) = (u \o r) \o <<m[k]>> /\ Append(r, m[k]) = r \o <<m[k]>>
  BY <1>2, <1>9, AppendIsConcat
<1> QED
  BY <1>1, <1>2, <1>3, <1>4, <1>7, <1>8, <1>9, <1>10 DEF ReadOn, s, r, x

(* What every step of splitCommand keeps.                                  *)
LEMMA ReadingKeeps ==
  ASSUME Inv, Reading
  PROVE  /\ Chosen' /\ Checked' /\ Done' /\ WordsSurvive'
         /\ doing = "split" /\ doing' = "split" /\ Caller' = Caller /\ Caller \in Seq(Part)
         /\ rest \in Seq(Char) /\ rest # <<>> /\ rest' = Tail(rest) /\ rest' \in Seq(Char)
         /\ Head(rest) \in Char
<1> USE DEF Inv, Reading, ran
<1>1. doing = "split" /\ doing' = "split" /\ ~ WasRun /\ ~ WasRun'
  BY DEF Done, WasRun
<1>2. Caller' = Caller /\ Caller \in Seq(Part)
  BY CallerType DEF Caller
<1>3. Chosen'
  BY <1>1, <1>2 DEF Chosen
<1>4. Checked' /\ Done' /\ WordsSurvive'
  BY <1>1 DEF Checked, Done, WordsSurvive, checkCrossLinkInputs, findRuntime
<1>5. rest \in Seq(Char) /\ rest # <<>> /\ Tail(rest) \in Seq(Char) /\ Head(rest) \in Char
  BY DEF Typed
<1> QED
  BY <1>1, <1>2, <1>3, <1>4, <1>5

(* A step outside quotes reads the first character of a part.              *)
LEMMA ReadingBetween ==
  ASSUME Inv, Reading, quote = None
  PROVE  \E n \in 0..(Len(Caller) - 1) :
           LET part == Caller[n + 1]
               behind == Spelled(Caller)[Len(Caller) - n - 1]
           IN /\ Between(n) /\ part \in Part /\ behind \in Seq(Char)
              /\ rest = part.text \o behind
              /\ Spelled(Caller)[Len(Caller) - (n + 1)] = behind
<1>1. /\ Caller \in Seq(Part) /\ rest # <<>> /\ doing = "split"
  BY ReadingKeeps
<1>2. \A n \in 0..(Len(Caller) - 1) : \A i \in 0..Len(Caller[n + 1].means) : ~ Within(n, i)
  BY LinkAssumption DEF Within
<1>3. PICK n \in 0..Len(Caller) : Between(n)
  BY <1>1, <1>2 DEF Inv, Progress
<1>4. rest = Spelled(Caller)[Len(Caller) - n]
  BY <1>3 DEF Between
<1>5. n # Len(Caller)
  BY <1>1, <1>4, SpelledNext
<1>6. /\ n \in 0..(Len(Caller) - 1) /\ Caller[n + 1] \in Part
      /\ Spelled(Caller)[Len(Caller) - n - 1] \in Seq(Char)
      /\ rest = Caller[n + 1].text \o Spelled(Caller)[Len(Caller) - n - 1]
  BY <1>1, <1>4, <1>5, SpelledNext
<1>7. Len(Caller) - (n + 1) = Len(Caller) - n - 1
  BY <1>1
<1> QED
  BY <1>3, <1>6, <1>7

LEMMA QuotesApart == Quotes \intersect Separators = {}
  BY DEF Quotes, Separators

LEMMA SeparatorStep ==
  ASSUME Inv, Separator
  PROVE  Inv'
<1>1. Reading /\ quote = None /\ quote' = None /\ Head(rest) \in Separators
  BY DEF Separator
<1>2. /\ Chosen' /\ Checked' /\ Done' /\ WordsSurvive'
      /\ doing = "split" /\ doing' = "split" /\ Caller' = Caller /\ Caller \in Seq(Part)
      /\ rest' = Tail(rest) /\ rest' \in Seq(Char)
  BY <1>1, ReadingKeeps
<1>3. PICK n \in 0..(Len(Caller) - 1) :
        LET part == Caller[n + 1]
            behind == Spelled(Caller)[Len(Caller) - n - 1]
        IN /\ Between(n) /\ part \in Part /\ behind \in Seq(Char)
           /\ rest = part.text \o behind
           /\ Spelled(Caller)[Len(Caller) - (n + 1)] = behind
  BY <1>1, ReadingBetween
<1> DEFINE part == Caller[n + 1]
           behind == Spelled(Caller)[Len(Caller) - n - 1]
<1>4. part.kind = "blank" /\ Tail(rest) = behind
  <2>1. part.kind \in {"blank", "bare", "quoted"}
    BY <1>3 DEF Part
  <2> QED
    BY <1>1, <1>3, <2>1, PartText, QuotesApart
<1>5. Meant(Caller)[n + 1] = Meant(Caller)[n]
  BY <1>2, <1>4, MeantNext
<1>6. /\ inWord' \in BOOLEAN /\ ~ inWord' /\ current' = <<>>
      /\ driverWords' = IF inWord THEN Append(driverWords, current) ELSE driverWords
  BY <1>3 DEF Separator, Between, Inv, TypeOK
<1>7. Between(n + 1)'
  <2>1. n + 1 # 0 /\ n + 1 \in 0..Len(Caller)
    BY <1>2
  <2>2. driverWords' = Meant(Caller)[n + 1]
    BY <1>3, <1>5, <1>6 DEF Between
  <2>3. rest' = Spelled(Caller)[Len(Caller) - (n + 1)]
    BY <1>2, <1>3, <1>4
  <2> QED
    BY <1>1, <1>2, <1>4, <1>6, <2>1, <2>2, <2>3 DEF Between
<1>8. Progress'
  <2>1. n + 1 \in 0..Len(Caller)
    BY <1>2
  <2> QED
    BY <1>2, <1>7, <2>1 DEF Progress
<1>9. Typed'
  <2>1. driverWords' \in Seq(Word) /\ current' \in Seq(Char)
    <3>1. current \in Word
      BY DEF Inv, Typed, Word
    <3> QED
      BY <1>6, <3>1 DEF Inv, Typed
  <2> QED
    BY <1>1, <1>2, <2>1 DEF Inv, Typed, Reading, Steps
<1>10. TypeOK'
  BY <1>1, <1>2, <1>6 DEF Inv, TypeOK, Reading, ran
<1> QED
  BY <1>2, <1>8, <1>9, <1>10 DEF Inv

LEMMA CharacterStep ==
  ASSUME Inv, Character
  PROVE  Inv'
<1>1. Reading /\ quote = None /\ quote' = None /\ Head(rest) \notin Quotes \union Separators
  BY DEF Character
<1>2. /\ Chosen' /\ Checked' /\ Done' /\ WordsSurvive'
      /\ doing = "split" /\ doing' = "split" /\ Caller' = Caller /\ Caller \in Seq(Part)
      /\ rest' = Tail(rest) /\ rest' \in Seq(Char) /\ Head(rest) \in Char
  BY <1>1, ReadingKeeps
<1>3. PICK n \in 0..(Len(Caller) - 1) :
        LET part == Caller[n + 1]
            behind == Spelled(Caller)[Len(Caller) - n - 1]
        IN /\ Between(n) /\ part \in Part /\ behind \in Seq(Char)
           /\ rest = part.text \o behind
           /\ Spelled(Caller)[Len(Caller) - (n + 1)] = behind
  BY <1>1, ReadingBetween
<1> DEFINE part == Caller[n + 1]
           behind == Spelled(Caller)[Len(Caller) - n - 1]
           x == Head(rest)
<1>4. part.kind = "bare" /\ Tail(rest) = behind /\ part.means = <<x>>
  <2>1. part.kind \in {"blank", "bare", "quoted"}
    BY <1>3 DEF Part
  <2> QED
    BY <1>1, <1>3, <2>1, PartText
<1>5. /\ current' = Append(current, x) /\ inWord' = TRUE /\ driverWords' = driverWords
  BY DEF Character
<1>6. current \in Seq(Char) /\ driverWords \in Seq(Word) /\ current \in Word
  BY DEF Inv, Typed, Word
<1>7. current' = current \o <<x>> /\ current' \in Seq(Char) /\ current' # <<>>
  BY <1>2, <1>5, <1>6, AppendIsConcat
<1>8. Meant(Caller)[n + 1] = Append(driverWords, current')
  <2>1. CASE n = 0 \/ Caller[n].kind = "blank"
    <3>1. Meant(Caller)[n] = driverWords /\ current = <<>>
      BY <1>3, <2>1 DEF Between
    <3>2. current' = <<x>>
      BY <1>5, <3>1
    <3> QED
      BY <1>2, <1>4, <2>1, <3>1, <3>2, MeantNext
  <2>2. CASE n # 0 /\ Caller[n].kind # "blank"
    <3>1. Meant(Caller)[n] = Append(driverWords, current)
      BY <1>3, <2>2 DEF Between
    <3>2. Front(Meant(Caller)[n]) = driverWords /\ Last(Meant(Caller)[n]) = current
      BY <1>6, <3>1, FrontLast
    <3> QED
      BY <1>2, <1>4, <1>7, <2>2, <3>2, MeantNext
  <2> QED
    BY <2>1, <2>2
<1>9. Between(n + 1)'
  <2>1. n + 1 # 0 /\ n + 1 \in 0..Len(Caller)
    BY <1>2
  <2>2. rest' = Spelled(Caller)[Len(Caller) - (n + 1)]
    BY <1>2, <1>3, <1>4
  <2> QED
    BY <1>1, <1>2, <1>4, <1>5, <1>8, <2>1, <2>2 DEF Between
<1>10. Progress'
  <2>1. n + 1 \in 0..Len(Caller)
    BY <1>2
  <2> QED
    BY <1>2, <1>9, <2>1 DEF Progress
<1>11. Typed'
  BY <1>1, <1>2, <1>5, <1>6, <1>7 DEF Inv, Typed, Reading, Steps
<1>12. TypeOK'
  BY <1>1, <1>2, <1>5 DEF Inv, TypeOK, Reading, ran
<1> QED
  BY <1>2, <1>10, <1>11, <1>12 DEF Inv

LEMMA OpenQuoteStep ==
  ASSUME Inv, OpenQuote
  PROVE  Inv'
<1>1. Reading /\ quote = None /\ quote' = Head(rest) /\ Head(rest) \in Quotes
  BY DEF OpenQuote
<1>2. /\ Chosen' /\ Checked' /\ Done' /\ WordsSurvive'
      /\ doing = "split" /\ doing' = "split" /\ Caller' = Caller /\ Caller \in Seq(Part)
      /\ rest' = Tail(rest) /\ rest' \in Seq(Char) /\ Head(rest) \in Char
  BY <1>1, ReadingKeeps
<1>3. PICK n \in 0..(Len(Caller) - 1) :
        LET part == Caller[n + 1]
            behind == Spelled(Caller)[Len(Caller) - n - 1]
        IN /\ Between(n) /\ part \in Part /\ behind \in Seq(Char)
           /\ rest = part.text \o behind
           /\ Spelled(Caller)[Len(Caller) - (n + 1)] = behind
  BY <1>1, ReadingBetween
<1> DEFINE part == Caller[n + 1]
           behind == Spelled(Caller)[Len(Caller) - n - 1]
           m == part.means
<1>4. part.kind = "quoted" /\ ~ Contains(m, quote') /\ Tail(rest) = m \o <<quote'>> \o behind
  <2>1. part.kind \in {"blank", "bare", "quoted"}
    BY <1>3 DEF Part
  <2>2. Head(rest) \notin Separators
    BY <1>1, QuotesApart
  <2> QED
    BY <1>1, <1>3, <2>1, <2>2, PartText
<1>5. inWord' = TRUE /\ driverWords' = driverWords /\ current' = current
  BY DEF OpenQuote
<1>6. current \in Seq(Char) /\ driverWords \in Seq(Word) /\ current \in Word
  BY DEF Inv, Typed, Word
<1>7. m \in Seq(Char) /\ Len(m) \in Nat
  BY <1>3 DEF Part
<1>8. SubSeq(m, 1, 0) = <<>> /\ SubSeq(m, 0 + 1, Len(m)) = m
  BY <1>7, SubSeqEmpty, SubSeqFull
<1>9. IF n = 0 \/ Caller[n].kind = "blank"
      THEN Meant(Caller)[n] = driverWords /\ current = <<>>
      ELSE Front(Meant(Caller)[n]) = driverWords /\ current = Last(Meant(Caller)[n]) \o <<>>
  <2>1. CASE n = 0 \/ Caller[n].kind = "blank"
    BY <1>3, <2>1 DEF Between
  <2>2. CASE n # 0 /\ Caller[n].kind # "blank"
    <3>1. Meant(Caller)[n] = Append(driverWords, current)
      BY <1>3, <2>2 DEF Between
    <3>2. Front(Meant(Caller)[n]) = driverWords /\ Last(Meant(Caller)[n]) = current
      BY <1>6, <3>1, FrontLast
    <3>3. current \o <<>> = current
      BY <1>6, ConcatEmptySeq
    <3> QED
      BY <2>2, <3>2, <3>3
  <2> QED
    BY <2>1, <2>2
<1>10. Within(n, 0)'
  BY <1>1, <1>2, <1>4, <1>5, <1>8, <1>9 DEF Within
<1>11. Progress'
  <2>1. 0 \in 0..Len(m)
    BY <1>7
  <2> QED
    BY <1>2, <1>10, <2>1 DEF Progress
<1>12. Typed'
  BY <1>1, <1>2, <1>5, <1>6 DEF Inv, Typed, Reading, Steps
<1>13. TypeOK'
  BY <1>1, <1>2, <1>5 DEF Inv, TypeOK, Reading, ran
<1> QED
  BY <1>2, <1>11, <1>12, <1>13 DEF Inv

(* What is left within a quoted part.                                      *)
LEMMA QuoteLeft ==
  ASSUME NEW left \in Seq(Char), NEW q \in Char, NEW behind \in Seq(Char)
  PROVE  /\ <<q>> \o behind \in Seq(Char)
         /\ left \o <<q>> \o behind = left \o (<<q>> \o behind)
         /\ left \o <<q>> \o behind # <<>>
<1> DEFINE x == <<q>>
<1>1. x \in Seq(Char) /\ Len(x) = 1
  OBVIOUS
<1> HIDE DEF x
<1>2. x \o behind \in Seq(Char)
  BY <1>1, ConcatProperties
<1>3. left \o x \o behind = left \o (x \o behind)
  BY <1>1, Regroup, Zenon
<1> DEFINE s == left \o x \o behind
<1>4. Len(s) = Len(left) + Len(x) + Len(behind) /\ Len(left) \in Nat /\ Len(behind) \in Nat
  <2>1. left \o x \in Seq(Char) /\ Len(left \o x) = Len(left) + Len(x)
    BY <1>1, ConcatProperties
  <2>2. Len((left \o x) \o behind) = Len(left \o x) + Len(behind)
    BY <2>1, ConcatProperties
  <2>3. Len(left) \in Nat /\ Len(behind) \in Nat
    OBVIOUS
  <2> QED
    BY <2>1, <2>2, <2>3
<1> HIDE DEF s
<1>5. s # <<>>
  BY <1>1, <1>4
<1> QED
  BY <1>2, <1>3, <1>5 DEF x, s

LEMMA WithinFacts ==
  ASSUME NEW c \in Seq(Part), c = Caller, NEW n \in 0..(Len(c) - 1),
         NEW i \in 0..Len(c[n + 1].means), Within(n, i)
  PROVE  LET m == c[n + 1].means
             read == SubSeq(m, 1, i)
             left == SubSeq(m, i + 1, Len(m))
             behind == Spelled(c)[Len(c) - n - 1]
         IN /\ n + 1 \in 1..Len(c) /\ n + 1 \in 0..Len(c) /\ n \in 0..Len(c) /\ n # Len(c)
            /\ n + 1 # 0 /\ Len(c) - (n + 1) = Len(c) - n - 1
            /\ m \in Seq(Char) /\ Len(m) \in Nat
            /\ \A k \in 1..(Len(m) + 1) : SubSeq(m, k, Len(m)) \in Seq(Char)
            /\ read \in Seq(Char) /\ left \in Seq(Char) /\ behind \in Seq(Char)
            /\ quote \in Char /\ <<quote>> \o behind \in Seq(Char)
            /\ rest = left \o (<<quote>> \o behind) /\ rest # <<>>
<1> DEFINE m == c[n + 1].means
           read == SubSeq(m, 1, i)
           left == SubSeq(m, i + 1, Len(m))
           behind == Spelled(c)[Len(c) - n - 1]
<1>1. n + 1 \in 1..Len(c) /\ n + 1 \in 0..Len(c) /\ n \in 0..Len(c) /\ n # Len(c)
      /\ n + 1 # 0 /\ Len(c) - (n + 1) = Len(c) - n - 1
  OBVIOUS
<1>2. behind \in Seq(Char)
  BY <1>1, SpelledNext
<1>3. m \in Seq(Char) /\ Len(m) \in Nat
  <2>1. PICK k \in 1..Len(c) : k = n + 1
    BY <1>1
  <2>2. c[k].means \in Seq(Char)
    BY PartFacts
  <2>3. m \in Seq(Char)
    BY <2>1, <2>2
  <2> HIDE DEF m
  <2> QED
    BY <2>3
<1>4. rest = left \o <<quote>> \o behind /\ quote \in Char
  BY DEF Within, Char
<1>5. i \in 0..Len(m)
  OBVIOUS
<1> HIDE DEF m
<1>6. \A j \in 1..Len(m) : m[j] \in Char
  BY <1>3
<1>7. \A k \in 1..(Len(m) + 1) : SubSeq(m, k, Len(m)) \in Seq(Char)
  BY <1>3, <1>6
<1>8. read \in Seq(Char) /\ left \in Seq(Char)
  BY <1>3, <1>5, <1>6
<1> HIDE DEF read, left, behind
<1>9. /\ <<quote>> \o behind \in Seq(Char)
      /\ left \o <<quote>> \o behind = left \o (<<quote>> \o behind)
      /\ left \o <<quote>> \o behind # <<>>
  BY <1>2, <1>4, <1>8, QuoteLeft, Zenon
<1> QED
  BY <1>1, <1>2, <1>3, <1>4, <1>7, <1>8, <1>9 DEF m, read, left, behind

(* A step inside quotes is within a quoted part.                           *)
LEMMA QuotedStep ==
  ASSUME Inv, Quoted
  PROVE  Inv'
<1>1. Reading /\ quote # None
  BY DEF Quoted
<1>2. /\ Chosen' /\ Checked' /\ Done' /\ WordsSurvive'
      /\ doing = "split" /\ doing' = "split" /\ Caller' = Caller /\ Caller \in Seq(Part)
      /\ rest' = Tail(rest) /\ rest' \in Seq(Char) /\ Head(rest) \in Char
  BY <1>1, ReadingKeeps
<1>11. PICK n \in 0..(Len(Caller) - 1) : \E i \in 0..Len(Caller[n + 1].means) : Within(n, i)
  <2>1. \A k \in 0..Len(Caller) : ~ Between(k)
    BY <1>1 DEF Between
  <2> QED
    BY <1>2, <2>1 DEF Inv, Progress
<1>3. PICK i \in 0..Len(Caller[n + 1].means) : Within(n, i)
  BY <1>11
<1> DEFINE part == Caller[n + 1]
           behind == Spelled(Caller)[Len(Caller) - n - 1]
           m == part.means
           read == SubSeq(m, 1, i)
           left == SubSeq(m, i + 1, Len(m))
           v == <<quote>> \o behind
<1>4. /\ quote \in Quotes /\ ~ Contains(m, quote) /\ inWord /\ part.kind = "quoted"
      /\ rest = left \o <<quote>> \o behind
      /\ IF n = 0 \/ Caller[n].kind = "blank"
         THEN Meant(Caller)[n] = driverWords /\ current = read
         ELSE /\ Front(Meant(Caller)[n]) = driverWords
              /\ current = Last(Meant(Caller)[n]) \o read
  BY <1>3 DEF Within
<1>5. /\ n + 1 \in 1..Len(Caller) /\ n + 1 \in 0..Len(Caller) /\ n \in 0..Len(Caller) /\ n # Len(Caller)
      /\ n + 1 # 0 /\ Len(Caller) - (n + 1) = Len(Caller) - n - 1
      /\ m \in Seq(Char) /\ Len(m) \in Nat
      /\ \A k \in 1..(Len(m) + 1) : SubSeq(m, k, Len(m)) \in Seq(Char)
      /\ read \in Seq(Char) /\ left \in Seq(Char) /\ behind \in Seq(Char)
      /\ quote \in Char /\ v \in Seq(Char) /\ rest = left \o v
  BY <1>2, <1>3, WithinFacts
<1>6. behind \in Seq(Char) /\ m \in Seq(Char) /\ Len(m) \in Nat
  BY <1>5
<1>7. current \in Seq(Char) /\ driverWords \in Seq(Word) /\ driverWords' = driverWords /\ inWord' = inWord
      /\ quote \in Char
  BY <1>5 DEF Inv, Typed, Quoted
<1>8. v \in Seq(Char) /\ left \in Seq(Char) /\ read \in Seq(Char) /\ rest = left \o v
  BY <1>5
<1>9. CASE i # Len(m)
  <2>1. PICK k \in 1..Len(m) : k = i + 1
    BY <1>6, <1>9
  <2>2. /\ m[k] \in Char /\ Head(rest) = m[k] /\ Tail(rest) = SubSeq(m, k + 1, Len(m)) \o v
        /\ Append(read, m[k]) = SubSeq(m, 1, k)
        /\ \A u \in Seq(Char) : Append(u \o read, m[k]) = u \o SubSeq(m, 1, k)
    <3>1. ASSUME NEW u \in Seq(Char)
          PROVE  /\ m[k] \in Char /\ Head(left \o v) = m[k]
                 /\ Tail(left \o v) = SubSeq(m, k + 1, Len(m)) \o v
                 /\ Append(read, m[k]) = SubSeq(m, 1, k)
                 /\ Append(u \o read, m[k]) = u \o SubSeq(m, 1, k)
      <4>1. m \in Seq(Char) /\ v \in Seq(Char) /\ i \in 0..Len(m) /\ i # Len(m)
        BY <1>3, <1>6, <1>8, <1>9
      <4> HIDE DEF v, m
      <4>2. ReadOn(m, i, u, v)
        BY <4>1, ReadFurther, Zenon
      <4> QED
        BY <2>1, <4>2 DEF ReadOn
    <3>2. <<>> \in Seq(Char)
      OBVIOUS
    <3> HIDE DEF left, v, read
    <3> QED
      BY <1>8, <3>1, <3>2
  <2>3. quote # m[k]
    BY <1>4, <2>1 DEF Contains
  <2>4. quote' = quote /\ current' = Append(current, m[k])
    BY <2>2, <2>3 DEF Quoted
  <2>5. IF n = 0 \/ Caller[n].kind = "blank"
        THEN Meant(Caller)[n] = driverWords /\ current' = SubSeq(m, 1, k)
        ELSE /\ Front(Meant(Caller)[n]) = driverWords
             /\ current' = Last(Meant(Caller)[n]) \o SubSeq(m, 1, k)
    <3>1. CASE n = 0 \/ Caller[n].kind = "blank"
      BY <1>4, <2>2, <2>4, <3>1
    <3>2. CASE n # 0 /\ Caller[n].kind # "blank"
      <4>1. Last(Meant(Caller)[n]) \in Seq(Char)
        BY <1>2, <1>5, <3>2, MeantLast
      <4> QED
        BY <1>4, <2>2, <2>4, <3>2, <4>1
    <3> QED
      BY <3>1, <3>2
  <2>6. rest' = SubSeq(m, k + 1, Len(m)) \o <<quote>> \o behind
    <3> DEFINE w == SubSeq(m, k + 1, Len(m))
    <3>1. w \in Seq(Char)
      <4>1. k + 1 \in 1..(Len(m) + 1)
        BY <1>6
      <4> QED
        BY <1>5, <4>1
    <3>2. rest' = w \o (<<quote>> \o behind)
      BY <1>2, <2>2
    <3> HIDE DEF w, behind
    <3>3. w \o <<quote>> \o behind = w \o (<<quote>> \o behind)
      BY <1>5, <3>1, QuoteLeft, Zenon
    <3> QED
      BY <3>2, <3>3 DEF w
  <2>7. Within(n, k)'
    BY <1>2, <1>4, <1>7, <2>4, <2>5, <2>6 DEF Within
  <2>8. Progress'
    BY <1>2, <2>1, <2>7 DEF Progress
  <2>9. Typed'
    BY <1>1, <1>2, <1>7, <2>2, <2>4 DEF Inv, Typed, Reading, Steps
  <2>10. TypeOK'
    BY <1>1, <1>2, <1>4, <1>7, <2>4 DEF Inv, TypeOK, Reading, ran
  <2> QED
    BY <1>2, <2>8, <2>9, <2>10 DEF Inv
<1>10. CASE i = Len(m)
  <2>1. left = <<>> /\ read = m
    BY <1>6, <1>10, SubSeqEmpty, SubSeqFull
  <2>2. rest = <<quote>> \o behind
    BY <1>8, <2>1, ConcatEmptySeq
  <2>3. Head(rest) = quote /\ Tail(rest) = behind
    BY <1>6, <1>7, <2>2, ConsFacts
  <2>4. quote' = None /\ current' = current
    BY <2>3 DEF Quoted
  <2>5. Meant(Caller)[n + 1] = Append(driverWords, current)
    <3>1. CASE n = 0 \/ Caller[n].kind = "blank"
      BY <1>2, <1>4, <2>1, <3>1, MeantNext
    <3>2. CASE n # 0 /\ Caller[n].kind # "blank"
      BY <1>2, <1>4, <2>1, <3>2, MeantNext
    <3> QED
      BY <3>1, <3>2
  <2>6. rest' = Spelled(Caller)[Len(Caller) - (n + 1)]
    BY <1>2, <1>5, <2>3
  <2>7. Between(n + 1)'
    BY <1>2, <1>4, <1>5, <1>7, <2>4, <2>5, <2>6 DEF Between
  <2>8. Progress'
    BY <1>2, <1>5, <2>7 DEF Progress
  <2>9. Typed'
    BY <1>1, <1>2, <1>7, <2>4 DEF Inv, Typed, Reading, Steps
  <2>10. TypeOK'
    BY <1>1, <1>2, <1>4, <1>7, <2>4 DEF Inv, TypeOK, Reading, ran
  <2> QED
    BY <1>2, <2>8, <2>9, <2>10 DEF Inv
<1> QED
  BY <1>9, <1>10

LEMMA EndSplitStep ==
  ASSUME Inv, EndSplit
  PROVE  Inv'
<1> USE DEF EndSplit, splitting, ran
<1>1. doing = "split" /\ rest = <<>> /\ Caller' = Caller /\ Caller \in Seq(Part) /\ ~ WasRun /\ ~ WasRun'
  BY CallerType DEF Inv, Caller, Done, WasRun
<1>2. driverWords' = Words(Caller)
  <2>1. ASSUME NEW n \in 0..(Len(Caller) - 1), NEW i \in 0..Len(Caller[n + 1].means), Within(n, i)
        PROVE  FALSE
    BY <1>1, <2>1, WithinFacts
  <2>2. PICK n \in 0..Len(Caller) : Between(n)
    BY <1>1, <2>1 DEF Inv, Progress
  <2>3. Spelled(Caller)[Len(Caller) - n] = <<>>
    BY <1>1, <2>2 DEF Between
  <2>4. n = Len(Caller)
    BY <1>1, <2>3, SpelledNext
  <2> QED
    BY <2>2, <2>4 DEF Between, Words
<1>3. Typed'
  <2>1. current \in Word
    BY DEF Inv, Typed, Word
  <2>2. driverWords \in Seq(Word)
    BY DEF Inv, Typed
  <2>3. driverWords' \in Seq(Word)
    <3>1. Append(driverWords, current) \in Seq(Word)
      BY <2>1, <2>2, AppendProperties
    <3> QED
      BY <2>2, <3>1
  <2> QED
    BY <2>3 DEF Inv, Typed, Fail, Goto, Steps
<1>4. TypeOK'
  BY DEF Inv, TypeOK, Fail, Goto, Errors
<1>5. Chosen' /\ Progress'
  BY <1>1 DEF Inv, Chosen, Progress, Fail, Goto
<1>6. Checked' /\ Done'
  BY <1>1, LinkAssumption DEF Inv, Checked, Done, Fail, Goto, Errors, Ends, checkCrossLinkInputs, findRuntime
<1>7. WordsSurvive'
  BY <1>1, <1>2 DEF WordsSurvive
<1> QED
  BY <1>3, <1>4, <1>5, <1>6, <1>7 DEF Inv

-----------------------------------------------------------------------------
(* The theorems.                                                           *)

LEMMA InvStep ==
  ASSUME Inv, [Next]_vars
  PROVE  Inv'
<1>1. CASE UNCHANGED vars
  <2> USE <1>1 DEF vars, splitting, ran
  <2>1. Typed' /\ TypeOK'
    BY DEF Inv, Typed, TypeOK
  <2>2. Caller' = Caller /\ (WasRun' <=> WasRun)
    BY DEF Caller, WasRun
  <2>3. Chosen' /\ WordsSurvive'
    BY <2>2 DEF Inv, Chosen, WordsSurvive
  <2>4. Checked'
    BY <2>2 DEF Inv, Checked, checkCrossLinkInputs, findRuntime, findProgramByName
  <2>5. Done'
    BY <2>2 DEF Inv, Done, useLinkerFlag, Arguments
  <2>6. Progress'
    BY <2>2 DEF Inv, Progress, Between, Within
  <2> QED
    BY <2>1, <2>3, <2>4, <2>5, <2>6 DEF Inv
<1> QED
  BY <1>1, CheckCrossStep, FindRuntimeStep, ChooseNamedStep, ChooseDefaultStep, QuotedStep,
     OpenQuoteStep, SeparatorStep, CharacterStep, EndSplitStep, ResolveStep, CheckArchiveStep,
     ExecuteAndWaitStep DEF Next

LEMMA InvAlways == Spec => []Inv
  BY InvInit, InvStep, PTL DEF Spec

(* Every variable has its type, whatever the command lines.                *)
THEOREM TypeCorrect == Spec => []TypeOK
<1>1. Inv => TypeOK
  BY DEF Inv
<1> QED
  BY <1>1, InvAlways, PTL

(* The words splitCommand finds are those that the author of the command   *)
(* line meant, for every command line made of blanks, bare characters and  *)
(* quoted parts.                                                           *)
THEOREM WordsCorrect == Spec => []WordsSurvive
<1>1. Inv => WordsSurvive
  BY DEF Inv
<1> QED
  BY <1>1, InvAlways, PTL

LEMMA ReverseFacts ==
  ASSUME NEW U, NEW s \in Seq(U)
  PROVE  /\ Reverse(s) \in Seq(U) /\ Len(Reverse(s)) = Len(s)
         /\ \A k \in 1..Len(s) : Reverse(s)[k] = s[Len(s) - k + 1]
<1> DEFINE n == Len(s)
           r == [k \in 1..n |-> s[n - k + 1]]
<1>1. n \in Nat /\ \A k \in 1..n : n - k + 1 \in 1..n
  OBVIOUS
<1>2. \A k \in 1..n : s[k] \in U
  OBVIOUS
<1>3. \A k \in 1..n : s[n - k + 1] \in U
  BY <1>1, <1>2
<1> HIDE DEF n
<1>4. r \in [1..n -> U] /\ \A k \in 1..n : r[k] = s[n - k + 1]
  BY <1>3
<1> HIDE DEF r
<1>5. r \in Seq(U) /\ Len(r) = n
  BY <1>1, <1>4
<1>6. Reverse(s) = r
  BY DEF Reverse, r, n
<1> QED
  BY <1>4, <1>5, <1>6 DEF n

(* What is run: the words of the driver first, the arguments last.         *)
LEMMA RunFacts ==
  ASSUME Inv, WasRun
  PROVE  /\ Len(driverWords) \in Nat /\ Len(useLinkerFlag) \in {0, 1} /\ Len(Arguments) = 4
         /\ Len(args) = Len(driverWords) + Len(useLinkerFlag) + 4
         /\ IsPrefix(driverWords, args) /\ IsSuffix(Arguments, args)
         /\ Head(args) = Head(driverWords)
<1>1. PICK U : /\ driverWords \in Seq(U) /\ useLinkerFlag \in Seq(U) /\ Arguments \in Seq(U)
               /\ Len(Arguments) = 4 /\ Len(useLinkerFlag) \in {0, 1}
  BY ArgumentsFacts DEF Inv
<1>2. args = driverWords \o useLinkerFlag \o Arguments /\ driverWords # <<>>
  BY DEF Inv, Done, Checked
<1> DEFINE d == driverWords
           f == useLinkerFlag
           a == Arguments
<1>3. d \in Seq(U) /\ f \in Seq(U) /\ a \in Seq(U) /\ d # <<>> /\ Len(a) = 4 /\ Len(f) \in {0, 1}
      /\ args = d \o f \o a
  BY <1>1, <1>2
<1> HIDE DEF d, f, a
<1>4. /\ args \in Seq(U) /\ Len(d) \in Nat /\ Len(args) = Len(d) + Len(f) + 4
      /\ \A k \in 1..Len(d) : args[k] = d[k]
      /\ \A k \in 1..4 : args[Len(d) + Len(f) + k] = a[k]
  <2>1. d \in Seq(U) /\ f \in Seq(U) /\ a \in Seq(U) /\ args = d \o f \o a
    BY <1>3
  <2>2. args \in Seq(U) /\ Row(args, d, f, a)
    BY <2>1, RowFacts
  <2> QED
    BY <1>3, <2>2 DEF Row
<1>5. Len(d) # 0
  BY <1>3
<1>6. Head(args) = Head(d)
  <2>1. args # <<>> /\ 1 \in 1..Len(d)
    BY <1>3, <1>4, <1>5
  <2> QED
    BY <1>3, <1>4, <2>1, HeadTailProperties
<1>7. IsPrefix(d, args)
  <2>1. Len(d) <= Len(args)
    BY <1>3, <1>4
  <2>2. SubSeq(d, 1, Len(d)) = d
    BY <1>3, SubSeqFull
  <2>3. SubSeq(args, 1, Len(d)) = d
    <3> DEFINE s == SubSeq(args, 1, Len(d))
    <3>1. s \in Seq(U) /\ Len(s) = Len(d) /\ \A k \in 1..Len(d) : s[k] = args[k]
      BY <1>4, <2>1
    <3> HIDE DEF s
    <3>2. s = d
      BY <1>3, <1>4, <3>1, SeqEqual
    <3> QED
      BY <3>2 DEF s
  <2> QED
    BY <2>1, <2>2, <2>3 DEF IsPrefix
<1>8. IsSuffix(a, args)
  <2> DEFINE r == Reverse(a)
             s == Reverse(args)
  <2>1. /\ r \in Seq(U) /\ Len(r) = 4 /\ \A k \in 1..4 : r[k] = a[4 - k + 1]
    <3>1. r \in Seq(U) /\ Len(r) = Len(a)
      BY <1>3, ReverseFacts
    <3>2. \A k \in 1..Len(a) : r[k] = a[Len(a) - k + 1]
      BY <1>3, ReverseFacts
    <3> HIDE DEF r
    <3> QED
      BY <1>3, <3>1, <3>2
  <2>2. /\ s \in Seq(U) /\ Len(s) = Len(args) /\ \A k \in 1..Len(args) : s[k] = args[Len(args) - k + 1]
    BY <1>4, ReverseFacts
  <2> HIDE DEF r, s
  <2>3. Len(args) \in Nat /\ 4 <= Len(args)
    BY <1>3, <1>4
  <2>4. SubSeq(r, 1, 4) = r
    BY <2>1, SubSeqFull
  <2> DEFINE t == SubSeq(s, 1, 4)
  <2>5. t \in Seq(U) /\ Len(t) = 4 /\ \A k \in 1..4 : t[k] = s[k]
    BY <2>2, <2>3
  <2>6. ASSUME NEW k \in 1..4
        PROVE  r[k] = s[k]
    <3>1. PICK j \in 1..4 : j = 4 - k + 1
      BY <2>6
    <3>2. Len(args) - k + 1 = Len(d) + Len(f) + j /\ k \in 1..Len(args)
      BY <1>3, <1>4, <2>3, <3>1
    <3> QED
      BY <1>4, <2>1, <2>2, <3>1, <3>2
  <2> HIDE DEF t
  <2>7. t = r
    BY <2>1, <2>5, <2>6, SeqEqual
  <2>8. IsPrefix(r, s)
    BY <2>1, <2>2, <2>3, <2>4, <2>7 DEF IsPrefix, t
  <2> QED
    BY <2>8 DEF IsSuffix, r, s
<1> QED
  BY <1>3, <1>4, <1>6, <1>7, <1>8 DEF d, f, a

(* A cross link runs the caller's own words, with no linker that was not   *)
(* asked for, and with an archive that the caller named, whatever is       *)
(* installed on the host.                                                  *)
THEOREM HostToolsCorrect == Spec => []HostToolsStayHome
<1>1. ASSUME Inv
      PROVE  HostToolsStayHome
  <2> SUFFICES ASSUME options.crossing, WasRun
               PROVE  /\ IsPrefix(Words(Caller), args)
                      /\ Len(args) > Len(Words(Caller)) + Len(Arguments) =>
                           options.useLinker \notin {None, <<>>}
                      /\ runtimePath \in {"option", "variable"}
    BY DEF HostToolsStayHome
  <2>1. checkCrossLinkInputs /\ runtimePath = IF options.runtime = None THEN findRuntime ELSE options.runtime
    BY <1>1 DEF Inv, Checked
  <2>2. Caller # Empty
    BY <2>1 DEF checkCrossLinkInputs, Caller
  <2>3. namedByCaller /\ doing = "done"
    BY <1>1, <2>2 DEF Inv, Chosen, Done
  <2>4. driverWords = Words(Caller)
    BY <1>1, <2>3 DEF Inv, WordsSurvive
  <2>5. options.useLinker \in {None, <<>>} => useLinkerFlag = <<>>
    BY <2>3 DEF useLinkerFlag
  <2>6. runtimePath \in {"option", "variable"}
    BY <1>1, <2>1 DEF Inv, Typed, checkCrossLinkInputs, findRuntime
  <2>7. /\ Len(driverWords) \in Nat /\ Len(Arguments) = 4 /\ IsPrefix(driverWords, args)
        /\ Len(args) = Len(driverWords) + Len(useLinkerFlag) + 4
    BY <1>1, RunFacts
  <2>8. useLinkerFlag = <<>> => ~ (Len(args) > Len(driverWords) + Len(Arguments))
    BY <2>7
  <2> QED
    BY <2>4, <2>5, <2>6, <2>7, <2>8
<1> QED
  BY <1>1, InvAlways, PTL

(* Success means that the driver was run, and it is run only when it and   *)
(* the archive are there, with what the caller named.                      *)
THEOREM RunsCorrect == Spec => []RunsComplete
<1>1. ASSUME Inv
      PROVE  RunsComplete
  <2>1. /\ doing = "done" => (error = None <=> ended = "succeeded")
        /\ WasRun <=> ended # None
    BY <1>1 DEF Inv, Done
  <2>2. ASSUME WasRun
        PROVE  /\ doing = "done"
               /\ findProgramByName(Head(args))
               /\ runtimePath \in environment.files
               /\ IsSuffix(Arguments, args)
               /\ options.runtime # None => runtimePath = options.runtime
               /\ options.runtime = None /\ environment.RUNTIME # None =>
                    runtimePath = environment.RUNTIME
    <3>1. IsSuffix(Arguments, args) /\ Head(args) = Head(driverWords)
      BY <1>1, <2>2, RunFacts
    <3>2. doing = "done" /\ findProgramByName(Head(driverWords)) /\ runtimePath \in environment.files
          /\ runtimePath = IF options.runtime = None THEN findRuntime ELSE options.runtime
      BY <1>1, <2>2 DEF Inv, Done, Checked
    <3> QED
      BY <3>1, <3>2 DEF findRuntime
  <2> QED
    BY <2>1, <2>2 DEF RunsComplete
<1> QED
  BY <1>1, InvAlways, PTL
=============================================================================
