---------------------- MODULE RequestInput_head_proofs ----------------------
(***************************************************************************)
(* Where the parts of a request stand in its text, and what the request    *)
(* line and the headers do to the head of the parser, byte by byte, for    *)
(* every request and every beginning of its text.  The last lemmas, from   *)
(* HeadIs on, are what RequestInput_proofs uses of it.                     *)
(***************************************************************************)
EXTENDS RequestInput, SequenceTheorems, WellFoundedInduction, TLAPS

-----------------------------------------------------------------------------
(* Induction over numbers, for sets instead of predicates                  *)

LEMMA LeastNumber ==
  ASSUME NEW S, S \subseteq Nat, S # {}
  PROVE  \E x \in S : \A y \in S : ~(y < x)
<1> DEFINE R == OpToRel(<, Nat)
<1>1. IsWellFoundedOn(R, Nat)
  BY NatLessThanWellFounded
<1>2. \A x, y \in Nat : x < y => <<x, y>> \in R
  BY DEF OpToRel
<1> HIDE DEF R
<1>3. \E x \in S : \A y \in S : ~ (<<y, x>> \in R)
  BY <1>1, WFMin
<1> QED
  BY <1>2, <1>3, Zenon

\* What holds of m and is handed on holds of every number up to n.
LEMMA Induction ==
  ASSUME NEW m \in Int, NEW n \in Int, NEW S, m \in S,
         \A i \in m .. n - 1 : i \in S => i + 1 \in S
  PROVE  \A i \in m .. n : i \in S
<1> DEFINE Bad == {j \in Nat : m + j <= n /\ m + j \notin S}
<1>1. SUFFICES ASSUME Bad # {} PROVE FALSE
  <2>1. SUFFICES ASSUME NEW i \in m .. n, i \notin S PROVE Bad # {}
    OBVIOUS
  <2>2. i - m \in Bad
    BY <2>1
  <2> QED
    BY <2>2
<1>2. PICK x \in Bad : \A y \in Bad : ~(y < x)
  BY <1>1, LeastNumber
<1>3. x # 0
  OBVIOUS
<1>4. x - 1 \notin Bad
  BY <1>2
<1>5. m + (x - 1) \in S
  BY <1>2, <1>3, <1>4
<1> QED
  BY <1>2, <1>3, <1>5

\* A loop over m .. n-1 that keeps its state in A: step[i] is what the round i
\* does to the state, f[i] the state before it.
IsStep(step, m, n, A) == step \in [m .. n - 1 -> [A -> A]]
IsLoop(f, m, n, A, a, step) ==
  /\ f \in [m .. n -> A]
  /\ f[m] = a
  /\ \A i \in m .. n - 1 : f[i + 1] = step[i][f[i]]

LEMMA Iteration ==
  ASSUME NEW m \in Int, NEW n \in Int, m <= n, NEW A, NEW a \in A,
         NEW step, IsStep(step, m, n, A)
  PROVE  \E f : IsLoop(f, m, n, A, a, step)
<1>1. step \in [m .. n - 1 -> [A -> A]]
  BY DEF IsStep
<1> DEFINE Upto(j) == \E f \in [m .. j -> A] :
             f[m] = a /\ \A i \in m .. j - 1 : f[i + 1] = step[i][f[i]]
           S == {j \in m .. n : Upto(j)}
<1>2. m \in S
  <2> DEFINE g == [i \in m .. m |-> a]
  <2>1. g \in [m .. m -> A] /\ g[m] = a
    OBVIOUS
  <2>2. \A i \in m .. m - 1 : g[i + 1] = step[i][g[i]]
    OBVIOUS
  <2> HIDE DEF g
  <2>3. Upto(m)
    BY <2>1, <2>2
  <2> QED
    BY <2>3
<1>3. \A j \in m .. n - 1 : j \in S => j + 1 \in S
  <2> TAKE j \in m .. n - 1
  <2> HAVE j \in S
  <2>1. PICK f \in [m .. j -> A] :
          f[m] = a /\ \A i \in m .. j - 1 : f[i + 1] = step[i][f[i]]
    OBVIOUS
  <2> DEFINE g == [i \in m .. j + 1 |-> IF i = j + 1 THEN step[j][f[j]] ELSE f[i]]
  <2>2. f[j] \in A
    BY <2>1
  <2>3. step[j][f[j]] \in A
    BY <1>1, <2>2
  <2>4. g \in [m .. j + 1 -> A]
    BY <2>1, <2>3
  <2>5. g[m] = a
    BY <2>1
  <2>6. ASSUME NEW i \in m .. j PROVE g[i + 1] = step[i][g[i]]
    <3>1. CASE i = j
      BY <3>1
    <3>2. CASE i # j
      BY <3>2, <2>1
    <3> QED
      BY <3>1, <3>2
  <2> HIDE DEF g
  <2>7. Upto(j + 1)
    <3>1. m .. (j + 1) - 1 = m .. j
      OBVIOUS
    <3> QED
      BY <2>4, <2>5, <2>6, <3>1
  <2>8. j + 1 \in m .. n
    OBVIOUS
  <2> HIDE DEF Upto
  <2> QED
    BY <2>7, <2>8
<1> HIDE DEF S
<1>4. \A j \in m .. n : j \in S
  BY <1>2, <1>3, Induction
<1>5. n \in S
  BY <1>4
<1> QED
  BY <1>5 DEF S, IsLoop

-----------------------------------------------------------------------------
(* FlattenSeq                                                              *)

Texts == Seq(Bytes)
IsTexts(ss) == ss \in Seq(Texts)

LEMMA TextsFacts ==
  ASSUME NEW ss, IsTexts(ss)
  PROVE  /\ Len(ss) \in Nat
         /\ ss = <<>> <=> Len(ss) = 0
         /\ \A i \in 1 .. Len(ss) : ss[i] \in Texts
<1> HIDE DEF Texts
<1> QED
  BY DEF IsTexts

LEMMA TextFacts ==
  ASSUME NEW s \in Texts
  PROVE  /\ Len(s) \in Nat
         /\ s = <<>> <=> Len(s) = 0
         /\ \A i \in 1 .. Len(s) : s[i] \in Bytes
BY DEF Texts

LEMMA EmptyText == <<>> \in Texts /\ Len(<<>>) = 0
BY DEF Texts

LEMMA JoinedTexts ==
  ASSUME NEW s \in Texts, NEW t \in Texts
  PROVE  /\ s \o t \in Texts
         /\ Len(s \o t) = Len(s) + Len(t)
         /\ \A i \in 1 .. Len(s) : (s \o t)[i] = s[i]
         /\ \A i \in 1 .. Len(t) : (s \o t)[Len(s) + i] = t[i]
<1>1. /\ s \o t \in Seq(Bytes)
      /\ Len(s \o t) = Len(s) + Len(t)
      /\ \A i \in 1 .. Len(s) + Len(t) : (s \o t)[i] =
                     IF i <= Len(s) THEN s[i] ELSE t[i - Len(s)]
  BY ConcatProperties DEF Texts
<1>2. Len(s) \in Nat /\ Len(t) \in Nat
  BY TextFacts
<1> QED
  BY <1>1, <1>2 DEF Texts

LEMMA JoinedType ==
  ASSUME NEW s \in Texts, NEW t \in Texts
  PROVE  s \o t \in Texts /\ Len(s \o t) = Len(s) + Len(t)
BY JoinedTexts

LEMMA TextsAppend ==
  ASSUME NEW ss, IsTexts(ss), NEW s \in Texts
  PROVE  /\ IsTexts(Append(ss, s))
         /\ Len(Append(ss, s)) = Len(ss) + 1
         /\ Append(ss, s)[Len(ss) + 1] = s
         /\ \A i \in 1 .. Len(ss) : Append(ss, s)[i] = ss[i]
BY AppendProperties DEF IsTexts

\* f[i] is the concatenation of the first i members of ss.
Flattens(f, ss) ==
  f = [i \in 1 .. Len(ss) |-> IF i = 1 THEN ss[i] ELSE f[i - 1] \o ss[i]]

LEMMA FlattensExists ==
  ASSUME NEW ss, IsTexts(ss), ss # <<>>
  PROVE  \E f : Flattens(f, ss)
<1>1. PICK n \in Nat : n = Len(ss)
  BY TextsFacts
<1> DEFINE step == [i \in 1 .. n - 1 |-> [s \in Texts |-> s \o ss[i + 1]]]
<1>2. n >= 1 /\ \A i \in 1 .. n : ss[i] \in Texts
  BY <1>1, TextsFacts
<1>3. IsStep(step, 1, n, Texts)
  <2>1. \A i \in 1 .. n - 1 : \A s \in Texts : s \o ss[i + 1] \in Texts
    BY <1>2, JoinedTexts
  <2> QED
    BY <2>1 DEF IsStep
<1>4. \A i \in 1 .. n - 1 : \A s \in Texts : step[i][s] = s \o ss[i + 1]
  OBVIOUS
<1> HIDE DEF step
<1>5. 1 <= n /\ ss[1] \in Texts
  BY <1>2
<1>6. PICK f : IsLoop(f, 1, n, Texts, ss[1], step)
  BY <1>3, <1>5, Iteration
<1>7. ASSUME NEW i \in 1 .. n, i # 1 PROVE f[i] = f[i - 1] \o ss[i]
  <2>1. i - 1 \in 1 .. n - 1 /\ i - 1 \in 1 .. n /\ (i - 1) + 1 = i
    BY <1>7
  <2>2. f[i - 1] \in Texts /\ f[i] = step[i - 1][f[i - 1]]
    BY <1>6, <2>1 DEF IsLoop
  <2> QED
    BY <1>4, <2>1, <2>2
<1>8. f \in [1 .. n -> Texts] /\ f[1] = ss[1]
  BY <1>6 DEF IsLoop
<1>9. f = [i \in 1 .. n |-> IF i = 1 THEN ss[i] ELSE f[i - 1] \o ss[i]]
  BY <1>7, <1>8
<1> QED
  BY <1>1, <1>9 DEF Flattens

Steps(f, ss) ==
  /\ ss # <<>> => f[1] = ss[1]
  /\ \A i \in 1 .. Len(ss) - 1 : f[i + 1] = f[i] \o ss[i + 1]

LEMMA FlattensSteps ==
  ASSUME NEW ss, IsTexts(ss), NEW f, Flattens(f, ss)
  PROVE  Steps(f, ss)
<1>1. PICK n \in Nat : n = Len(ss) /\ (ss # <<>> => n >= 1)
  BY TextsFacts
<1>2. f = [i \in 1 .. n |-> IF i = 1 THEN ss[i] ELSE f[i - 1] \o ss[i]]
  BY <1>1 DEF Flattens
<1>3. \A i \in 1 .. n : f[i] = IF i = 1 THEN ss[i] ELSE f[i - 1] \o ss[i]
  BY <1>2, Zenon
<1>4. ASSUME NEW i \in 1 .. n - 1 PROVE f[i + 1] = f[i] \o ss[i + 1]
  <2>1. i + 1 \in 1 .. n /\ i + 1 # 1 /\ (i + 1) - 1 = i
    BY <1>1
  <2> QED
    BY <1>3, <2>1
<1>5. ss # <<>> => 1 \in 1 .. n
  BY <1>1
<1> QED
  BY <1>1, <1>3, <1>4, <1>5 DEF Steps

Begins(ss, tt) == Len(ss) <= Len(tt) /\ \A i \in 1 .. Len(ss) : tt[i] = ss[i]

LEMMA FlattensUnique ==
  ASSUME NEW ss, IsTexts(ss), NEW tt, IsTexts(tt), ss # <<>>, Begins(ss, tt),
         NEW f, Flattens(f, ss), NEW g, Flattens(g, tt)
  PROVE  \A i \in 1 .. Len(ss) : f[i] = g[i]
<1>1. PICK n \in Nat : n = Len(ss)
  BY TextsFacts
<1> DEFINE S == {i \in 1 .. n : f[i] = g[i]}
<1>2. n >= 1 /\ Len(tt) \in Nat /\ n <= Len(tt) /\ tt # <<>>
  BY <1>1, TextsFacts DEF Begins
<1>3. f[1] = ss[1] /\ \A i \in 1 .. n - 1 : f[i + 1] = f[i] \o ss[i + 1]
  <2>1. Steps(f, ss)
    BY FlattensSteps
  <2> QED
    BY <1>1, <2>1 DEF Steps
<1>4. g[1] = tt[1] /\ \A i \in 1 .. n - 1 : g[i + 1] = g[i] \o tt[i + 1]
  <2>1. g[1] = tt[1] /\ \A i \in 1 .. Len(tt) - 1 : g[i + 1] = g[i] \o tt[i + 1]
    <3>1. Steps(g, tt)
      BY FlattensSteps
    <3> QED
      BY <1>2, <3>1 DEF Steps
  <2>2. \A i \in 1 .. n - 1 : i \in 1 .. Len(tt) - 1
    BY <1>2
  <2> QED
    BY <2>1, <2>2
<1>5. 1 \in S
  BY <1>1, <1>2, <1>3, <1>4 DEF Begins
<1>6. ASSUME NEW i \in 1 .. n - 1, i \in S PROVE i + 1 \in S
  <2>1. i + 1 \in 1 .. n /\ f[i] = g[i]
    BY <1>6
  <2>2. tt[i + 1] = ss[i + 1]
    BY <1>1, <2>1 DEF Begins
  <2>3. f[i + 1] = g[i + 1]
    BY <1>3, <1>4, <2>1, <2>2
  <2> QED
    BY <2>1, <2>3
<1>7. 1 \in Int /\ n \in Int
  OBVIOUS
<1> HIDE DEF S
<1>8. \A i \in 1 .. n : i \in S
  BY <1>5, <1>6, <1>7, Induction
<1> QED
  BY <1>1, <1>8 DEF S

LEMMA FlattenSeqIs ==
  ASSUME NEW ss, IsTexts(ss), ss # <<>>, NEW f, Flattens(f, ss)
  PROVE  FlattenSeq(ss) = f[Len(ss)]
<1>1. PICK g : g = CHOOSE e : e = [i \in 1 .. Len(ss) |->
                                     IF i = 1 THEN ss[i] ELSE e[i - 1] \o ss[i]]
  OBVIOUS
<1>2. Flattens(g, ss)
  BY <1>1 DEF Flattens
<1>3. FlattenSeq(ss) = g[Len(ss)]
  BY <1>1, TextsFacts DEF FlattenSeq
<1>4. Len(ss) \in 1 .. Len(ss) /\ Begins(ss, ss)
  BY TextsFacts DEF Begins
<1>5. \A i \in 1 .. Len(ss) : g[i] = f[i]
  BY <1>2, <1>4, FlattensUnique
<1> QED
  BY <1>3, <1>4, <1>5

LEMMA FlattenEmpty == FlattenSeq(<<>>) = <<>>
BY DEF FlattenSeq

LEMMA FlattenAppend ==
  ASSUME NEW ss, IsTexts(ss), NEW s \in Texts
  PROVE  FlattenSeq(Append(ss, s)) = FlattenSeq(ss) \o s
<1>1. PICK n \in Nat : n = Len(ss)
  BY TextsFacts
<1>2. PICK tt : tt = Append(ss, s)
  OBVIOUS
<1>3. IsTexts(tt) /\ Len(tt) = n + 1 /\ tt[n + 1] = s /\ Begins(ss, tt)
  BY <1>1, <1>2, TextsAppend DEF Begins
<1>4. tt # <<>>
  BY <1>3, TextsFacts
<1>5. PICK g : Flattens(g, tt)
  BY <1>3, <1>4, FlattensExists
<1>6. FlattenSeq(tt) = g[n + 1]
  BY <1>3, <1>4, <1>5, FlattenSeqIs
<1>7. g[1] = tt[1] /\ \A i \in 1 .. n : g[i + 1] = g[i] \o tt[i + 1]
  <2>1. Len(tt) - 1 = n
    BY <1>3
  <2> QED
    <3>1. Steps(g, tt)
      BY <1>3, <1>5, FlattensSteps
    <3> QED
      BY <1>4, <2>1, <3>1 DEF Steps
<1>8. CASE ss = <<>>
  <2>1. FlattenSeq(ss) \o s = s
    BY <1>8, FlattenEmpty, ConcatEmptySeq DEF Texts
  <2>2. n + 1 = 1
    BY <1>1, <1>8, TextsFacts
  <2> QED
    BY <1>2, <1>3, <1>6, <1>7, <2>1, <2>2
<1>9. CASE ss # <<>>
  <2>1. n >= 1
    BY <1>1, <1>9, TextsFacts
  <2>2. PICK f : Flattens(f, ss)
    BY <1>9, FlattensExists
  <2>3. FlattenSeq(ss) = f[n]
    BY <1>1, <1>9, <2>2, FlattenSeqIs
  <2>4. \A i \in 1 .. n : f[i] = g[i]
    BY <1>1, <1>3, <1>5, <1>9, <2>2, FlattensUnique
  <2>5. f[n] = g[n]
    BY <2>1, <2>4
  <2>6. n \in 1 .. n
    BY <2>1
  <2>7. g[n + 1] = g[n] \o tt[n + 1]
    BY <1>7, <2>6
  <2> QED
    BY <1>2, <1>3, <1>6, <2>3, <2>5, <2>7
<1> QED
  BY <1>8, <1>9

\* The first i members of ss, one behind the other.
Flat(ss, i) == FlattenSeq(SubSeq(ss, 1, i))

LEMMA FlatSteps ==
  ASSUME NEW ss, IsTexts(ss)
  PROVE  /\ Flat(ss, 0) = <<>>
         /\ Flat(ss, Len(ss)) = FlattenSeq(ss)
         /\ \A i \in 1 .. Len(ss) : Flat(ss, i) = Flat(ss, i - 1) \o ss[i]
<1>1. SubSeq(ss, 1, 0) = <<>>
  BY SubSeqEmpty
<1>2. SubSeq(ss, 1, Len(ss)) = ss
  BY SubSeqFull DEF IsTexts
<1>3. ASSUME NEW i \in 1 .. Len(ss)
      PROVE  Flat(ss, i) = Flat(ss, i - 1) \o ss[i]
  <2>1. i \in 1 .. Len(ss) /\ 1 \in 1 .. Len(ss) /\ i - 1 \in Int
        /\ \A j \in 1 .. i : ss[j] \in Texts
    BY TextsFacts
  <2>2. PICK tt : tt = SubSeq(ss, 1, i - 1)
    OBVIOUS
  <2>3. IsTexts(tt)
    BY <2>1, <2>2, SubSeqProperties DEF IsTexts
  <2>4. SubSeq(ss, 1, i) = tt \o <<ss[i]>>
    BY <2>1, <2>2, SubSeqRecursiveSecond DEF IsTexts
  <2>5. Append(tt, ss[i]) = tt \o <<ss[i]>>
    BY <2>1, <2>3, AppendIsConcat DEF IsTexts
  <2>6. ss[i] \in Texts
    BY <2>1
  <2>7. FlattenSeq(Append(tt, ss[i])) = FlattenSeq(tt) \o ss[i]
    BY <2>3, <2>6, FlattenAppend
  <2> QED
    BY <2>2, <2>4, <2>5, <2>7 DEF Flat
<1> QED
  BY <1>1, <1>2, <1>3, FlattenEmpty DEF Flat

LEMMA FlatType ==
  ASSUME NEW ss, IsTexts(ss)
  PROVE  \A i \in 0 .. Len(ss) : Flat(ss, i) \in Texts
<1> DEFINE S == {i \in 0 .. Len(ss) : Flat(ss, i) \in Texts}
<1>1. PICK n \in Nat : n = Len(ss) /\ \A i \in 1 .. n : ss[i] \in Texts
  BY TextsFacts
<1>2. 0 \in S
  <2>1. Flat(ss, 0) = <<>>
    BY FlatSteps
  <2>2. Flat(ss, 0) \in Texts
    BY <2>1, EmptyText
  <2> QED
    BY <1>1, <2>2
<1>3. ASSUME NEW i \in 0 .. n - 1, i \in S PROVE i + 1 \in S
  <2>1. i + 1 \in 1 .. n /\ i + 1 \in 0 .. n /\ (i + 1) - 1 = i
        /\ Flat(ss, i) \in Texts
    BY <1>1, <1>3
  <2>2. Flat(ss, i + 1) = Flat(ss, i) \o ss[i + 1] /\ ss[i + 1] \in Texts
    BY <1>1, <2>1, FlatSteps
  <2>3. Flat(ss, i + 1) \in Texts
    BY <2>1, <2>2, JoinedTexts
  <2> QED
    BY <1>1, <2>1, <2>3
<1>4. 0 \in Int /\ n \in Int
  OBVIOUS
<1> HIDE DEF S
<1>5. \A i \in 0 .. n : i \in S
  BY <1>2, <1>3, <1>4, Induction
<1> QED
  BY <1>1, <1>5 DEF S

LEMMA FlatNext ==
  ASSUME NEW ss, IsTexts(ss), NEW i \in 1 .. Len(ss)
  PROVE  /\ Flat(ss, i) = Flat(ss, i - 1) \o ss[i]
         /\ Flat(ss, i - 1) \in Texts /\ ss[i] \in Texts /\ Flat(ss, i) \in Texts
         /\ Len(Flat(ss, i)) = Len(Flat(ss, i - 1)) + Len(ss[i])
<1>1. i - 1 \in 0 .. Len(ss) /\ i \in 0 .. Len(ss)
  BY TextsFacts
<1>2. Flat(ss, i - 1) \in Texts /\ Flat(ss, i) \in Texts
  BY <1>1, FlatType
<1>3. ss[i] \in Texts
  BY TextsFacts
<1>4. Flat(ss, i) = Flat(ss, i - 1) \o ss[i]
  BY FlatSteps
<1> QED
  BY <1>2, <1>3, <1>4, JoinedTexts

Grows(ss) ==
  \A i, j \in 0 .. Len(ss) : i <= j => Len(Flat(ss, i)) <= Len(Flat(ss, j))

LEMMA FlatGrows ==
  ASSUME NEW ss, IsTexts(ss)
  PROVE  Grows(ss)
<1>1. PICK n \in Nat : n = Len(ss)
  BY TextsFacts
<1>2. SUFFICES ASSUME NEW i \in 0 .. n, NEW k \in 0 .. n, i <= k
               PROVE  Len(Flat(ss, i)) <= Len(Flat(ss, k))
  BY <1>1 DEF Grows
<1> DEFINE S == {j \in i .. n : Len(Flat(ss, i)) <= Len(Flat(ss, j))}
<1>3. \A j \in 0 .. n : Len(Flat(ss, j)) \in Nat
  BY <1>1, FlatType, TextFacts
<1>4. i \in S
  BY <1>3
<1>5. ASSUME NEW j \in i .. n - 1, j \in S PROVE j + 1 \in S
  <2>1. j + 1 \in 1 .. Len(ss) /\ (j + 1) - 1 = j /\ j + 1 \in 0 .. n /\ j \in 0 .. n
    BY <1>1
  <2>2. ss[j + 1] \in Texts /\ Len(Flat(ss, j + 1)) = Len(Flat(ss, j)) + Len(ss[j + 1])
    BY <2>1, FlatNext
  <2>3. Len(ss[j + 1]) \in Nat /\ Len(Flat(ss, j)) \in Nat
        /\ Len(Flat(ss, i)) \in Nat
    BY <1>3, <2>1, <2>2, TextFacts
  <2>4. Len(Flat(ss, i)) <= Len(Flat(ss, j))
    BY <1>5
  <2>5. Len(Flat(ss, i)) <= Len(Flat(ss, j + 1))
    BY <2>2, <2>3, <2>4
  <2> QED
    BY <2>1, <2>5
<1>6. i \in Int /\ n \in Int
  OBVIOUS
<1> HIDE DEF S
<1>7. \A j \in i .. n : j \in S
  BY <1>4, <1>5, <1>6, Induction
<1>8. k \in S
  BY <1>2, <1>7
<1> QED
  BY <1>8 DEF S

-----------------------------------------------------------------------------
(* Parts of a text                                                         *)

\* The text s begins at position p of t.
Occurs(s, t, p) ==
  /\ p + Len(s) <= Len(t)
  /\ \A i \in 1 .. Len(s) : t[p + i] = s[i]

LEMMA OccursInItself ==
  ASSUME NEW t \in Texts
  PROVE  Occurs(t, t, 0)
BY TextFacts DEF Occurs

LEMMA OccursJoined ==
  ASSUME NEW s \in Texts, NEW u \in Texts, NEW t, NEW p \in Nat,
         Occurs(s \o u, t, p), Len(t) \in Nat
  PROVE  Occurs(s, t, p) /\ Occurs(u, t, p + Len(s))
<1>1. PICK m \in Nat, n \in Nat : m = Len(s) /\ n = Len(u)
  BY TextFacts
<1>2. PICK w : w = s \o u
  OBVIOUS
<1>3. /\ Len(w) = m + n
      /\ \A i \in 1 .. m : w[i] = s[i]
      /\ \A i \in 1 .. n : w[m + i] = u[i]
  BY <1>1, <1>2, JoinedTexts
<1>4. p + (m + n) <= Len(t) /\ \A i \in 1 .. m + n : t[p + i] = w[i]
  BY <1>2, <1>3 DEF Occurs
<1>5. \A i \in 1 .. m : t[p + i] = s[i]
  BY <1>3, <1>4
<1>6. ASSUME NEW i \in 1 .. n PROVE t[(p + m) + i] = u[i]
  <2>1. m + i \in 1 .. m + n /\ (p + m) + i = p + (m + i)
    OBVIOUS
  <2> QED
    BY <1>3, <1>4, <2>1
<1> QED
  BY <1>1, <1>4, <1>5, <1>6 DEF Occurs

LEMMA OccursFlattened ==
  ASSUME NEW ss, IsTexts(ss), NEW t, Len(t) \in Nat, NEW p \in Nat,
         Occurs(FlattenSeq(ss), t, p)
  PROVE  \A i \in 1 .. Len(ss) : Occurs(ss[i], t, p + Len(Flat(ss, i - 1)))
<1>1. PICK n \in Nat : n = Len(ss)
  BY TextsFacts
<1> DEFINE S == {j \in 0 .. n : Occurs(Flat(ss, n - j), t, p)}
<1>2. ASSUME NEW i \in 1 .. n, Occurs(Flat(ss, i), t, p)
      PROVE  Occurs(Flat(ss, i - 1), t, p) /\ Occurs(ss[i], t, p + Len(Flat(ss, i - 1)))
  <2>1. /\ Flat(ss, i) = Flat(ss, i - 1) \o ss[i]
        /\ Flat(ss, i - 1) \in Texts /\ ss[i] \in Texts
    BY <1>1, FlatNext
  <2>2. Occurs(Flat(ss, i - 1) \o ss[i], t, p)
    BY <1>2, <2>1
  <2> QED
    BY <2>1, <2>2, OccursJoined
<1>3. 0 \in S
  <2>1. Flat(ss, n) = FlattenSeq(ss)
    BY <1>1, FlatSteps
  <2> QED
    BY <2>1
<1>4. ASSUME NEW j \in 0 .. n - 1, j \in S PROVE j + 1 \in S
  <2>1. n - j \in 1 .. n /\ Occurs(Flat(ss, n - j), t, p) /\ n - (j + 1) = (n - j) - 1
        /\ j + 1 \in 0 .. n
    BY <1>4
  <2>2. Occurs(Flat(ss, (n - j) - 1), t, p)
    BY <1>2, <2>1
  <2> QED
    BY <2>1, <2>2
<1>5. 0 \in Int /\ n \in Int
  OBVIOUS
<1> HIDE DEF S
<1>6. \A j \in 0 .. n : j \in S
  BY <1>3, <1>4, <1>5, Induction
<1>7. ASSUME NEW i \in 1 .. n PROVE Occurs(Flat(ss, i), t, p)
  <2>1. n - i \in 0 .. n /\ n - (n - i) = i
    OBVIOUS
  <2>2. n - i \in S
    BY <1>6, <2>1
  <2> QED
    BY <2>1, <2>2 DEF S
<1> QED
  BY <1>1, <1>2, <1>7

-----------------------------------------------------------------------------
(* The text of a request                                                   *)

LEMMA IsTextsFunction ==
  ASSUME NEW n \in Nat, NEW ss, ss \in [1 .. n -> Texts]
  PROVE  IsTexts(ss) /\ Len(ss) = n
<1> HIDE DEF Texts
<1>1. ss \in Seq(Texts) /\ Len(ss) = n
  OBVIOUS
<1> QED
  BY <1>1 DEF IsTexts

LEMMA OneByte ==
  ASSUME NEW c \in Bytes
  PROVE  <<c>> \in Texts /\ Len(<<c>>) = 1 /\ <<c>>[1] = c
BY DEF Texts

LEMMA TwoBytes ==
  ASSUME NEW c \in Bytes, NEW d \in Bytes
  PROVE  /\ <<c, d>> \in Texts /\ Len(<<c, d>>) = 2
         /\ <<c, d>>[1] = c /\ <<c, d>>[2] = d
BY DEF Texts

LEMMA BytesFacts ==
  /\ "SP" \in Bytes /\ "CR" \in Bytes /\ "LF" \in Bytes /\ ":" \in Bytes /\ "?" \in Bytes
  /\ "0" \in Bytes /\ "1" \in Bytes /\ "2" \in Bytes /\ "3" \in Bytes
BY DEF Bytes

LEMMA CRLFText ==
  CRLF \in Texts /\ Len(CRLF) = 2 /\ CRLF[1] = "CR" /\ CRLF[2] = "LF"
<1>1. PICK c \in Bytes, d \in Bytes : c = "CR" /\ d = "LF"
  BY BytesFacts
<1>2. <<c, d>> \in Texts /\ Len(<<c, d>>) = 2 /\ <<c, d>>[1] = c /\ <<c, d>>[2] = d
  BY TwoBytes
<1> QED
  BY <1>1, <1>2 DEF CRLF

LEMMA CRLFType == CRLF \in Texts /\ Len(CRLF) = 2
BY CRLFText

LEMMA MarkTexts ==
  /\ <<"SP">> \in Texts /\ Len(<<"SP">>) = 1 /\ <<"SP">>[1] = "SP"
  /\ <<"?">> \in Texts /\ Len(<<"?">>) = 1 /\ <<"?">>[1] = "?"
  /\ <<"0">> \in Texts /\ Len(<<"0">>) = 1 /\ <<"0">>[1] = "0"
<1>1. PICK c \in Bytes, d \in Bytes, e \in Bytes : c = "SP" /\ d = "?" /\ e = "0"
  BY BytesFacts
<1>2. /\ <<c>> \in Texts /\ Len(<<c>>) = 1 /\ <<c>>[1] = c
      /\ <<d>> \in Texts /\ Len(<<d>>) = 1 /\ <<d>>[1] = d
      /\ <<e>> \in Texts /\ Len(<<e>>) = 1 /\ <<e>>[1] = e
  BY OneByte
<1> QED
  BY <1>1, <1>2

LEMMA DigitsText ==
  /\ Len(Digits) = 4
  /\ Digits[1] = "0" /\ Digits[2] = "1" /\ Digits[3] = "2" /\ Digits[4] = "3"
BY DEF Digits

LEMMA LineTextType ==
  ASSUME NEW r, IsRequest(r)
  PROVE  LineText(r) \in Texts
<1>1. r.method \in Texts /\ r.path \in Texts
  BY DEF IsRequest, Lacks, Texts
<1>2. (IF r.params = NoText THEN <<>> ELSE <<"?">> \o r.params) \in Texts
  <2>1. CASE r.params = NoText
    BY <2>1, EmptyText
  <2>2. CASE r.params # NoText
    <3>1. r.params \in Texts
      BY <2>2 DEF IsRequest, Lacks, Texts
    <3>2. <<"?">> \in Texts
      BY MarkTexts
    <3> QED
      BY <2>2, <3>1, <3>2, JoinedType
  <2> QED
    BY <2>1, <2>2
<1>3. (IF r.protocol = NoText THEN <<>> ELSE <<"SP">> \o r.protocol) \in Texts
  <2>1. CASE r.protocol = NoText
    BY <2>1, EmptyText
  <2>2. CASE r.protocol # NoText
    <3>1. r.protocol \in Texts
      BY <2>2 DEF IsRequest, Lacks, Texts
    <3>2. <<"SP">> \in Texts
      BY MarkTexts
    <3> QED
      BY <2>2, <3>1, <3>2, JoinedType
  <2> QED
    BY <2>1, <2>2
<1>4. <<"SP">> \in Texts
  BY MarkTexts
<1>5. r.method \o <<"SP">> \in Texts
  BY <1>1, <1>4, JoinedType
<1>6. r.method \o <<"SP">> \o r.path \in Texts
  BY <1>1, <1>5, JoinedType
<1>7. r.method \o <<"SP">> \o r.path
        \o (IF r.params = NoText THEN <<>> ELSE <<"?">> \o r.params) \in Texts
  BY <1>2, <1>6, JoinedType
<1>8. r.method \o <<"SP">> \o r.path
        \o (IF r.params = NoText THEN <<>> ELSE <<"?">> \o r.params)
        \o (IF r.protocol = NoText THEN <<>> ELSE <<"SP">> \o r.protocol) \in Texts
  BY <1>3, <1>7, JoinedType
<1> QED
  BY <1>8, CRLFText, JoinedType DEF LineText

\* The bytes of header i.
HeaderText(x) == x.key \o x.sep \o x.value \o CRLF

LEMMA HeaderTextType ==
  ASSUME NEW x, IsHeader(x)
  PROVE  /\ x.key \in Texts /\ x.sep \in Texts /\ x.value \in Texts
         /\ x.key \o x.sep \in Texts /\ x.key \o x.sep \o x.value \in Texts
         /\ HeaderText(x) \in Texts
         /\ Len(HeaderText(x)) = Len(x.key) + Len(x.sep) + Len(x.value) + 2
<1>1. x.key \in Texts /\ x.sep \in Texts /\ x.value \in Texts
  BY DEF IsHeader, IsSeparator, Texts
<1>2. x.key \o x.sep \in Texts /\ Len(x.key \o x.sep) = Len(x.key) + Len(x.sep)
  BY <1>1, JoinedType
<1>3. /\ x.key \o x.sep \o x.value \in Texts
      /\ Len(x.key \o x.sep \o x.value) = Len(x.key) + Len(x.sep) + Len(x.value)
  BY <1>1, <1>2, JoinedType
<1>4. PICK s \in Texts : s = x.key \o x.sep \o x.value
  BY <1>3
<1>5. s \o CRLF \in Texts /\ Len(s \o CRLF) = Len(s) + 2
  BY CRLFType, JoinedType
<1>6. HeaderText(x) = s \o CRLF
  BY <1>4 DEF HeaderText
<1> QED
  BY <1>1, <1>2, <1>3, <1>4, <1>5, <1>6

LEMMA HeaderTextsType ==
  ASSUME NEW r, IsRequest(r)
  PROVE  /\ Len(r.headers) \in Nat
         /\ IsTexts(HeaderTexts(r)) /\ Len(HeaderTexts(r)) = Len(r.headers)
         /\ \A i \in 1 .. Len(r.headers) :
              IsHeader(r.headers[i]) /\ HeaderTexts(r)[i] = HeaderText(r.headers[i])
<1>1. r.headers \in Seq(Range(r.headers))
  BY DEF IsRequest
<1>2. Len(r.headers) \in Nat /\ DOMAIN r.headers = 1 .. Len(r.headers)
  BY <1>1, LenProperties
<1>3. PICK n \in Nat : n = Len(r.headers)
  BY <1>2
<1>4. \A i \in 1 .. n : IsHeader(r.headers[i])
  BY <1>2, <1>3 DEF IsRequest
<1>5. HeaderTexts(r) = [i \in 1 .. n |-> HeaderText(r.headers[i])]
  BY <1>2, <1>3 DEF HeaderTexts, HeaderText
<1>6. \A i \in 1 .. n : HeaderText(r.headers[i]) \in Texts
  BY <1>4, HeaderTextType
<1>7. HeaderTexts(r) \in [1 .. n -> Texts]
  BY <1>5, <1>6
<1>8. IsTexts(HeaderTexts(r)) /\ Len(HeaderTexts(r)) = n
  BY <1>7, IsTextsFunction
<1> QED
  BY <1>3, <1>4, <1>5, <1>8

Block(c) == <<Digits[Len(c) + 1]>> \o CRLF \o c \o CRLF
IsChunk(c) == c \in Texts /\ Len(c) \in 1 .. 3

LEMMA BlockType ==
  ASSUME NEW c, IsChunk(c)
  PROVE  /\ c \in Texts /\ Len(c) \in 1 .. 3
         /\ Digits[Len(c) + 1] \in Bytes
         /\ Block(c) \in Texts /\ Len(Block(c)) = Len(c) + 5
         /\ <<Digits[Len(c) + 1]>> \o CRLF \o c \in Texts
         /\ <<Digits[Len(c) + 1]>> \o CRLF \in Texts
<1>1. c \in Texts /\ Len(c) \in 1 .. 3
  BY DEF IsChunk
<1>2. Digits[Len(c) + 1] \in Bytes
  <2>1. PICK n \in 1 .. 3 : n = Len(c)
    BY <1>1
  <2>2. Digits[2] \in Bytes /\ Digits[3] \in Bytes /\ Digits[4] \in Bytes
    BY DigitsText, BytesFacts
  <2>3. n + 1 = 2 \/ n + 1 = 3 \/ n + 1 = 4
    OBVIOUS
  <2> QED
    BY <2>1, <2>2, <2>3
<1>3. PICK d \in Bytes : d = Digits[Len(c) + 1]
  BY <1>2
<1>4. <<d>> \o CRLF \in Texts /\ Len(<<d>> \o CRLF) = 3
  <2>1. <<d>> \in Texts /\ Len(<<d>>) = 1
    BY OneByte
  <2>2. PICK s \in Texts : s = <<d>> /\ Len(s) = 1
    BY <2>1
  <2>3. s \o CRLF \in Texts /\ Len(s \o CRLF) = Len(s) + 2
    BY CRLFType, JoinedType
  <2> QED
    BY <2>2, <2>3
<1>5. <<d>> \o CRLF \o c \in Texts /\ Len(<<d>> \o CRLF \o c) = 3 + Len(c)
  BY <1>1, <1>4, JoinedType
<1>6. <<d>> \o CRLF \o c \o CRLF \in Texts /\ Len(<<d>> \o CRLF \o c \o CRLF) = (3 + Len(c)) + 2
  BY <1>5, CRLFType, JoinedType
<1> QED
  BY <1>1, <1>2, <1>3, <1>4, <1>5, <1>6 DEF Block

LEMMA BlocksType ==
  ASSUME NEW r, IsRequest(r)
  PROVE  /\ Len(r.chunks) \in Nat
         /\ IsTexts(r.chunks)
         /\ IsTexts(Blocks(r)) /\ Len(Blocks(r)) = Len(r.chunks)
         /\ \A i \in 1 .. Len(r.chunks) :
              IsChunk(r.chunks[i]) /\ Blocks(r)[i] = Block(r.chunks[i])
<1>1. IsTexts(r.chunks)
  BY DEF IsRequest, IsTexts, Texts
<1>2. PICK n \in Nat : n = Len(r.chunks)
  BY <1>1, TextsFacts
<1>3. DOMAIN r.chunks = 1 .. n
  <2> HIDE DEF Texts
  <2> QED
    BY <1>1, <1>2, LenProperties DEF IsTexts
<1>4. \A i \in 1 .. n : IsChunk(r.chunks[i])
  <2>1. \A i \in 1 .. n : Len(r.chunks[i]) \in 1 .. Len(Digits) - 1
    BY <1>3 DEF IsRequest
  <2>2. \A i \in 1 .. n : r.chunks[i] \in Texts
    BY <1>1, <1>2, TextsFacts
  <2> QED
    BY <2>1, <2>2, DigitsText DEF IsChunk
<1>5. Blocks(r) = [i \in 1 .. n |-> Block(r.chunks[i])]
  BY <1>3 DEF Blocks, Block
<1>6. \A i \in 1 .. n : Block(r.chunks[i]) \in Texts
  BY <1>4, BlockType
<1>7. Blocks(r) \in [1 .. n -> Texts]
  BY <1>5, <1>6
<1>8. IsTexts(Blocks(r)) /\ Len(Blocks(r)) = n
  BY <1>7, IsTextsFunction
<1> QED
  BY <1>1, <1>2, <1>4, <1>5, <1>8

\* t consists of the seven texts, one behind the other.
AreSeven(t, a, b, c, d, e, f, g) ==
  /\ a \in Texts /\ b \in Texts /\ c \in Texts /\ d \in Texts
  /\ e \in Texts /\ f \in Texts /\ g \in Texts
  /\ t = a \o b \o c \o d \o e \o f \o g
SevenOccur(t, a, b, c, d, e, f, g) ==
  /\ t \in Texts
  /\ Len(t) = Len(a) + Len(b) + Len(c) + Len(d) + Len(e) + Len(f) + Len(g)
  /\ Occurs(a, t, 0)
  /\ Occurs(b, t, Len(a))
  /\ Occurs(c, t, Len(a) + Len(b))
  /\ Occurs(d, t, Len(a) + Len(b) + Len(c))
  /\ Occurs(e, t, Len(a) + Len(b) + Len(c) + Len(d))
  /\ Occurs(f, t, Len(a) + Len(b) + Len(c) + Len(d) + Len(e))
  /\ Occurs(g, t, Len(a) + Len(b) + Len(c) + Len(d) + Len(e) + Len(f))

LEMMA OccursInSeven ==
  ASSUME NEW t, NEW a, NEW b, NEW c, NEW d, NEW e, NEW f, NEW g,
         AreSeven(t, a, b, c, d, e, f, g)
  PROVE  SevenOccur(t, a, b, c, d, e, f, g)
<1>1. /\ a \in Texts /\ b \in Texts /\ c \in Texts /\ d \in Texts
      /\ e \in Texts /\ f \in Texts /\ g \in Texts
      /\ t = a \o b \o c \o d \o e \o f \o g
  BY DEF AreSeven
<1>2. PICK s2 \in Texts : s2 = a \o b /\ Len(s2) = Len(a) + Len(b)
  BY <1>1, JoinedType
<1>3. PICK s3 \in Texts : s3 = s2 \o c /\ Len(s3) = Len(s2) + Len(c)
  BY <1>1, <1>2, JoinedType
<1>4. PICK s4 \in Texts : s4 = s3 \o d /\ Len(s4) = Len(s3) + Len(d)
  BY <1>1, <1>3, JoinedType
<1>5. PICK s5 \in Texts : s5 = s4 \o e /\ Len(s5) = Len(s4) + Len(e)
  BY <1>1, <1>4, JoinedType
<1>6. PICK s6 \in Texts : s6 = s5 \o f /\ Len(s6) = Len(s5) + Len(f)
  BY <1>1, <1>5, JoinedType
<1>7. s6 \o g \in Texts /\ Len(s6 \o g) = Len(s6) + Len(g)
  BY <1>1, <1>6, JoinedType
<1>8. t = s6 \o g
  BY <1>1, <1>2, <1>3, <1>4, <1>5, <1>6
<1>9. t \in Texts /\ Len(t) = Len(s6) + Len(g) /\ Len(t) \in Nat
  BY <1>7, <1>8, TextFacts
<1>10. /\ Len(a) \in Nat /\ Len(b) \in Nat /\ Len(c) \in Nat /\ Len(d) \in Nat
      /\ Len(e) \in Nat /\ Len(f) \in Nat /\ Len(g) \in Nat
  BY <1>1, TextFacts
<1>11. 0 \in Nat /\ Occurs(s6 \o g, t, 0)
  BY <1>8, <1>9, OccursInItself
<1>12. Occurs(s6, t, 0) /\ Occurs(g, t, 0 + Len(s6))
  BY <1>1, <1>6, <1>9, <1>11, OccursJoined
<1>13. Occurs(s5, t, 0) /\ Occurs(f, t, 0 + Len(s5))
  <2>1. Occurs(s5 \o f, t, 0)
    BY <1>6, <1>12
  <2> QED
    BY <1>1, <1>2, <1>3, <1>4, <1>5, <1>9, <1>11, <2>1, OccursJoined
<1>14. Occurs(s4, t, 0) /\ Occurs(e, t, 0 + Len(s4))
  <2>1. Occurs(s4 \o e, t, 0)
    BY <1>5, <1>13
  <2> QED
    BY <1>1, <1>2, <1>3, <1>4, <1>5, <1>9, <1>11, <2>1, OccursJoined
<1>15. Occurs(s3, t, 0) /\ Occurs(d, t, 0 + Len(s3))
  <2>1. Occurs(s3 \o d, t, 0)
    BY <1>4, <1>14
  <2> QED
    BY <1>1, <1>2, <1>3, <1>4, <1>5, <1>9, <1>11, <2>1, OccursJoined
<1>16. Occurs(s2, t, 0) /\ Occurs(c, t, 0 + Len(s2))
  <2>1. Occurs(s2 \o c, t, 0)
    BY <1>3, <1>15
  <2> QED
    BY <1>1, <1>2, <1>3, <1>4, <1>5, <1>9, <1>11, <2>1, OccursJoined
<1>17. Occurs(a, t, 0) /\ Occurs(b, t, 0 + Len(a))
  <2>1. Occurs(a \o b, t, 0)
    BY <1>2, <1>16
  <2> QED
    BY <1>1, <1>2, <1>3, <1>4, <1>5, <1>9, <1>11, <2>1, OccursJoined
<1>18. /\ 0 + Len(a) = Len(a)
       /\ 0 + Len(s2) = Len(a) + Len(b)
       /\ 0 + Len(s3) = Len(a) + Len(b) + Len(c)
       /\ 0 + Len(s4) = Len(a) + Len(b) + Len(c) + Len(d)
       /\ 0 + Len(s5) = Len(a) + Len(b) + Len(c) + Len(d) + Len(e)
       /\ 0 + Len(s6) = Len(a) + Len(b) + Len(c) + Len(d) + Len(e) + Len(f)
  BY <1>2, <1>3, <1>4, <1>5, <1>6, <1>10
<1>19. Len(t) = Len(a) + Len(b) + Len(c) + Len(d) + Len(e) + Len(f) + Len(g)
  BY <1>2, <1>3, <1>4, <1>5, <1>6, <1>9, <1>10
<1> QED
  BY <1>9, <1>12, <1>13, <1>14, <1>15, <1>16, <1>17, <1>18, <1>19, Zenon DEF SevenOccur

\* Where the parts of a request begin.
LineLength(r) == Len(LineText(r))
HeaderStart(r, i) == LineLength(r) + Len(Flat(HeaderTexts(r), i))
BodyStart(r) == HeaderStart(r, Len(r.headers)) + 2
BlockStart(r, i) == BodyStart(r) + Len(Flat(Blocks(r), i))
LastStart(r) == BlockStart(r, Len(r.chunks))
EndingStart(r) == LastStart(r) + 3

HeadersOccur(r) ==
  /\ \A i \in 1 .. Len(r.headers) :
       Occurs(HeaderText(r.headers[i]), Text(r), HeaderStart(r, i - 1))
  /\ Occurs(CRLF, Text(r), HeaderStart(r, Len(r.headers)))
BlocksOccur(r) ==
  /\ \A i \in 1 .. Len(r.chunks) :
       Occurs(Block(r.chunks[i]), Text(r), BlockStart(r, i - 1))
  /\ Occurs(<<"0">>, Text(r), LastStart(r))
  /\ Occurs(CRLF, Text(r), LastStart(r) + 1)
  /\ Occurs(r.ending, Text(r), EndingStart(r))

PlacesInText(r) ==
  /\ LineLength(r) \in Nat
  /\ \A i \in 0 .. Len(r.headers) : HeaderStart(r, i) \in Nat
  /\ BodyStart(r) \in Nat
  /\ \A i \in 0 .. Len(r.chunks) : BlockStart(r, i) \in Nat
  /\ LastStart(r) \in Nat /\ EndingStart(r) \in Nat
  /\ HeaderStart(r, 0) = LineLength(r) /\ BlockStart(r, 0) = BodyStart(r)
  /\ \A i \in 1 .. Len(r.headers) :
       HeaderStart(r, i) = HeaderStart(r, i - 1) + Len(HeaderText(r.headers[i]))
  /\ \A i \in 1 .. Len(r.chunks) :
       BlockStart(r, i) = BlockStart(r, i - 1) + Len(Block(r.chunks[i]))
  /\ Len(Text(r)) = EndingStart(r) + Len(r.ending)
  /\ Len(r.ending) \in Nat /\ Len(Text(r)) \in Nat

LEMMA Places ==
  ASSUME NEW r, IsRequest(r)
  PROVE  /\ Text(r) \in Texts
         /\ PlacesInText(r)
         /\ Occurs(LineText(r), Text(r), 0)
         /\ HeadersOccur(r)
         /\ BlocksOccur(r)
<1>1. PICK h : h = HeaderTexts(r) /\ IsTexts(h) /\ Len(h) = Len(r.headers)
  BY HeaderTextsType
<1>2. PICK b : b = Blocks(r) /\ IsTexts(b) /\ Len(b) = Len(r.chunks)
  BY BlocksType
<1>3. PICK n \in Nat, m \in Nat : n = Len(r.headers) /\ m = Len(r.chunks)
  BY HeaderTextsType, BlocksType
<1>4. /\ LineText(r) \in Texts /\ FlattenSeq(h) \in Texts /\ FlattenSeq(b) \in Texts
      /\ Flat(h, n) = FlattenSeq(h) /\ Flat(b, m) = FlattenSeq(b)
      /\ Flat(h, 0) = <<>> /\ Flat(b, 0) = <<>>
  <2>1. Flat(h, n) = FlattenSeq(h) /\ Flat(b, m) = FlattenSeq(b)
        /\ Flat(h, 0) = <<>> /\ Flat(b, 0) = <<>>
    BY <1>1, <1>2, <1>3, FlatSteps
  <2>2. n \in 0 .. Len(h) /\ m \in 0 .. Len(b)
    BY <1>1, <1>2, <1>3
  <2>3. Flat(h, n) \in Texts /\ Flat(b, m) \in Texts
    BY <1>1, <1>2, <2>2, FlatType
  <2> QED
    BY <2>1, <2>3, LineTextType
<1>5. r.ending \in Texts
  BY DEF IsRequest, Texts
<1>6. PICK z \in Texts : z = <<"0">> /\ Len(z) = 1
  BY MarkTexts
<1>7. PICK l \in Texts, fh \in Texts, fb \in Texts, e \in Texts :
        /\ l = LineText(r) /\ fh = FlattenSeq(h) /\ fb = FlattenSeq(b) /\ e = r.ending
  BY <1>4, <1>5
<1>8. PICK t : t = Text(r)
  OBVIOUS
<1>9. PICK c \in Texts : c = CRLF /\ Len(c) = 2
  BY CRLFType
<1>10. t = l \o fh \o c \o fb \o z \o c \o e
  BY <1>1, <1>2, <1>6, <1>7, <1>8, <1>9 DEF Text
<1>11. SevenOccur(t, l, fh, c, fb, z, c, e)
  <2>1. AreSeven(t, l, fh, c, fb, z, c, e)
    BY <1>6, <1>7, <1>8, <1>10, <1>9, Zenon DEF AreSeven
  <2> QED
    BY <2>1, OccursInSeven
<1>12. /\ t \in Texts
      /\ Len(t) = Len(l) + Len(fh) + Len(c) + Len(fb) + Len(z) + Len(c) + Len(e)
      /\ Occurs(l, t, 0)
      /\ Occurs(fh, t, Len(l))
      /\ Occurs(c, t, Len(l) + Len(fh))
      /\ Occurs(fb, t, Len(l) + Len(fh) + Len(c))
      /\ Occurs(z, t, Len(l) + Len(fh) + Len(c) + Len(fb))
      /\ Occurs(c, t, Len(l) + Len(fh) + Len(c) + Len(fb) + Len(z))
      /\ Occurs(e, t, Len(l) + Len(fh) + Len(c) + Len(fb) + Len(z) + Len(c))
  BY <1>11, Zenon DEF SevenOccur
<1>13. /\ Len(l) \in Nat /\ Len(fh) \in Nat /\ Len(fb) \in Nat
       /\ Len(e) \in Nat /\ Len(t) \in Nat
  BY <1>12, TextFacts
<1>14. /\ LineLength(r) = Len(l)
       /\ HeaderStart(r, n) = Len(l) + Len(fh)
       /\ BodyStart(r) = Len(l) + Len(fh) + 2
       /\ LastStart(r) = Len(l) + Len(fh) + 2 + Len(fb)
       /\ EndingStart(r) = Len(l) + Len(fh) + 2 + Len(fb) + 3
  BY <1>1, <1>2, <1>3, <1>4, <1>7, <1>8
     DEF LineLength, HeaderStart, BodyStart, BlockStart, LastStart, EndingStart
<1>15. ASSUME NEW i \in 0 .. n PROVE Len(Flat(h, i)) \in Nat
  BY <1>1, <1>3, FlatType, TextFacts
<1>16. ASSUME NEW i \in 0 .. m PROVE Len(Flat(b, i)) \in Nat
  BY <1>2, <1>3, FlatType, TextFacts
<1>17. PlacesInText(r)
  <2>1. HeaderStart(r, 0) = LineLength(r) /\ BlockStart(r, 0) = BodyStart(r)
    BY <1>1, <1>2, <1>4, <1>13, <1>14, EmptyText DEF HeaderStart, BlockStart
  <2>2. \A i \in 0 .. n : HeaderStart(r, i) \in Nat
    BY <1>1, <1>13, <1>14, <1>15 DEF HeaderStart
  <2>3. \A i \in 0 .. m : BlockStart(r, i) \in Nat
    BY <1>2, <1>13, <1>14, <1>16 DEF BlockStart
  <2>4. ASSUME NEW i \in 1 .. n
        PROVE  HeaderStart(r, i) = HeaderStart(r, i - 1) + Len(HeaderText(r.headers[i]))
    <3>1. Len(Flat(h, i)) = Len(Flat(h, i - 1)) + Len(h[i]) /\ h[i] \in Texts
      BY <1>1, <1>3, FlatNext
    <3>2. h[i] = HeaderText(r.headers[i])
      BY <1>1, <1>3, HeaderTextsType
    <3>3. Len(Flat(h, i - 1)) \in Nat /\ Len(h[i]) \in Nat
      BY <1>15, <3>1, TextFacts
    <3> QED
      BY <1>1, <1>13, <1>14, <3>1, <3>2, <3>3 DEF HeaderStart
  <2>5. ASSUME NEW i \in 1 .. m
        PROVE  BlockStart(r, i) = BlockStart(r, i - 1) + Len(Block(r.chunks[i]))
    <3>1. Len(Flat(b, i)) = Len(Flat(b, i - 1)) + Len(b[i]) /\ b[i] \in Texts
      BY <1>2, <1>3, FlatNext
    <3>2. b[i] = Block(r.chunks[i])
      BY <1>2, <1>3, BlocksType
    <3>3. Len(Flat(b, i - 1)) \in Nat /\ Len(b[i]) \in Nat
      BY <1>16, <3>1, TextFacts
    <3> QED
      BY <1>2, <1>13, <1>14, <3>1, <3>2, <3>3 DEF BlockStart
  <2>6. Len(Text(r)) = EndingStart(r) + Len(r.ending)
    BY <1>6, <1>7, <1>8, <1>12, <1>13, <1>14, <1>9
  <2>7. /\ LineLength(r) \in Nat /\ BodyStart(r) \in Nat /\ LastStart(r) \in Nat
        /\ EndingStart(r) \in Nat /\ Len(r.ending) \in Nat /\ Len(Text(r)) \in Nat
    BY <1>7, <1>8, <1>13, <1>14
  <2> QED
    BY <1>3, <2>1, <2>2, <2>3, <2>4, <2>5, <2>6, <2>7, Zenon DEF PlacesInText
<1>18. HeadersOccur(r)
  <2>1. \A i \in 1 .. n : Occurs(h[i], t, Len(l) + Len(Flat(h, i - 1)))
    BY <1>1, <1>3, <1>7, <1>8, <1>12, <1>13, OccursFlattened
  <2>2. \A i \in 1 .. n : h[i] = HeaderText(r.headers[i])
    BY <1>1, <1>3, HeaderTextsType
  <2>3. \A i \in 1 .. n : HeaderStart(r, i - 1) = Len(l) + Len(Flat(h, i - 1))
    BY <1>1, <1>14 DEF HeaderStart
  <2>4. Occurs(CRLF, t, HeaderStart(r, n))
    BY <1>12, <1>14, <1>9
  <2> QED
    BY <1>3, <1>7, <1>8, <2>1, <2>2, <2>3, <2>4, Zenon DEF HeadersOccur
<1>19. BlocksOccur(r)
  <2>1. Len(l) + Len(fh) + 2 \in Nat /\ Occurs(FlattenSeq(b), t, Len(l) + Len(fh) + 2)
    BY <1>7, <1>8, <1>12, <1>13, <1>9
  <2>2. \A i \in 1 .. m : Occurs(b[i], t, (Len(l) + Len(fh) + 2) + Len(Flat(b, i - 1)))
    BY <1>2, <1>3, <1>13, <2>1, OccursFlattened
  <2>3. \A i \in 1 .. m : b[i] = Block(r.chunks[i])
    BY <1>2, <1>3, BlocksType
  <2>4. \A i \in 1 .. m : BlockStart(r, i - 1) = (Len(l) + Len(fh) + 2) + Len(Flat(b, i - 1))
    BY <1>2, <1>14 DEF BlockStart
  <2>5. /\ Occurs(z, t, LastStart(r)) /\ Occurs(CRLF, t, LastStart(r) + 1)
        /\ Occurs(e, t, EndingStart(r))
    BY <1>6, <1>12, <1>13, <1>14, <1>9
  <2> QED
    BY <1>3, <1>6, <1>7, <1>8, <2>2, <2>3, <2>4, <2>5, Zenon DEF BlocksOccur
<1> QED
  BY <1>7, <1>8, <1>12, <1>17, <1>18, <1>19

-----------------------------------------------------------------------------
(* The request line                                                        *)

MethodEnd(r) == Len(r.method)
PathEnd(r) == MethodEnd(r) + 1 + Len(r.path)
ParamEnd(r) == PathEnd(r) + (IF r.params = NoText THEN 0 ELSE 1 + Len(r.params))

AfterMethod(r) ==
  [NewHead EXCEPT !.methodEnd = MethodEnd(r), !.trav = MethodEnd(r) + 1]
PathBeforeParams(r) ==
  [AfterMethod(r) EXCEPT !.pathEnd = PathEnd(r), !.paramStart = PathEnd(r) + 1,
                         !.trav = PathEnd(r) + 1]
PathBeforeProtocol(r) ==
  [AfterMethod(r) EXCEPT !.pathEnd = PathEnd(r), !.paramStart = PathEnd(r),
                         !.paramEnd = PathEnd(r), !.protStart = PathEnd(r) + 1,
                         !.trav = PathEnd(r) + 1]
PathAlone(r) ==
  EndLine([AfterMethod(r) EXCEPT !.pathEnd = PathEnd(r), !.paramStart = PathEnd(r),
                                 !.paramEnd = PathEnd(r), !.protStart = PathEnd(r)],
          PathEnd(r) + 1)
AfterPath(r) == IF r.params # NoText THEN PathBeforeParams(r)
                ELSE IF r.protocol # NoText THEN PathBeforeProtocol(r)
                ELSE PathAlone(r)
AfterParams(r) ==
  IF r.params # NoText
  THEN [PathBeforeParams(r) EXCEPT !.paramEnd = ParamEnd(r),
                                   !.protStart = ParamEnd(r) + 1,
                                   !.trav = ParamEnd(r) + 1]
  ELSE AfterPath(r)
AfterLine(r) ==
  IF r.protocol # NoText THEN EndLine(AfterParams(r), LineLength(r) - 1)
  ELSE AfterParams(r)

LEMMA NewHeadFields ==
  /\ NewHead.methodEnd = 0 /\ NewHead.pathEnd = 0 /\ NewHead.paramEnd = 0
  /\ NewHead.protEnd = 0 /\ NewHead.trav = 0 /\ NewHead.line = FALSE
  /\ NewHead.headers = FALSE
BY DEF NewHead

\* Where the parts of the request line are, and what delimits them.
LineBytesAre(t, r, m, p, k, n) ==
  /\ m \in Nat \ {0} /\ p \in Nat /\ k \in Nat /\ m < p /\ p <= k
  /\ n \in Nat /\ n <= Len(t)
  /\ \A i \in 0 .. m - 1 : At(t, i) # "SP"
  /\ At(t, m) = "SP"
  /\ \A i \in m + 1 .. p - 1 : At(t, i) \notin {"?", "SP", "LF"}
  /\ r.params = NoText => k = p
  /\ r.params # NoText =>
       /\ r.protocol # NoText /\ p < k
       /\ At(t, p) = "?" /\ \A i \in p + 1 .. k - 1 : At(t, i) \notin {"SP", "LF"}
  /\ r.protocol = NoText => n = k + 2
  /\ r.protocol # NoText =>
       /\ k + 3 <= n
       /\ At(t, k) = "SP" /\ \A i \in k + 1 .. n - 3 : At(t, i) # "LF"
  /\ At(t, n - 2) = "CR" /\ At(t, n - 1) = "LF"
LineBytes(r) ==
  LineBytesAre(Text(r), r, MethodEnd(r), PathEnd(r), ParamEnd(r), LineLength(r))

\* The parts are those of the request.
LineParts(r) ==
  LET t == Text(r)
  IN /\ Sub(t, 0, MethodEnd(r)) = r.method
     /\ Sub(t, MethodEnd(r) + 1, PathEnd(r)) = r.path
     /\ r.params # NoText => Sub(t, PathEnd(r) + 1, ParamEnd(r)) = r.params
     /\ r.protocol # NoText => Sub(t, ParamEnd(r) + 1, LineLength(r) - 2) = r.protocol

LEMMA OccursWithin ==
  ASSUME NEW s, NEW u, NEW t, NEW p \in Nat,
         Len(s) \in Nat, Len(u) \in Nat, Len(t) \in Nat, Occurs(s, u, p), Occurs(u, t, 0)
  PROVE  Occurs(s, t, p)
<1>1. p + Len(s) <= Len(u) /\ \A i \in 1 .. Len(s) : u[p + i] = s[i]
  BY DEF Occurs
<1>2. Len(u) <= Len(t) /\ \A i \in 1 .. Len(u) : t[i] = u[i]
  BY DEF Occurs
<1>3. ASSUME NEW i \in 1 .. Len(s) PROVE t[p + i] = s[i]
  <2>1. p + i \in 1 .. Len(u)
    BY <1>1
  <2> QED
    BY <1>1, <1>2, <2>1
<1> QED
  BY <1>1, <1>2, <1>3 DEF Occurs

\* What the bytes at p .. p+Len(s)-1 are, counted from 0.
LEMMA OccursAt ==
  ASSUME NEW s, NEW t, NEW p \in Nat, Occurs(s, t, p), Len(s) \in Nat
  PROVE  \A i \in p .. p + Len(s) - 1 : At(t, i) = s[i - p + 1]
<1>1. TAKE i \in p .. p + Len(s) - 1
<1>2. i - p + 1 \in 1 .. Len(s) /\ p + (i - p + 1) = i + 1
  OBVIOUS
<1> QED
  BY <1>2 DEF Occurs, At

LEMMA OccursLacking ==
  ASSUME NEW s, NEW chars, Lacks(s, chars), NEW t, NEW p \in Nat, Occurs(s, t, p)
  PROVE  /\ Len(s) \in Nat
         /\ \A i \in p .. p + Len(s) - 1 : At(t, i) \notin chars
<1>1. Len(s) \in Nat /\ DOMAIN s = 1 .. Len(s)
  BY LenProperties DEF Lacks
<1>2. \A i \in 1 .. Len(s) : s[i] \notin chars
  BY <1>1 DEF Lacks
<1>3. ASSUME NEW i \in p .. p + Len(s) - 1 PROVE At(t, i) \notin chars
  <2>1. At(t, i) = s[i - p + 1]
    BY <1>1, OccursAt
  <2>2. i - p + 1 \in 1 .. Len(s)
    BY <1>1
  <2> QED
    BY <1>2, <2>1, <2>2
<1> QED
  BY <1>1, <1>3

LEMMA OccursSub ==
  ASSUME NEW s \in Texts, NEW t \in Texts, NEW p \in Nat, Occurs(s, t, p)
  PROVE  Sub(t, p, p + Len(s)) = s
<1>1. Len(s) \in Nat /\ Len(t) \in Nat /\ p + Len(s) <= Len(t)
      /\ \A i \in 1 .. Len(s) : t[p + i] = s[i]
  BY TextFacts DEF Occurs
<1>2. PICK u : u = SubSeq(t, p + 1, p + Len(s))
  OBVIOUS
<1>3. p + 1 \in Int /\ p + Len(s) \in Int /\ \A i \in p + 1 .. p + Len(s) : t[i] \in Bytes
  <2>1. \A i \in 1 .. Len(t) : t[i] \in Bytes
    BY TextFacts
  <2> QED
    BY <1>1, <2>1
<1>4. /\ u \in Seq(Bytes)
      /\ Len(u) = IF p + 1 <= p + Len(s) THEN p + Len(s) - (p + 1) + 1 ELSE 0
      /\ \A i \in 1 .. p + Len(s) - (p + 1) + 1 : u[i] = t[p + 1 + i - 1]
  BY <1>2, <1>3, SubSeqProperties
<1>5. Len(u) = Len(s) /\ \A i \in 1 .. Len(s) : u[i] = s[i]
  BY <1>1, <1>4
<1>6. u = s
  BY <1>4, <1>5, SeqEqual DEF Texts
<1> QED
  BY <1>2, <1>6 DEF Sub

LEMMA LineFacts ==
  ASSUME NEW r, IsRequest(r)
  PROVE  LineBytes(r) /\ LineParts(r)
<1> DEFINE params == IF r.params = NoText THEN <<>> ELSE <<"?">> \o r.params
           protocol == IF r.protocol = NoText THEN <<>> ELSE <<"SP">> \o r.protocol
<1>1. PICK t \in Texts : t = Text(r) /\ Len(t) \in Nat /\ Occurs(LineText(r), t, 0)
  BY Places, TextFacts
<1>2. PICK a \in Texts : a = r.method /\ Lacks(a, {"SP"}) /\ a # <<>>
  BY DEF IsRequest, Lacks, Texts
<1>3. PICK c \in Texts : c = r.path /\ Lacks(c, {"?", "SP", "LF"})
  BY DEF IsRequest, Lacks, Texts
<1>4. PICK b \in Texts : b = <<"SP">> /\ Len(b) = 1 /\ b[1] = "SP"
  BY MarkTexts
<1>5. PICK f \in Texts : f = CRLF /\ Len(f) = 2 /\ f[1] = "CR" /\ f[2] = "LF"
  BY CRLFText
<1>6. PICK g \in Texts : g = <<>> /\ Len(g) = 0
  BY EmptyText
<1>7. PICK q \in Texts : q = <<"?">> /\ Len(q) = 1 /\ q[1] = "?"
  BY MarkTexts
<1>8. PICK d \in Texts : d = params
  <2>1. CASE r.params = NoText
    BY <2>1, EmptyText
  <2>2. CASE r.params # NoText
    <3>1. PICK s \in Texts : s = r.params
      BY <2>2 DEF IsRequest, Lacks, Texts
    <3>2. q \o s \in Texts
      BY JoinedType
    <3> QED
      BY <1>7, <2>2, <3>1, <3>2
  <2> QED
    BY <2>1, <2>2
<1>9. PICK e \in Texts : e = protocol
  <2>1. CASE r.protocol = NoText
    BY <2>1, EmptyText
  <2>2. CASE r.protocol # NoText
    <3>1. PICK s \in Texts : s = r.protocol
      BY <2>2 DEF IsRequest, Lacks, Texts
    <3>2. b \o s \in Texts
      BY JoinedType
    <3> QED
      BY <1>4, <2>2, <3>1, <3>2
  <2> QED
    BY <2>1, <2>2
<1>10. PICK u \in Texts : u = LineText(r) /\ Len(u) \in Nat /\ Len(u) = LineLength(r)
  BY LineTextType, TextFacts DEF LineLength
<1>11. SevenOccur(u, a, b, c, d, e, f, g)
  <2>1. u \o g = u
    BY <1>6, <1>10, ConcatEmptySeq DEF Texts
  <2>2. u = a \o b \o c \o d \o e \o f
    BY <1>2, <1>3, <1>4, <1>5, <1>8, <1>9, <1>10 DEF LineText
  <2>3. u = a \o b \o c \o d \o e \o f \o g
    <3>1. u \o g = a \o b \o c \o d \o e \o f \o g
      BY <2>2
    <3> QED
      BY <2>1, <3>1
  <2>4. AreSeven(u, a, b, c, d, e, f, g)
    BY <1>2, <1>3, <1>4, <1>5, <1>6, <1>8, <1>9, <2>3, Zenon DEF AreSeven
  <2> QED
    BY <2>4, OccursInSeven
<1> HIDE DEF params, protocol
<1>12. /\ Len(a) \in Nat /\ Len(c) \in Nat /\ Len(d) \in Nat /\ Len(e) \in Nat
       /\ Len(b) \in Nat /\ Len(f) \in Nat
  BY TextFacts
<1>13. PICK m \in Nat : m = Len(a)
  BY <1>12
<1>14. PICK p \in Nat : p = m + 1 + Len(c)
  BY <1>12, <1>13
<1>15. PICK k \in Nat : k = p + Len(d)
  BY <1>12, <1>14
<1>16. PICK l \in Nat : l = k + Len(e)
  BY <1>12, <1>15
<1>17. /\ m \in Nat /\ p \in Nat /\ k \in Nat /\ l \in Nat
       /\ m = Len(a) /\ p = m + 1 + Len(c) /\ k = p + Len(d) /\ l = k + Len(e)
  BY <1>13, <1>14, <1>15, <1>16
<1>18. /\ Len(u) = l + 2
       /\ Occurs(a, u, 0) /\ Occurs(b, u, m) /\ Occurs(c, u, m + 1) /\ Occurs(d, u, p)
       /\ Occurs(e, u, k) /\ Occurs(f, u, l)
  <2>1. /\ Len(u) = Len(a) + Len(b) + Len(c) + Len(d) + Len(e) + Len(f) + Len(g)
        /\ Occurs(a, u, 0) /\ Occurs(b, u, Len(a))
        /\ Occurs(c, u, Len(a) + Len(b))
        /\ Occurs(d, u, Len(a) + Len(b) + Len(c))
        /\ Occurs(e, u, Len(a) + Len(b) + Len(c) + Len(d))
        /\ Occurs(f, u, Len(a) + Len(b) + Len(c) + Len(d) + Len(e))
    BY <1>11, Zenon DEF SevenOccur
  <2>2. /\ Len(a) + Len(b) = m + 1 /\ Len(a) + Len(b) + Len(c) = p
        /\ Len(a) + Len(b) + Len(c) + Len(d) = k
        /\ Len(a) + Len(b) + Len(c) + Len(d) + Len(e) = l
        /\ Len(a) + Len(b) + Len(c) + Len(d) + Len(e) + Len(f) + Len(g) = l + 2
    BY <1>4, <1>5, <1>6, <1>12, <1>17
  <2> QED
    BY <1>17, <2>1, <2>2
<1>19. /\ Len(u) <= Len(t)
       /\ Occurs(a, t, 0) /\ Occurs(b, t, m) /\ Occurs(c, t, m + 1) /\ Occurs(d, t, p)
       /\ Occurs(e, t, k) /\ Occurs(f, t, l)
  <2>1. Occurs(u, t, 0) /\ m + 1 \in Nat /\ 0 \in Nat
    BY <1>1, <1>10, <1>17
  <2>2. Len(u) <= Len(t)
    BY <2>1 DEF Occurs
  <2>3. Occurs(a, t, 0)
    BY <1>1, <1>10, <1>12, <1>18, <2>1, OccursWithin
  <2>4. Occurs(b, t, m)
    BY <1>1, <1>10, <1>12, <1>18, <2>1, OccursWithin
  <2>5. Occurs(c, t, m + 1)
    BY <1>1, <1>10, <1>12, <1>18, <2>1, OccursWithin
  <2>6. Occurs(d, t, p)
    BY <1>1, <1>10, <1>12, <1>18, <2>1, OccursWithin
  <2>7. Occurs(e, t, k)
    BY <1>1, <1>10, <1>12, <1>18, <2>1, OccursWithin
  <2>8. Occurs(f, t, l)
    BY <1>1, <1>10, <1>12, <1>18, <2>1, OccursWithin
  <2> QED
    BY <2>2, <2>3, <2>4, <2>5, <2>6, <2>7, <2>8
\* the parameters and the protocol without their marks
<1>20. ASSUME r.params # NoText
       PROVE  /\ r.params \in Texts /\ Lacks(r.params, {"SP", "LF"})
              /\ Len(d) = 1 + Len(r.params)
              /\ Occurs(q, t, p) /\ Occurs(r.params, t, p + 1)
  <2>1. PICK s \in Texts : s = r.params /\ Lacks(s, {"SP", "LF"})
    BY <1>20 DEF IsRequest, Lacks, Texts
  <2>2. d = q \o s /\ Len(q \o s) = Len(q) + Len(s)
    <3>1. d = q \o s
      BY <1>7, <1>8, <1>20, <2>1 DEF params
    <3> QED
      BY <3>1, JoinedType
  <2>3. Occurs(q, t, p) /\ Occurs(s, t, p + Len(q))
    BY <1>1, <1>17, <1>19, <2>2, OccursJoined
  <2> QED
    BY <1>7, <2>1, <2>2, <2>3
<1>21. ASSUME r.protocol # NoText
       PROVE  /\ r.protocol \in Texts /\ Lacks(r.protocol, {"LF"})
              /\ Len(e) = 1 + Len(r.protocol)
              /\ Occurs(b, t, k) /\ Occurs(r.protocol, t, k + 1)
  <2>1. PICK s \in Texts : s = r.protocol /\ Lacks(s, {"LF"})
    BY <1>21 DEF IsRequest, Lacks, Texts
  <2>2. e = b \o s /\ Len(b \o s) = Len(b) + Len(s)
    <3>1. e = b \o s
      BY <1>4, <1>9, <1>21, <2>1 DEF protocol
    <3> QED
      BY <3>1, JoinedType
  <2>3. Occurs(b, t, k) /\ Occurs(s, t, k + Len(b))
    BY <1>1, <1>17, <1>19, <2>2, OccursJoined
  <2> QED
    BY <1>4, <2>1, <2>2, <2>3
<1>22. r.params = NoText => Len(d) = 0
  BY <1>8, EmptyText DEF params
<1>23. r.protocol = NoText => Len(e) = 0
  BY <1>9, EmptyText DEF protocol
<1>24. /\ MethodEnd(r) = m /\ PathEnd(r) = p /\ ParamEnd(r) = k
       /\ LineLength(r) = l + 2
  <2>1. MethodEnd(r) = m /\ PathEnd(r) = p
    BY <1>2, <1>3, <1>17 DEF MethodEnd, PathEnd
  <2>2. LineLength(r) = l + 2
    BY <1>10, <1>18
  <2>3. ParamEnd(r) = k
    <3>1. CASE r.params = NoText
      BY <1>17, <1>22, <2>1, <3>1 DEF ParamEnd
    <3>2. CASE r.params # NoText
      BY <1>17, <1>20, <2>1, <3>2 DEF ParamEnd
    <3> QED
      BY <3>1, <3>2
  <2> QED
    BY <2>1, <2>2, <2>3
\* the bytes
<1>25. m # 0 /\ m < p /\ p <= k /\ k <= l
  <2>1. Len(a) # 0
    BY <1>2, TextFacts
  <2> QED
    BY <1>12, <1>17, <2>1
<1>26. At(t, m) = "SP" /\ At(t, l) = "CR" /\ At(t, l + 1) = "LF"
  <2>1. \A i \in m .. m + Len(b) - 1 : At(t, i) = b[i - m + 1]
    BY <1>12, <1>19, OccursAt
  <2>2. \A i \in l .. l + Len(f) - 1 : At(t, i) = f[i - l + 1]
    BY <1>12, <1>19, OccursAt
  <2>3. m \in m .. m + Len(b) - 1 /\ m - m + 1 = 1
    BY <1>4
  <2>4. l \in l .. l + Len(f) - 1 /\ l - l + 1 = 1
    BY <1>5
  <2>5. l + 1 \in l .. l + Len(f) - 1 /\ l + 1 - l + 1 = 2
    BY <1>5
  <2>6. At(t, m) = b[1]
    BY <2>1, <2>3
  <2>7. At(t, l) = f[1]
    BY <2>2, <2>4
  <2>8. At(t, l + 1) = f[2]
    BY <2>2, <2>5
  <2> QED
    BY <1>4, <1>5, <2>6, <2>7, <2>8
<1>27. \A i \in 0 .. m - 1 : At(t, i) # "SP"
  <2>1. \A i \in 0 .. 0 + Len(a) - 1 : At(t, i) \notin {"SP"}
    BY <1>2, <1>19, OccursLacking
  <2> QED
    BY <1>17, <2>1
<1>28. \A i \in m + 1 .. p - 1 : At(t, i) \notin {"?", "SP", "LF"}
  <2>1. m + 1 \in Nat
    OBVIOUS
  <2>2. \A i \in m + 1 .. m + 1 + Len(c) - 1 : At(t, i) \notin {"?", "SP", "LF"}
    BY <1>3, <1>19, <2>1, OccursLacking
  <2> QED
    BY <1>17, <2>2
<1>29. ASSUME r.params # NoText
       PROVE  /\ r.protocol # NoText /\ p < k
              /\ At(t, p) = "?" /\ \A i \in p + 1 .. k - 1 : At(t, i) \notin {"SP", "LF"}
              /\ Sub(t, p + 1, k) = r.params
  <2>1. r.protocol # NoText
    BY <1>29 DEF IsRequest
  <2>2. p + 1 \in Nat /\ Len(r.params) \in Nat /\ Len(q) \in Nat
    BY <1>20, <1>29, TextFacts
  <2>3. p < k /\ p + 1 + Len(r.params) = k /\ p + 1 + Len(r.params) - 1 = k - 1
    <3>1. PICK n \in Nat : n = Len(r.params) /\ Len(d) = 1 + n
      BY <1>20, <1>29, <2>2
    <3>2. k = p + (1 + n)
      BY <1>15, <3>1
    <3>3. p < k /\ p + 1 + n = k /\ p + 1 + n - 1 = k - 1
      BY <3>2
    <3> QED
      BY <3>1, <3>3
  <2>4. At(t, p) = "?"
    <3>1. \A i \in p .. p + Len(q) - 1 : At(t, i) = q[i - p + 1]
      BY <1>20, <1>29, <2>2, OccursAt
    <3>2. p \in p .. p + Len(q) - 1 /\ p - p + 1 = 1
      BY <1>7
    <3>3. At(t, p) = q[1]
      BY <3>1, <3>2
    <3> QED
      BY <1>7, <3>3
  <2>5. \A i \in p + 1 .. p + 1 + Len(r.params) - 1 : At(t, i) \notin {"SP", "LF"}
    BY <1>20, <1>29, <2>2, OccursLacking
  <2>6. Sub(t, p + 1, p + 1 + Len(r.params)) = r.params
    BY <1>20, <1>29, <2>2, OccursSub
  <2>7. \A i \in p + 1 .. k - 1 : At(t, i) \notin {"SP", "LF"}
    BY <2>3, <2>5
  <2>8. Sub(t, p + 1, k) = r.params
    BY <2>3, <2>6
  <2> QED
    BY <2>1, <2>3, <2>4, <2>7, <2>8
<1>30. ASSUME r.protocol # NoText
       PROVE  /\ k < l
              /\ At(t, k) = "SP" /\ \A i \in k + 1 .. l - 1 : At(t, i) # "LF"
              /\ Sub(t, k + 1, l) = r.protocol
  <2>1. k + 1 \in Nat /\ Len(r.protocol) \in Nat /\ Len(b) \in Nat
    BY <1>21, <1>30, TextFacts
  <2>2. k < l /\ k + 1 + Len(r.protocol) = l /\ k + 1 + Len(r.protocol) - 1 = l - 1
    <3>1. PICK n \in Nat : n = Len(r.protocol) /\ Len(e) = 1 + n
      BY <1>21, <1>30, <2>1
    <3>2. l = k + (1 + n)
      BY <1>16, <3>1
    <3>3. k < l /\ k + 1 + n = l /\ k + 1 + n - 1 = l - 1
      BY <3>2
    <3> QED
      BY <3>1, <3>3
  <2>3. At(t, k) = "SP"
    <3>1. \A i \in k .. k + Len(b) - 1 : At(t, i) = b[i - k + 1]
      BY <1>21, <1>30, <2>1, OccursAt
    <3>2. k \in k .. k + Len(b) - 1 /\ k - k + 1 = 1
      BY <1>4
    <3>3. At(t, k) = b[1]
      BY <3>1, <3>2
    <3> QED
      BY <1>4, <3>3
  <2>4. \A i \in k + 1 .. k + 1 + Len(r.protocol) - 1 : At(t, i) \notin {"LF"}
    BY <1>21, <1>30, <2>1, OccursLacking
  <2>5. Sub(t, k + 1, k + 1 + Len(r.protocol)) = r.protocol
    BY <1>21, <1>30, <2>1, OccursSub
  <2>6. \A i \in k + 1 .. l - 1 : At(t, i) # "LF"
    BY <2>2, <2>4
  <2>7. Sub(t, k + 1, l) = r.protocol
    BY <2>2, <2>5
  <2> QED
    BY <2>2, <2>3, <2>6, <2>7
<1>31. Sub(t, 0, m) = r.method /\ Sub(t, m + 1, p) = r.path
  <2>1. Sub(t, 0, 0 + Len(a)) = a
    BY <1>19, OccursSub
  <2>2. m + 1 \in Nat
    OBVIOUS
  <2>3. Sub(t, m + 1, m + 1 + Len(c)) = c
    BY <1>19, <2>2, OccursSub
  <2>4. 0 + Len(a) = m /\ m + 1 + Len(c) = p
    BY <1>12, <1>17
  <2>5. Sub(t, 0, m) = a /\ Sub(t, m + 1, p) = c
    BY <2>1, <2>3, <2>4
  <2> QED
    BY <1>2, <1>3, <2>5
<1>32. r.protocol = NoText => k = l
  BY <1>12, <1>17, <1>23
<1>33. r.params = NoText => p = k
  BY <1>12, <1>17, <1>22
<1>34. l + 2 - 2 = l /\ l + 2 - 1 = l + 1 /\ l + 2 - 3 = l - 1 /\ l + 2 <= Len(t)
       /\ (k < l => k + 3 <= l + 2)
  BY <1>18, <1>19
<1>35. LineBytes(r)
  <2>1. /\ m \in Nat \ {0} /\ p \in Nat /\ k \in Nat /\ m < p /\ p <= k
        /\ l + 2 \in Nat /\ l + 2 <= Len(t)
    BY <1>25, <1>34
  <2>2. r.protocol = NoText => l + 2 = k + 2
    BY <1>32
  <2>3. r.protocol # NoText => /\ k + 3 <= l + 2
                               /\ At(t, k) = "SP"
                               /\ \A i \in k + 1 .. l - 1 : At(t, i) # "LF"
    BY <1>30, <1>34
  <2>4. At(t, l + 2 - 2) = "CR" /\ At(t, l + 2 - 1) = "LF"
    BY <1>26, <1>34
  <2>5. r.protocol # NoText => \A i \in k + 1 .. l + 2 - 3 : At(t, i) # "LF"
    BY <1>30, <1>34
  <2>6. r.params = NoText => k = p
    BY <1>33
  <2>7. r.params # NoText =>
          /\ r.protocol # NoText /\ p < k
          /\ At(t, p) = "?" /\ \A i \in p + 1 .. k - 1 : At(t, i) \notin {"SP", "LF"}
    BY <1>29
  <2>8. r.protocol # NoText =>
          /\ k + 3 <= l + 2
          /\ At(t, k) = "SP" /\ \A i \in k + 1 .. l + 2 - 3 : At(t, i) # "LF"
    BY <2>3, <2>5
  <2>9. LineBytesAre(t, r, m, p, k, l + 2)
    BY <1>26, <1>27, <1>28, <2>1, <2>2, <2>4, <2>6, <2>7, <2>8
       DEF LineBytesAre
  <2> QED
    BY <1>1, <1>24, <2>9 DEF LineBytes
<1>36. LineParts(r)
  BY <1>1, <1>24, <1>29, <1>30, <1>31, <1>34 DEF LineParts
<1> QED
  BY <1>35, <1>36

LEMMA FirstFound ==
  ASSUME NEW d, NEW i \in Nat, NEW chars, Len(d) \in Nat,
         NEW j \in i .. Len(d) - 1, At(d, j) \in chars,
         \A k \in i .. j - 1 : At(d, k) \notin chars
  PROVE  First(d, i, chars) = j
<1> DEFINE hits == {k \in i .. Len(d) - 1 : At(d, k) \in chars}
<1>1. j \in hits
  OBVIOUS
<1>2. \A k \in hits : j <= k
  <2>1. TAKE k \in hits
  <2>2. k \notin i .. j - 1
    OBVIOUS
  <2> QED
    BY <2>2
<1>3. \A k \in hits : (\A l \in hits : k <= l) => k = j
  BY <1>1, <1>2
<1>4. (CHOOSE k \in hits : \A l \in hits : k <= l) = j
  <2> HIDE DEF hits
  <2> QED
    BY <1>1, <1>2, <1>3
<1> QED
  BY <1>1, <1>4 DEF First

LEMMA FirstNone ==
  ASSUME NEW d, NEW i \in Nat, NEW chars, Len(d) \in Nat,
         \A k \in i .. Len(d) - 1 : At(d, k) \notin chars
  PROVE  First(d, i, chars) = Len(d)
BY DEF First

\* d consists of the first n bytes of t.
Starts(d, t, n) ==
  /\ n \in 0 .. Len(t) /\ Len(d) = n
  /\ \A i \in 0 .. n - 1 : At(d, i) = At(t, i)

LEMMA StartsSubSeq ==
  ASSUME NEW t \in Texts, NEW n \in 0 .. Len(t)
  PROVE  /\ SubSeq(t, 1, n) \in Texts
         /\ Starts(SubSeq(t, 1, n), t, n)
<1>1. Len(t) \in Nat /\ \A i \in 1 .. Len(t) : t[i] \in Bytes
  BY TextFacts
<1>2. n \in Nat /\ n <= Len(t)
  BY <1>1
<1>3. PICK u : u = SubSeq(t, 1, n)
  OBVIOUS
<1>4. \A i \in 1 .. n : t[i] \in Bytes
  BY <1>1, <1>2
<1>5. /\ u \in Seq(Bytes)
      /\ Len(u) = IF 1 <= n THEN n - 1 + 1 ELSE 0
      /\ \A i \in 1 .. n - 1 + 1 : u[i] = t[1 + i - 1]
  BY <1>2, <1>3, <1>4, SubSeqProperties
<1>6. Len(u) = n /\ \A i \in 0 .. n - 1 : u[i + 1] = t[i + 1]
  BY <1>2, <1>5
<1> QED
  BY <1>1, <1>2, <1>3, <1>5, <1>6 DEF Starts, At, Texts

LEMMA FirstFoundAt ==
  ASSUME NEW t, NEW n, NEW d, Len(t) \in Nat, Starts(d, t, n), NEW i \in Nat, NEW chars,
         NEW j \in Nat, i <= j, At(t, j) \in chars,
         \A k \in i .. j - 1 : At(t, k) \notin chars
  PROVE  /\ j < n => First(d, i, chars) = j /\ At(d, j) = At(t, j)
         /\ j >= n => First(d, i, chars) = n
<1>1. n \in Nat /\ Len(d) = n /\ \A k \in 0 .. n - 1 : At(d, k) = At(t, k)
  BY DEF Starts
<1>2. ASSUME j < n PROVE First(d, i, chars) = j /\ At(d, j) = At(t, j)
  <2>1. j \in i .. Len(d) - 1 /\ At(d, j) = At(t, j)
    BY <1>1, <1>2
  <2>2. \A k \in i .. j - 1 : At(d, k) \notin chars
    BY <1>1, <1>2
  <2>3. First(d, i, chars) = j
    BY <1>1, <2>1, <2>2, FirstFound
  <2> QED
    BY <2>1, <2>3
<1>3. ASSUME j >= n PROVE First(d, i, chars) = n
  <2>1. \A k \in i .. Len(d) - 1 : At(d, k) \notin chars
    BY <1>1, <1>3
  <2>2. First(d, i, chars) = Len(d)
    BY <1>1, <2>1, FirstNone
  <2> QED
    BY <1>1, <2>2
<1> QED
  BY <1>2, <1>3

LEMMA MethodStep ==
  ASSUME NEW r, IsRequest(r), NEW n, NEW d, Starts(d, Text(r), n)
  PROVE  Method(d, NewHead) = IF MethodEnd(r) < n THEN AfterMethod(r) ELSE NewHead
<1>1. PICK t \in Texts : t = Text(r) /\ Len(t) \in Nat
  BY Places, TextFacts
<1>2. PICK m \in Nat : /\ m = MethodEnd(r) /\ At(t, m) = "SP"
                       /\ \A i \in 0 .. m - 1 : At(t, i) # "SP"
  BY <1>1, LineFacts DEF LineBytes, LineBytesAre
<1>3. PICK chars : chars = {"SP"}
  OBVIOUS
<1>4. n \in Nat /\ Len(d) = n
  BY <1>1 DEF Starts
<1>5. /\ m < n => First(d, 0, chars) = m
      /\ m >= n => First(d, 0, chars) = n
  <2>1. /\ 0 \in Nat /\ 0 <= m /\ At(t, m) \in chars
        /\ \A i \in 0 .. m - 1 : At(t, i) \notin chars
    BY <1>2, <1>3
  <2> QED
    BY <1>1, <1>2, <2>1, FirstFoundAt
<1>6. Method(d, NewHead) =
        LET i == First(d, 0, chars)
        IN IF i < n THEN [NewHead EXCEPT !.methodEnd = i, !.trav = i + 1] ELSE NewHead
  BY <1>3, <1>4, NewHeadFields DEF Method
<1>7. CASE m < n
  BY <1>2, <1>5, <1>6, <1>7 DEF AfterMethod
<1>8. CASE m >= n
  BY <1>2, <1>4, <1>5, <1>6, <1>8
<1> QED
  BY <1>2, <1>4, <1>7, <1>8

\* How many bytes it takes to find the end of the path.
PathNeeds(r) == IF r.protocol = NoText THEN LineLength(r) ELSE PathEnd(r) + 1

LEMMA PathStep ==
  ASSUME NEW r, IsRequest(r), NEW n, NEW d, Starts(d, Text(r), n)
  PROVE  Path(d, AfterMethod(r)) =
           IF PathNeeds(r) <= n THEN AfterPath(r) ELSE AfterMethod(r)
<1>1. PICK t \in Texts : t = Text(r) /\ Len(t) \in Nat
  BY Places, TextFacts
<1>2. LineBytesAre(t, r, MethodEnd(r), PathEnd(r), ParamEnd(r), LineLength(r))
  BY <1>1, LineFacts DEF LineBytes
<1>3. PICK m \in Nat, p \in Nat, k \in Nat, l \in Nat :
        /\ m = MethodEnd(r) /\ p = PathEnd(r) /\ k = ParamEnd(r) /\ l = LineLength(r)
        /\ m # 0 /\ m < p /\ p <= k
  BY <1>2 DEF LineBytesAre
<1>4. n \in Nat /\ Len(d) = n
  BY <1>1 DEF Starts
<1>5. PICK chars : chars = {"?", "SP", "LF"}
  OBVIOUS
<1>6. PICK s : s = AfterMethod(r)
  OBVIOUS
<1>7. s.methodEnd = m /\ s.pathEnd = 0 /\ s.trav = m + 1
  BY <1>3, <1>6 DEF AfterMethod, NewHead
<1>8. \A i \in m + 1 .. p - 1 : At(t, i) \notin chars
  BY <1>2, <1>3, <1>5 DEF LineBytesAre
<1>9. PICK i : i = First(d, m + 1, chars)
  OBVIOUS
<1>10. Path(d, s) = IF i < n THEN EndPath(d, s, i) ELSE s
  <2>1. First(d, s.trav, {"?", "SP", "LF"}) = i
    BY <1>5, <1>7, <1>9
  <2>2. s.methodEnd # 0 /\ s.pathEnd = 0 /\ Len(d) = n
    BY <1>3, <1>4, <1>7
  <2> QED
    BY <2>1, <2>2 DEF Path
<1>11. m + 1 \in Nat /\ m + 1 <= p
  BY <1>3
<1>12. CASE r.params # NoText
  <2>1. At(t, p) = "?" /\ r.protocol # NoText
    BY <1>2, <1>3, <1>12 DEF LineBytesAre
  <2>2. At(t, p) \in chars
    BY <1>5, <2>1
  <2>3. /\ p < n => i = p /\ At(d, p) = At(t, p)
        /\ p >= n => i = n
    BY <1>1, <1>8, <1>9, <1>11, <2>2, FirstFoundAt
  <2>4. PathNeeds(r) = p + 1
    BY <1>3, <2>1 DEF PathNeeds
  <2>5. CASE p < n
    <3>1. i = p /\ At(d, i) = "?" /\ i < n
      BY <1>4, <2>1, <2>3, <2>5
    <3>2. Path(d, s) = [s EXCEPT !.pathEnd = p, !.paramStart = p + 1, !.trav = p + 1]
      BY <1>10, <3>1 DEF EndPath
    <3>3. AfterPath(r) = [s EXCEPT !.pathEnd = p, !.paramStart = p + 1, !.trav = p + 1]
      BY <1>3, <1>6, <1>12 DEF AfterPath, PathBeforeParams
    <3> QED
      BY <1>4, <1>6, <2>4, <2>5, <3>2, <3>3
  <2>6. CASE p >= n
    BY <1>4, <1>6, <1>10, <2>3, <2>4, <2>6
  <2> QED
    BY <1>4, <2>5, <2>6
<1>13. CASE r.params = NoText /\ r.protocol # NoText
  <2>1. k = p /\ At(t, p) = "SP"
    BY <1>2, <1>3, <1>13 DEF LineBytesAre
  <2>2. At(t, p) \in chars
    BY <1>5, <2>1
  <2>3. /\ p < n => i = p /\ At(d, p) = At(t, p)
        /\ p >= n => i = n
    BY <1>1, <1>8, <1>9, <1>11, <2>2, FirstFoundAt
  <2>4. PathNeeds(r) = p + 1
    BY <1>3, <1>13 DEF PathNeeds
  <2>5. CASE p < n
    <3>1. i = p /\ At(d, i) = "SP" /\ i < n
      BY <1>4, <2>1, <2>3, <2>5
    <3>2. Path(d, s) = [s EXCEPT !.pathEnd = p, !.paramStart = p, !.paramEnd = p,
                                 !.protStart = p + 1, !.trav = p + 1]
      BY <1>10, <3>1 DEF EndPath
    <3>3. AfterPath(r) = [s EXCEPT !.pathEnd = p, !.paramStart = p, !.paramEnd = p,
                                   !.protStart = p + 1, !.trav = p + 1]
      BY <1>3, <1>6, <1>13 DEF AfterPath, PathBeforeProtocol
    <3> QED
      BY <1>4, <1>6, <2>4, <2>5, <3>2, <3>3
  <2>6. CASE p >= n
    BY <1>4, <1>6, <1>10, <2>3, <2>4, <2>6
  <2> QED
    BY <1>4, <2>5, <2>6
<1>14. CASE r.params = NoText /\ r.protocol = NoText
  <2>1. k = p /\ l = p + 2 /\ At(t, l - 2) = "CR" /\ At(t, l - 1) = "LF"
    BY <1>2, <1>3, <1>14 DEF LineBytesAre
  <2>2. p + 1 \in Nat /\ m + 1 <= p + 1 /\ l - 2 = p /\ l - 1 = p + 1
    BY <1>3, <2>1
  <2>3. At(t, p) = "CR" /\ At(t, p + 1) = "LF" /\ At(t, p + 1) \in chars
    BY <1>5, <2>1, <2>2
  <2>4. \A j \in m + 1 .. p + 1 - 1 : At(t, j) \notin chars
    <3>1. At(t, p) \notin chars
      BY <1>5, <2>3
    <3>2. \A j \in m + 1 .. p + 1 - 1 : j = p \/ j \in m + 1 .. p - 1
      OBVIOUS
    <3> QED
      BY <1>8, <3>1, <3>2
  <2>5. /\ p + 1 < n => i = p + 1 /\ At(d, p + 1) = At(t, p + 1)
        /\ p + 1 >= n => i = n
    BY <1>1, <1>9, <1>11, <2>2, <2>3, <2>4, FirstFoundAt
  <2>6. PathNeeds(r) = p + 2
    BY <1>3, <1>14, <2>1 DEF PathNeeds
  <2>7. CASE p + 1 < n
    <3>1. i = p + 1 /\ At(d, i) = "LF" /\ i < n /\ i - 1 = p
      BY <1>4, <2>3, <2>5, <2>7
    <3>2. Path(d, s) = EndLine([s EXCEPT !.pathEnd = p, !.paramStart = p,
                                         !.paramEnd = p, !.protStart = p], p + 1)
      BY <1>10, <3>1 DEF EndPath
    <3>3. AfterPath(r) = EndLine([s EXCEPT !.pathEnd = p, !.paramStart = p,
                                           !.paramEnd = p, !.protStart = p], p + 1)
      BY <1>3, <1>6, <1>14 DEF AfterPath, PathAlone
    <3> QED
      BY <1>4, <1>6, <2>6, <2>7, <3>2, <3>3
  <2>8. CASE p + 1 >= n
    BY <1>4, <1>6, <1>10, <2>5, <2>6, <2>8
  <2> QED
    BY <1>4, <2>7, <2>8
<1> QED
  BY <1>12, <1>13, <1>14

\* What the loop over the parameters meets from i on, if f is what it meets
\* from the following positions on.
StopAt(d, f, i) ==
  IF i >= Len(d) THEN [lf |-> -1, sp |-> -1]
  ELSE CASE At(d, i) = "SP" -> [lf |-> -1, sp |-> i]
         [] At(d, i) = "LF" -> [f[i + 2] EXCEPT !.lf = IF @ = -1 THEN i ELSE @]
         [] OTHER           -> f[i + 1]
StopsFrom(f, d, m) == f = [i \in m .. Len(d) + 1 |-> StopAt(d, f, i)]

LEMMA StopAtSame ==
  ASSUME NEW d, Len(d) \in Nat, NEW i \in 0 .. Len(d) + 1, NEW f, NEW g,
         \A j \in i + 1 .. Len(d) + 1 : f[j] = g[j]
  PROVE  StopAt(d, f, i) = StopAt(d, g, i)
<1>1. CASE i >= Len(d)
  BY <1>1 DEF StopAt
<1>2. CASE i < Len(d)
  <2>1. i + 1 \in i + 1 .. Len(d) + 1 /\ i + 2 \in i + 1 .. Len(d) + 1
    BY <1>2
  <2>2. f[i + 1] = g[i + 1] /\ f[i + 2] = g[i + 2]
    BY <2>1
  <2> QED
    BY <2>2, Zenon DEF StopAt
<1> QED
  BY <1>1, <1>2

LEMMA StopsFromExist ==
  ASSUME NEW d, Len(d) \in Nat
  PROVE  \E f : StopsFrom(f, d, 0)
<1>1. PICK n \in Nat : n = Len(d)
  OBVIOUS
<1> DEFINE S == {j \in 0 .. n + 1 : \E f : StopsFrom(f, d, n + 1 - j)}
<1>2. 0 \in S
  <2> DEFINE f == [i \in n + 1 .. n + 1 |-> [lf |-> -1, sp |-> -1]]
  <2>1. StopsFrom(f, d, n + 1)
    <3>1. \A i \in n + 1 .. n + 1 : StopAt(d, f, i) = [lf |-> -1, sp |-> -1]
      BY <1>1 DEF StopAt
    <3>2. f = [i \in n + 1 .. n + 1 |-> StopAt(d, f, i)]
      BY <3>1
    <3> HIDE DEF f
    <3> QED
      BY <1>1, <3>2 DEF StopsFrom
  <2>2. n + 1 - 0 = n + 1 /\ 0 \in 0 .. n + 1
    OBVIOUS
  <2> QED
    BY <2>1, <2>2
<1>3. ASSUME NEW j \in 0 .. n, j \in S PROVE j + 1 \in S
  <2>1. PICK m \in 1 .. n + 1 : m = n + 1 - j /\ m - 1 = n + 1 - (j + 1)
    OBVIOUS
  <2>2. PICK f : StopsFrom(f, d, m)
    BY <1>3, <2>1
  <2>3. f = [i \in m .. n + 1 |-> StopAt(d, f, i)]
    BY <1>1, <2>2 DEF StopsFrom
  <2> DEFINE g == [i \in m - 1 .. n + 1 |-> IF i = m - 1 THEN StopAt(d, f, m - 1) ELSE f[i]]
  <2>4. \A i \in m .. n + 1 : g[i] = f[i]
    OBVIOUS
  <2>5. g[m - 1] = StopAt(d, f, m - 1)
    OBVIOUS
  <2>6. \A i \in m .. n + 1 : f[i] = StopAt(d, f, i)
    BY <2>3, Zenon
  <2>7. g = [i \in m - 1 .. n + 1 |-> g[i]]
    OBVIOUS
  <2> HIDE DEF g
  <2>8. ASSUME NEW i \in m - 1 .. n + 1 PROVE g[i] = StopAt(d, g, i)
    <3>1. \A k \in i + 1 .. Len(d) + 1 : f[k] = g[k]
      BY <1>1, <2>4
    <3>2. StopAt(d, f, i) = StopAt(d, g, i)
      BY <1>1, <3>1, StopAtSame
    <3>3. g[i] = StopAt(d, f, i)
      <4>1. CASE i = m - 1
        BY <4>1, <2>5
      <4>2. CASE i # m - 1
        BY <4>2, <2>4, <2>6
      <4> QED
        BY <4>1, <4>2
    <3> QED
      BY <3>2, <3>3
  <2>9. StopsFrom(g, d, m - 1)
    <3>1. g = [i \in m - 1 .. n + 1 |-> StopAt(d, g, i)]
      BY <2>7, <2>8, Zenon
    <3> QED
      BY <1>1, <3>1 DEF StopsFrom
  <2> QED
    BY <2>1, <2>9
<1> HIDE DEF S
<1>4. PICK k \in Int : k = n + 1
  OBVIOUS
<1>5. 0 \in Int /\ \A i \in 0 .. k - 1 : i \in S => i + 1 \in S
  BY <1>3, <1>4
<1>6. \A i \in 0 .. k : i \in S
  BY <1>2, <1>5, Induction
<1>7. n + 1 \in S /\ n + 1 - (n + 1) = 0
  BY <1>4, <1>6
<1> QED
  BY <1>7 DEF S

LEMMA ParamStopsAre ==
  ASSUME NEW d, Len(d) \in Nat
  PROVE  \A i \in 0 .. Len(d) + 1 : ParamStops(d)[i] = StopAt(d, ParamStops(d), i)
<1>1. ParamStops(d) = CHOOSE f : StopsFrom(f, d, 0)
  BY Zenon DEF ParamStops, StopsFrom, StopAt
<1>2. StopsFrom(ParamStops(d), d, 0)
  BY <1>1, StopsFromExist
<1> QED
  BY <1>2, Zenon DEF StopsFrom

\* Bytes that are neither a blank nor a LF do not stop the loop.
LEMMA ParamStopsSkip ==
  ASSUME NEW d, Len(d) \in Nat, NEW i \in Nat, NEW e \in i .. Len(d),
         \A j \in i .. e - 1 : At(d, j) \notin {"SP", "LF"}
  PROVE  ParamStops(d)[i] = ParamStops(d)[e]
<1>1. PICK f : f = ParamStops(d) /\ \A j \in 0 .. Len(d) + 1 : f[j] = StopAt(d, f, j)
  BY ParamStopsAre
<1> DEFINE S == {j \in i .. e : f[i] = f[j]}
<1>2. i \in S
  OBVIOUS
<1>3. \A j \in i .. e - 1 : j \in S => j + 1 \in S
  <2>1. TAKE j \in i .. e - 1
  <2>2. HAVE j \in S
  <2>3. j < Len(d) /\ At(d, j) \notin {"SP", "LF"}
    OBVIOUS
  <2>4. StopAt(d, f, j) = f[j + 1]
    BY <2>3 DEF StopAt
  <2>5. f[j] = f[j + 1]
    BY <1>1, <2>4
  <2> QED
    BY <2>2, <2>5
<1>4. i \in Int /\ e \in Int
  OBVIOUS
<1> HIDE DEF S
<1>5. \A j \in i .. e : j \in S
  BY <1>2, <1>3, <1>4, Induction
<1>6. e \in S
  BY <1>5
<1> QED
  BY <1>1, <1>6 DEF S

LEMMA ParamsStep ==
  ASSUME NEW r, IsRequest(r), r.params # NoText, NEW n, NEW d, Starts(d, Text(r), n),
         PathEnd(r) < n
  PROVE  Params(d, PathBeforeParams(r)) =
           IF ParamEnd(r) < n THEN AfterParams(r) ELSE PathBeforeParams(r)
<1>1. PICK t \in Texts : t = Text(r) /\ Len(t) \in Nat
  BY Places, TextFacts
<1>2. LineBytesAre(t, r, MethodEnd(r), PathEnd(r), ParamEnd(r), LineLength(r))
  BY <1>1, LineFacts DEF LineBytes
<1>3. PICK p \in Nat, k \in Nat : p = PathEnd(r) /\ k = ParamEnd(r) /\ p < k /\ p # 0
  BY <1>2 DEF LineBytesAre
<1>4. n \in Nat /\ Len(d) = n /\ \A i \in 0 .. n - 1 : At(d, i) = At(t, i)
  BY <1>1 DEF Starts
<1>5. /\ \A i \in p + 1 .. k - 1 : At(t, i) \notin {"SP", "LF"}
      /\ At(t, k) = "SP"
  BY <1>2, <1>3 DEF LineBytesAre
<1>6. PICK s : s = PathBeforeParams(r)
  OBVIOUS
<1>7. s.pathEnd = p /\ s.paramEnd = 0 /\ s.trav = p + 1
  BY <1>3, <1>6 DEF PathBeforeParams, AfterMethod, NewHead
<1>8. PICK f : f = ParamStops(d) /\ \A j \in 0 .. n + 1 : f[j] = StopAt(d, f, j)
  BY <1>4, ParamStopsAre
<1>9. Params(d, s) =
        LET x == f[p + 1]
            u == IF x.lf = -1 THEN s
                 ELSE EndLine([s EXCEPT !.paramEnd = x.lf - 1,
                                        !.protStart = x.lf - 1], x.lf)
        IN IF x.sp = -1 THEN u
           ELSE [u EXCEPT !.paramEnd = x.sp, !.protStart = x.sp + 1, !.trav = x.sp + 1]
  BY <1>3, <1>7, <1>8 DEF Params
<1>10. CASE k < n
  <2>1. f[p + 1] = f[k]
    <3>1. p + 1 \in Nat /\ k \in p + 1 .. Len(d)
          /\ \A j \in p + 1 .. k - 1 : At(d, j) \notin {"SP", "LF"}
      BY <1>3, <1>4, <1>5, <1>10
    <3>2. ParamStops(d)[p + 1] = ParamStops(d)[k]
      BY <1>4, <3>1, ParamStopsSkip
    <3> QED
      BY <1>8, <3>2
  <2>2. At(d, k) = "SP" /\ k \in 0 .. n + 1
    BY <1>4, <1>5, <1>10
  <2>3. StopAt(d, f, k) = [lf |-> -1, sp |-> k]
    BY <1>4, <1>10, <2>2 DEF StopAt
  <2>4. f[p + 1] = [lf |-> -1, sp |-> k]
    BY <1>8, <2>1, <2>2, <2>3
  <2>5. Params(d, s) = [s EXCEPT !.paramEnd = k, !.protStart = k + 1, !.trav = k + 1]
    BY <1>3, <1>9, <2>4
  <2>6. AfterParams(r) = [s EXCEPT !.paramEnd = k, !.protStart = k + 1, !.trav = k + 1]
    BY <1>3, <1>6 DEF AfterParams
  <2> QED
    BY <1>3, <1>6, <1>10, <2>5, <2>6
<1>11. CASE n <= k
  <2>1. n \in 0 .. n + 1 /\ StopAt(d, f, n) = [lf |-> -1, sp |-> -1]
    BY <1>4 DEF StopAt
  <2>2. f[p + 1] = [lf |-> -1, sp |-> -1]
    <3>1. p + 1 \in Nat /\ n \in p + 1 .. Len(d)
          /\ \A j \in p + 1 .. n - 1 : At(d, j) \notin {"SP", "LF"}
      BY <1>3, <1>4, <1>5, <1>11
    <3>2. ParamStops(d)[p + 1] = ParamStops(d)[n]
      BY <1>4, <3>1, ParamStopsSkip
    <3> QED
      BY <1>8, <2>1, <3>2
  <2>3. Params(d, s) = s
    BY <1>9, <2>2
  <2> QED
    BY <1>3, <1>4, <1>6, <1>11, <2>3
<1> QED
  BY <1>3, <1>4, <1>10, <1>11

LEMMA ProtocolStep ==
  ASSUME NEW r, IsRequest(r), r.protocol # NoText, NEW n, NEW d, Starts(d, Text(r), n)
  PROVE  Protocol(d, AfterParams(r)) =
           IF LineLength(r) <= n THEN AfterLine(r) ELSE AfterParams(r)
<1>1. PICK t \in Texts : t = Text(r) /\ Len(t) \in Nat
  BY Places, TextFacts
<1>2. LineBytesAre(t, r, MethodEnd(r), PathEnd(r), ParamEnd(r), LineLength(r))
  BY <1>1, LineFacts DEF LineBytes
<1>3. PICK p \in Nat, k \in Nat, l \in Nat :
        p = PathEnd(r) /\ k = ParamEnd(r) /\ l = LineLength(r) /\ p # 0 /\ k + 3 <= l
        /\ p <= k
  BY <1>2 DEF LineBytesAre
<1>4. n \in Nat /\ Len(d) = n
  BY <1>1 DEF Starts
<1>5. PICK s : s = AfterParams(r)
  OBVIOUS
<1>6. s.paramEnd = k /\ s.protEnd = 0 /\ s.trav = k + 1 /\ k # 0
  <2>1. CASE r.params # NoText
    BY <1>3, <1>5, <2>1 DEF AfterParams, PathBeforeParams, AfterMethod, NewHead
  <2>2. CASE r.params = NoText
    <3>1. k = p
      BY <1>2, <1>3, <2>2 DEF LineBytesAre
    <3> QED
      BY <1>3, <1>5, <2>2, <3>1
         DEF AfterParams, AfterPath, PathBeforeProtocol, AfterMethod, NewHead
  <2> QED
    BY <2>1, <2>2
<1>7. /\ \A i \in k + 1 .. l - 3 : At(t, i) # "LF"
      /\ At(t, l - 2) = "CR" /\ At(t, l - 1) = "LF"
  BY <1>2, <1>3 DEF LineBytesAre
<1>8. PICK chars : chars = {"LF"}
  OBVIOUS
<1>9. PICK i : i = First(d, k + 1, chars)
  OBVIOUS
<1>10. /\ l - 1 < n => i = l - 1
       /\ l - 1 >= n => i = n
  <2>1. k + 1 \in Nat /\ l - 1 \in Nat /\ k + 1 <= l - 1
    BY <1>3
  <2>2. At(t, l - 1) \in chars
    BY <1>7, <1>8
  <2>3. \A j \in k + 1 .. l - 1 - 1 : At(t, j) \notin chars
    <3>1. \A j \in k + 1 .. l - 1 - 1 : j = l - 2 \/ j \in k + 1 .. l - 3
      BY <1>3
    <3> QED
      BY <1>7, <1>8, <3>1
  <2> QED
    BY <1>1, <1>9, <2>1, <2>2, <2>3, FirstFoundAt
<1>11. Protocol(d, s) = IF i = n THEN s ELSE EndLine(s, i)
  BY <1>3, <1>4, <1>6, <1>8, <1>9 DEF Protocol
<1>12. AfterLine(r) = EndLine(s, l - 1)
  BY <1>3, <1>5 DEF AfterLine
<1>13. CASE l <= n
  <2>1. i = l - 1 /\ i # n
    BY <1>3, <1>4, <1>10, <1>13
  <2> QED
    BY <1>3, <1>5, <1>11, <1>12, <1>13, <2>1
<1>14. CASE n < l
  <2>1. i = n
    BY <1>3, <1>4, <1>10, <1>14
  <2> QED
    BY <1>3, <1>4, <1>5, <1>11, <1>14, <2>1
<1> QED
  BY <1>3, <1>4, <1>13, <1>14

\* What is done is not done again, and what cannot be done yet is not done.
LEMMA MethodSkip ==
  ASSUME NEW d, NEW s, s.methodEnd # 0
  PROVE  Method(d, s) = s
BY DEF Method

LEMMA PathSkip ==
  ASSUME NEW d, NEW s, s.methodEnd = 0 \/ s.pathEnd # 0
  PROVE  Path(d, s) = s
BY DEF Path

LEMMA ParamsSkip ==
  ASSUME NEW d, NEW s, s.pathEnd = 0 \/ s.paramEnd > 0
  PROVE  Params(d, s) = s
BY DEF Params

LEMMA ProtocolSkip ==
  ASSUME NEW d, NEW s, s.paramEnd = 0 \/ s.protEnd > 0
  PROVE  Protocol(d, s) = s
BY DEF Protocol

ParamsNeed(r) == IF r.params = NoText THEN PathNeeds(r) ELSE ParamEnd(r) + 1

\* The head after the first n bytes, up to the end of the line.
LineAt(r, n) ==
  IF n <= MethodEnd(r) THEN NewHead
  ELSE IF n < PathNeeds(r) THEN AfterMethod(r)
  ELSE IF n < ParamsNeed(r) THEN AfterPath(r)
  ELSE IF n < LineLength(r) THEN AfterParams(r)
  ELSE AfterLine(r)

LEMMA LineOrder ==
  ASSUME NEW r, IsRequest(r)
  PROVE  /\ MethodEnd(r) \in Nat \ {0} /\ PathEnd(r) \in Nat \ {0}
         /\ ParamEnd(r) \in Nat \ {0} /\ LineLength(r) \in Nat
         /\ PathNeeds(r) \in Nat /\ ParamsNeed(r) \in Nat
         /\ MethodEnd(r) < PathNeeds(r) /\ PathNeeds(r) <= ParamsNeed(r)
         /\ ParamsNeed(r) <= LineLength(r)
         /\ PathEnd(r) < PathNeeds(r) /\ ParamEnd(r) < ParamsNeed(r)
         /\ MethodEnd(r) < PathEnd(r) /\ PathEnd(r) <= ParamEnd(r)
         /\ ParamEnd(r) + 2 <= LineLength(r)
         /\ r.params # NoText => PathNeeds(r) = PathEnd(r) + 1 /\ r.protocol # NoText
         /\ r.protocol = NoText => PathNeeds(r) = LineLength(r)
<1>1. LineBytesAre(Text(r), r, MethodEnd(r), PathEnd(r), ParamEnd(r), LineLength(r))
  BY LineFacts DEF LineBytes
<1>2. PICK m \in Nat, p \in Nat, k \in Nat, l \in Nat :
        m = MethodEnd(r) /\ p = PathEnd(r) /\ k = ParamEnd(r) /\ l = LineLength(r)
  BY <1>1 DEF LineBytesAre
<1>3. /\ m # 0 /\ m < p /\ p <= k
      /\ r.params = NoText => k = p
      /\ r.params # NoText => r.protocol # NoText
      /\ r.protocol = NoText => l = k + 2
      /\ r.protocol # NoText => k + 3 <= l
  BY <1>1, <1>2 DEF LineBytesAre
<1>4. /\ PathNeeds(r) = IF r.protocol = NoText THEN l ELSE p + 1
      /\ ParamsNeed(r) = IF r.params = NoText THEN PathNeeds(r) ELSE k + 1
  BY <1>2 DEF PathNeeds, ParamsNeed
<1>5. CASE r.protocol = NoText
  BY <1>2, <1>3, <1>4, <1>5
<1>6. CASE r.protocol # NoText /\ r.params = NoText
  BY <1>2, <1>3, <1>4, <1>6
<1>7. CASE r.protocol # NoText /\ r.params # NoText
  BY <1>2, <1>3, <1>4, <1>7
<1> QED
  BY <1>3, <1>5, <1>6, <1>7

LEMMA PathFields ==
  ASSUME NEW r, IsRequest(r)
  PROVE  /\ AfterPath(r).methodEnd # 0 /\ AfterPath(r).pathEnd # 0
         /\ r.params # NoText => AfterPath(r).paramEnd = 0
         /\ r.params = NoText => AfterPath(r).paramEnd > 0
         /\ r.protocol = NoText => AfterPath(r).protEnd > 0
<1>1. PICK m \in Nat \ {0}, p \in Nat \ {0} : m = MethodEnd(r) /\ p = PathEnd(r)
  BY LineOrder
<1>2. r.params # NoText => r.protocol # NoText
  BY LineOrder
<1>3. CASE r.params # NoText
  BY <1>1, <1>2, <1>3 DEF AfterPath, PathBeforeParams, AfterMethod, NewHead
<1>4. CASE r.params = NoText /\ r.protocol # NoText
  BY <1>1, <1>4 DEF AfterPath, PathBeforeProtocol, AfterMethod, NewHead
<1>5. CASE r.params = NoText /\ r.protocol = NoText
  BY <1>1, <1>5 DEF AfterPath, PathAlone, EndLine, AfterMethod, NewHead
<1> QED
  BY <1>3, <1>4, <1>5

LEMMA ParamsFields ==
  ASSUME NEW r, IsRequest(r)
  PROVE  /\ AfterParams(r).methodEnd # 0 /\ AfterParams(r).pathEnd # 0
         /\ AfterParams(r).paramEnd > 0
         /\ r.protocol = NoText => AfterParams(r).protEnd > 0
<1>1. PICK m \in Nat \ {0}, p \in Nat \ {0}, k \in Nat \ {0} :
        m = MethodEnd(r) /\ p = PathEnd(r) /\ k = ParamEnd(r)
  BY LineOrder
<1>2. r.params # NoText => r.protocol # NoText
  BY LineOrder
<1>3. CASE r.params # NoText
  BY <1>1, <1>2, <1>3 DEF AfterParams, PathBeforeParams, AfterMethod, NewHead
<1>4. CASE r.params = NoText
  <2>1. AfterParams(r) = AfterPath(r)
    BY <1>4 DEF AfterParams
  <2> QED
    BY <1>4, <2>1, PathFields
<1> QED
  BY <1>3, <1>4

LEMMA ProtocolToEnd ==
  ASSUME NEW r, IsRequest(r), NEW n, NEW d, Starts(d, Text(r), n), ParamsNeed(r) <= n
  PROVE  Protocol(d, AfterParams(r)) = LineAt(r, n)
<1>1. n \in Nat
  BY Places DEF Starts, PlacesInText
<1>2. LineAt(r, n) = IF n < LineLength(r) THEN AfterParams(r) ELSE AfterLine(r)
  BY <1>1, LineOrder DEF LineAt
<1>3. CASE r.protocol # NoText
  BY <1>1, <1>2, <1>3, LineOrder, ProtocolStep
<1>4. CASE r.protocol = NoText
  <2>1. Protocol(d, AfterParams(r)) = AfterParams(r)
    BY <1>4, ParamsFields, ProtocolSkip
  <2>2. AfterLine(r) = AfterParams(r)
    BY <1>4 DEF AfterLine
  <2> QED
    BY <1>2, <2>1, <2>2
<1> QED
  BY <1>3, <1>4

LEMMA ParamsToEnd ==
  ASSUME NEW r, IsRequest(r), NEW n, NEW d, Starts(d, Text(r), n)
  PROVE  /\ PathNeeds(r) <= n => Protocol(d, Params(d, AfterPath(r))) = LineAt(r, n)
         /\ ParamsNeed(r) <= n => Protocol(d, Params(d, AfterParams(r))) = LineAt(r, n)
<1>1. n \in Nat
  BY Places DEF Starts, PlacesInText
<1>2. ASSUME ParamsNeed(r) <= n
      PROVE  Protocol(d, Params(d, AfterParams(r))) = LineAt(r, n)
  <2>1. Params(d, AfterParams(r)) = AfterParams(r)
    BY ParamsFields, ParamsSkip
  <2> QED
    BY <1>2, <2>1, ProtocolToEnd
<1>3. ASSUME PathNeeds(r) <= n, r.params = NoText
      PROVE  Protocol(d, Params(d, AfterPath(r))) = LineAt(r, n)
  <2>1. ParamsNeed(r) <= n /\ AfterParams(r) = AfterPath(r)
    BY <1>3 DEF ParamsNeed, AfterParams
  <2> QED
    BY <1>2, <2>1
<1>4. ASSUME PathNeeds(r) <= n, r.params # NoText
      PROVE  Protocol(d, Params(d, AfterPath(r))) = LineAt(r, n)
  <2>1. PathEnd(r) < n /\ ParamsNeed(r) = ParamEnd(r) + 1
    BY <1>1, <1>4, LineOrder DEF ParamsNeed
  <2>2. AfterPath(r) = PathBeforeParams(r)
    BY <1>4 DEF AfterPath
  <2>3. Params(d, AfterPath(r)) =
          IF ParamEnd(r) < n THEN AfterParams(r) ELSE AfterPath(r)
    BY <1>4, <2>1, <2>2, ParamsStep
  <2>4. CASE ParamEnd(r) < n
    <3>1. ParamsNeed(r) <= n
      BY <1>1, <2>1, <2>4, LineOrder
    <3> QED
      BY <2>3, <2>4, <3>1, ProtocolToEnd
  <2>5. CASE ~(ParamEnd(r) < n)
    <3>1. Protocol(d, AfterPath(r)) = AfterPath(r)
      BY <1>4, PathFields, ProtocolSkip
    <3>2. LineAt(r, n) = AfterPath(r)
      BY <1>1, <1>4, <2>1, <2>5, LineOrder DEF LineAt
    <3> QED
      BY <2>3, <2>5, <3>1, <3>2
  <2> QED
    BY <2>4, <2>5
<1> QED
  BY <1>2, <1>3, <1>4

LEMMA PathToEnd ==
  ASSUME NEW r, IsRequest(r), NEW n, NEW d, Starts(d, Text(r), n), MethodEnd(r) < n
  PROVE  Protocol(d, Params(d, Path(d, AfterMethod(r)))) = LineAt(r, n)
<1>1. n \in Nat
  BY Places DEF Starts, PlacesInText
<1>2. Path(d, AfterMethod(r)) = IF PathNeeds(r) <= n THEN AfterPath(r) ELSE AfterMethod(r)
  BY PathStep
<1>3. CASE PathNeeds(r) <= n
  BY <1>2, <1>3, ParamsToEnd
<1>4. CASE ~(PathNeeds(r) <= n)
  <2>1. AfterMethod(r).pathEnd = 0 /\ AfterMethod(r).paramEnd = 0
    BY DEF AfterMethod, NewHead
  <2>2. Params(d, AfterMethod(r)) = AfterMethod(r)
    BY <2>1, ParamsSkip
  <2>3. Protocol(d, AfterMethod(r)) = AfterMethod(r)
    BY <2>1, ProtocolSkip
  <2>4. LineAt(r, n) = AfterMethod(r)
    BY <1>1, <1>4, LineOrder DEF LineAt
  <2> QED
    BY <1>2, <1>4, <2>2, <2>3, <2>4
<1> QED
  BY <1>3, <1>4

\* The line may be cut anywhere.
LEMMA LineSteps ==
  ASSUME NEW r, IsRequest(r), NEW n, NEW d, Starts(d, Text(r), n),
         NEW m \in Nat, m <= n, m < LineLength(r)
  PROVE  Line(d, LineAt(r, m)) = LineAt(r, n)
<1>1. n \in Nat
  BY Places DEF Starts, PlacesInText
<1>2. CASE m <= MethodEnd(r)
  <2>1. LineAt(r, m) = NewHead
    BY <1>2 DEF LineAt
  <2>2. Method(d, NewHead) = IF MethodEnd(r) < n THEN AfterMethod(r) ELSE NewHead
    BY MethodStep
  <2>3. CASE MethodEnd(r) < n
    BY <2>1, <2>2, <2>3, PathToEnd DEF Line
  <2>4. CASE ~(MethodEnd(r) < n)
    <3>1. Path(d, NewHead) = NewHead
      BY NewHeadFields, PathSkip
    <3>2. Params(d, NewHead) = NewHead
      BY NewHeadFields, ParamsSkip
    <3>3. Protocol(d, NewHead) = NewHead
      BY NewHeadFields, ProtocolSkip
    <3>4. LineAt(r, n) = NewHead
      BY <1>1, <2>4, LineOrder DEF LineAt
    <3> QED
      BY <2>1, <2>2, <2>4, <3>1, <3>2, <3>3, <3>4 DEF Line
  <2> QED
    BY <2>3, <2>4
<1>3. CASE MethodEnd(r) < m /\ m < PathNeeds(r)
  <2>1. LineAt(r, m) = AfterMethod(r) /\ MethodEnd(r) < n
    BY <1>1, <1>3, LineOrder DEF LineAt
  <2>2. AfterMethod(r).methodEnd # 0
    BY LineOrder DEF AfterMethod, NewHead
  <2>3. Method(d, AfterMethod(r)) = AfterMethod(r)
    BY <2>2, MethodSkip
  <2> QED
    BY <2>1, <2>3, PathToEnd DEF Line
<1>4. CASE PathNeeds(r) <= m /\ m < ParamsNeed(r)
  <2>1. LineAt(r, m) = AfterPath(r) /\ PathNeeds(r) <= n
    BY <1>1, <1>4, LineOrder DEF LineAt
  <2>2. Method(d, AfterPath(r)) = AfterPath(r)
    BY PathFields, MethodSkip
  <2>3. Path(d, AfterPath(r)) = AfterPath(r)
    BY PathFields, PathSkip
  <2> QED
    BY <2>1, <2>2, <2>3, ParamsToEnd DEF Line
<1>5. CASE ParamsNeed(r) <= m
  <2>1. LineAt(r, m) = AfterParams(r) /\ ParamsNeed(r) <= n
    BY <1>1, <1>5, LineOrder DEF LineAt
  <2>2. Method(d, AfterParams(r)) = AfterParams(r)
    BY ParamsFields, MethodSkip
  <2>3. Path(d, AfterParams(r)) = AfterParams(r)
    BY ParamsFields, PathSkip
  <2> QED
    BY <2>1, <2>2, <2>3, ParamsToEnd DEF Line
<1> QED
  BY <1>2, <1>3, <1>4, <1>5, LineOrder

AfterLineFields(r) ==
  LET s == AfterLine(r)
  IN /\ s.line = TRUE /\ s.headers = FALSE /\ s.saved = <<>> /\ s.bodyStart = 0
     /\ s.methodEnd = MethodEnd(r) /\ s.pathEnd = PathEnd(r)
     /\ s.trav = LineLength(r) /\ s.hstart = LineLength(r) /\ s.cur = LineLength(r)
     /\ s.lineEnd = LineLength(r) - 2 /\ s.protEnd = LineLength(r) - 2
     /\ s.paramEnd = ParamEnd(r)
     /\ s.paramStart = IF r.params = NoText THEN PathEnd(r) ELSE PathEnd(r) + 1
     /\ s.protStart = IF r.protocol = NoText THEN ParamEnd(r) ELSE ParamEnd(r) + 1

LEMMA AfterLineIs ==
  ASSUME NEW r, IsRequest(r)
  PROVE  AfterLineFields(r)
<1>1. PICK m \in Nat, p \in Nat, k \in Nat, l \in Nat :
        m = MethodEnd(r) /\ p = PathEnd(r) /\ k = ParamEnd(r) /\ l = LineLength(r)
  BY LineOrder
<1>2. /\ r.params = NoText => k = p
      /\ r.params # NoText => r.protocol # NoText
      /\ r.protocol = NoText => l = k + 2
      /\ r.protocol # NoText => k + 3 <= l
  BY <1>1, LineFacts DEF LineBytes, LineBytesAre
<1>3. l - 1 + 1 = l /\ l - 1 - 1 = l - 2 /\ (r.protocol = NoText => l - 2 = k /\ k + 1 + 1 = l)
      /\ k + 1 - 1 = k
  BY <1>1, <1>2
<1>4. CASE r.params # NoText
  <2>1. AfterLine(r) = EndLine([PathBeforeParams(r) EXCEPT !.paramEnd = k,
                                   !.protStart = k + 1,
                                   !.trav = k + 1], l - 1)
    BY <1>1, <1>2, <1>4 DEF AfterLine, AfterParams
  <2> QED
    BY <1>1, <1>2, <1>3, <1>4, <2>1
       DEF AfterLineFields, EndLine, PathBeforeParams, AfterMethod, NewHead
<1>5. CASE r.params = NoText /\ r.protocol # NoText
  <2>1. AfterLine(r) = EndLine(PathBeforeProtocol(r), l - 1)
    BY <1>1, <1>5 DEF AfterLine, AfterParams, AfterPath
  <2> QED
    BY <1>1, <1>2, <1>3, <1>5, <2>1
       DEF AfterLineFields, EndLine, PathBeforeProtocol, AfterMethod, NewHead
<1>6. CASE r.params = NoText /\ r.protocol = NoText
  <2>1. AfterLine(r) = PathAlone(r)
    BY <1>6 DEF AfterLine, AfterParams, AfterPath
  <2> QED
    BY <1>1, <1>2, <1>3, <1>6, <2>1
       DEF AfterLineFields, EndLine, PathAlone, AfterMethod, NewHead
<1> QED
  BY <1>4, <1>5, <1>6

LEMMA UnfinishedLine ==
  ASSUME NEW r, IsRequest(r), NEW n \in Nat, n < LineLength(r)
  PROVE  /\ LineAt(r, n).line = FALSE /\ LineAt(r, n).headers = FALSE
         /\ LineAt(r, n).saved = <<>> /\ LineAt(r, n).bodyStart = 0
<1>1. CASE n < PathNeeds(r)
  BY <1>1 DEF LineAt, AfterMethod, NewHead
<1>2. CASE ~(n < PathNeeds(r))
  <2>1. r.protocol # NoText /\ MethodEnd(r) < n
    BY <1>2, LineOrder
  <2>2. /\ AfterPath(r).line = FALSE /\ AfterPath(r).headers = FALSE
        /\ AfterPath(r).saved = <<>> /\ AfterPath(r).bodyStart = 0
    BY <2>1 DEF AfterPath, PathBeforeParams, PathBeforeProtocol, AfterMethod, NewHead
  <2>3. /\ AfterParams(r).line = FALSE /\ AfterParams(r).headers = FALSE
        /\ AfterParams(r).saved = <<>> /\ AfterParams(r).bodyStart = 0
    BY <2>2 DEF AfterParams, PathBeforeParams, AfterMethod, NewHead
  <2>4. LineAt(r, n) = AfterPath(r) \/ LineAt(r, n) = AfterParams(r)
    BY <1>2, <2>1, LineOrder DEF LineAt
  <2> QED
    BY <2>2, <2>3, <2>4
<1> QED
  BY <1>1, <1>2, Zenon

-----------------------------------------------------------------------------
(* The headers                                                             *)

\* The loop of prepareRequestHeaders over the bytes c .. n-1, from the state z.
HeaderRun(k, d, a, c, n, z) ==
  k = [i \in c .. n |-> IF i = c THEN z ELSE HeaderByte(d, a, k[i - 1], i - 1)]

LEMMA HeaderRunExists ==
  ASSUME NEW d, NEW a, NEW c \in Int, NEW n \in Int, c <= n, NEW z
  PROVE  \E k : HeaderRun(k, d, a, c, n, z)
<1> DEFINE S == {j \in c .. n : \E k : HeaderRun(k, d, a, c, j, z)}
<1>1. c \in S
  <2> DEFINE k == [i \in c .. c |-> z]
  <2>1. k = [i \in c .. c |-> IF i = c THEN z ELSE HeaderByte(d, a, k[i - 1], i - 1)]
    OBVIOUS
  <2> HIDE DEF k
  <2>2. HeaderRun(k, d, a, c, c, z)
    BY <2>1 DEF HeaderRun
  <2> QED
    BY <2>2
<1>2. ASSUME NEW j \in c .. n - 1, j \in S PROVE j + 1 \in S
  <2>1. PICK k : HeaderRun(k, d, a, c, j, z)
    BY <1>2
  <2>2. \A i \in c .. j : k[i] = IF i = c THEN z ELSE HeaderByte(d, a, k[i - 1], i - 1)
    BY <2>1, Zenon DEF HeaderRun
  <2> DEFINE g == [i \in c .. j + 1 |->
                     IF i = j + 1 THEN HeaderByte(d, a, k[j], j) ELSE k[i]]
  <2>3. \A i \in c .. j : g[i] = k[i]
    OBVIOUS
  <2>4. g[j + 1] = HeaderByte(d, a, k[j], j)
    OBVIOUS
  <2>5. g = [i \in c .. j + 1 |-> g[i]]
    OBVIOUS
  <2> HIDE DEF g
  <2>6. ASSUME NEW i \in c .. j + 1
        PROVE  g[i] = IF i = c THEN z ELSE HeaderByte(d, a, g[i - 1], i - 1)
    <3>1. CASE i = j + 1
      <4>1. i - 1 = j /\ j \in c .. j /\ i # c
        BY <3>1
      <4> QED
        BY <2>3, <2>4, <3>1, <4>1
    <3>2. CASE i \in c .. j
      <4>1. i # c => i - 1 \in c .. j
        BY <3>2
      <4> QED
        BY <2>2, <2>3, <3>2, <4>1
    <3> QED
      BY <3>1, <3>2
  <2>7. HeaderRun(g, d, a, c, j + 1, z)
    BY <2>5, <2>6, Zenon DEF HeaderRun
  <2> QED
    BY <2>7
<1> HIDE DEF S
<1>3. \A j \in c .. n : j \in S
  BY <1>1, <1>2, Induction
<1>4. n \in S
  BY <1>3
<1> QED
  BY <1>4 DEF S

FreshState(s) == [ks |-> 0, ke |-> 0, vs |-> 0, end |-> 0, cur |-> s.cur, saved |-> s.saved]

LEMMA HeaderLoopIs ==
  ASSUME NEW d, NEW s, s.cur \in Nat, Len(d) \in Nat, s.cur <= Len(d)
  PROVE  /\ HeaderLoop(d, s)[s.cur] = FreshState(s)
         /\ \A i \in s.cur .. Len(d) - 1 :
              HeaderLoop(d, s)[i + 1] = HeaderByte(d, s.hstart, HeaderLoop(d, s)[i], i)
<1>1. PICK a, z : a = s.hstart /\ z = FreshState(s)
  OBVIOUS
<1>2. PICK c \in Nat, n \in Nat : c = s.cur /\ n = Len(d)
  OBVIOUS
<1>3. a = s.hstart /\ c = s.cur /\ n = Len(d) /\ z = FreshState(s) /\ c <= n
  BY <1>1, <1>2
<1>4. c \in Int /\ n \in Int
  BY <1>2
<1>5. HeaderLoop(d, s) = CHOOSE k : HeaderRun(k, d, a, c, n, z)
  BY <1>3, Zenon DEF HeaderLoop, HeaderRun, FreshState
<1>6. \E k : HeaderRun(k, d, a, c, n, z)
  BY <1>3, <1>4, HeaderRunExists
<1>7. PICK k : k = HeaderLoop(d, s) /\ HeaderRun(k, d, a, c, n, z)
  BY <1>5, <1>6, Zenon
<1>8. \A i \in c .. n : k[i] = IF i = c THEN z ELSE HeaderByte(d, a, k[i - 1], i - 1)
  BY <1>7, Zenon DEF HeaderRun
<1>9. k[c] = z
  <2>1. c \in c .. n
    BY <1>3
  <2> QED
    BY <1>8, <2>1
<1>10. ASSUME NEW i \in c .. n - 1 PROVE k[i + 1] = HeaderByte(d, a, k[i], i)
  <2>1. i + 1 \in c .. n /\ i + 1 # c /\ i + 1 - 1 = i
    OBVIOUS
  <2> QED
    BY <1>8, <2>1
<1> QED
  BY <1>3, <1>7, <1>9, <1>10

\* What the byte y does behind the byte lc.
HeaderByteGives(d, a, k, i, lc, y, ks, vs, ke) ==
  /\ (y = "LF" /\ lc = "CR" /\ At(d, i - 2) = "LF") =>
       HeaderByte(d, a, k, i) = [k EXCEPT !.end = i]
  /\ ~(y = "LF" /\ lc = "CR" /\ At(d, i - 2) = "LF") /\ k.ke = 0 /\ y = ":" =>
       HeaderByte(d, a, k, i) = [k EXCEPT !.ks = ks, !.ke = i]
  /\ lc = "LF" /\ y # "SP" /\ y # ":" =>
       HeaderByte(d, a, k, i) =
         [k EXCEPT !.ks = 0, !.ke = 0, !.vs = 0, !.cur = i,
            !.saved = IF ks < ke
                      THEN Append(@, Saved(d, ks, ke,
                             IF k.ke = 0 THEN i - 2 ELSE vs, i - 2))
                      ELSE @]
  /\ (/\ ~(y = "LF" /\ lc = "CR" /\ At(d, i - 2) = "LF")
      /\ ~(k.ke = 0 /\ y = ":") /\ (lc = "LF" => y = "SP")) =>
       HeaderByte(d, a, k, i) = [k EXCEPT !.ks = ks, !.vs = vs]

LEMMA HeaderByteIs ==
  ASSUME NEW d, NEW a, NEW k, NEW i, i > a, k.end = 0,
         NEW lc, lc = At(d, i - 1), NEW y, y = At(d, i),
         NEW ks, ks = (IF k.ks # 0 THEN k.ks ELSE IF lc = "NUL" THEN i ELSE i - 1),
         NEW vs, vs = (IF k.ke > 0 /\ k.vs = 0 THEN i ELSE k.vs),
         NEW ke, ke = (IF k.ke = 0 THEN i - 2 ELSE k.ke)
  PROVE  HeaderByteGives(d, a, k, i, lc, y, ks, vs, ke)
<1>1. (IF i > a THEN At(d, i - 1) ELSE "NUL") = lc
  OBVIOUS
<1> QED
  BY <1>1 DEF HeaderByte, HeaderByteGives

\* The bytes of a header x: its name in b .. c-1, what stands between in c .. v-1,
\* its value in v .. e-3, and the end of the line.
HeaderBytesAre(t, x, b, c, v, e) ==
  /\ b \in Nat /\ c \in Nat /\ v \in Nat /\ e \in Nat /\ e <= Len(t)
  /\ b < c /\ c <= v /\ v + 2 <= e
  /\ At(t, b) \notin {"SP", "NUL"}
  /\ \A i \in b .. c - 1 : At(t, i) \notin {":", "LF"}
  /\ x.sep = <<>> => v = c /\ e = v + 2
  /\ x.sep # <<>> => c < v /\ At(t, c) = ":"
  /\ \A i \in c + 1 .. v - 1 : At(t, i) = "SP"
  /\ v + 2 = e <=> x.value = <<>>
  /\ v + 2 < e => At(t, v) \notin {"SP", "CR", "LF"}
  /\ \A i \in v .. e - 3 : At(t, i) = "LF" => i + 1 <= e - 3 /\ At(t, i + 1) = "SP"
  /\ At(t, e - 2) = "CR" /\ At(t, e - 1) = "LF"
  /\ Sub(t, b, c) = x.key /\ Sub(t, v, e - 2) = x.value
  /\ x.sep # <<>> => Sub(t, c + 1, v) = Blanks(x.sep)

LEMMA HeaderBytes ==
  ASSUME NEW x, IsHeader(x), NEW t \in Texts, NEW b \in Nat,
         Occurs(HeaderText(x), t, b)
  PROVE  HeaderBytesAre(t, x, b, b + Len(x.key), b + Len(x.key) + Len(x.sep),
                        b + Len(HeaderText(x)))
<1>1. PICK key \in Texts, sep \in Texts, value \in Texts :
        key = x.key /\ sep = x.sep /\ value = x.value
  BY HeaderTextType
<1>2. PICK k \in Nat, s \in Nat, w \in Nat : k = Len(key) /\ s = Len(sep) /\ w = Len(value)
  BY TextFacts
<1>3. PICK f \in Texts : f = CRLF /\ Len(f) = 2 /\ f[1] = "CR" /\ f[2] = "LF"
  BY CRLFText
<1>4. PICK u1 \in Texts : u1 = key \o sep /\ Len(u1) = k + s
  BY <1>2, JoinedType
<1>5. PICK u2 \in Texts : u2 = u1 \o value /\ Len(u2) = k + s + w
  <2>1. u1 \o value \in Texts /\ Len(u1 \o value) = Len(u1) + Len(value)
    BY JoinedType
  <2> QED
    BY <1>2, <1>4, <2>1
<1>6. HeaderText(x) = u2 \o f /\ Len(HeaderText(x)) = k + s + w + 2
  <2>1. HeaderText(x) = u2 \o f
    BY <1>1, <1>3, <1>4, <1>5 DEF HeaderText
  <2>2. Len(u2 \o f) = Len(u2) + Len(f)
    BY JoinedType
  <2> QED
    BY <1>2, <1>3, <1>5, <2>1, <2>2
<1>7. PICK c \in Nat, v \in Nat, z \in Nat, e \in Nat :
        c = b + k /\ v = c + s /\ z = v + w /\ e = z + 2
  OBVIOUS
<1>8. PICK n \in Nat : n = Len(t) /\ \A i \in 1 .. n : t[i] \in Bytes
  BY TextFacts
<1>9. /\ Occurs(key, t, b) /\ Occurs(sep, t, c) /\ Occurs(value, t, v) /\ Occurs(f, t, z)
      /\ e <= n
  <2>1. Occurs(u2 \o f, t, b)
    BY <1>6
  <2>2. Occurs(u2, t, b) /\ Occurs(f, t, b + Len(u2))
    BY <1>8, <2>1, OccursJoined
  <2>3. Occurs(u1 \o value, t, b)
    BY <1>5, <2>2
  <2>4. Occurs(u1, t, b) /\ Occurs(value, t, b + Len(u1))
    BY <1>8, <2>3, OccursJoined
  <2>5. Occurs(key \o sep, t, b)
    BY <1>4, <2>4
  <2>6. Occurs(key, t, b) /\ Occurs(sep, t, b + Len(key))
    BY <1>8, <2>5, OccursJoined
  <2>7. b + Len(u2) = z /\ b + Len(u1) = v /\ b + Len(key) = c
    BY <1>2, <1>4, <1>5, <1>7
  <2>8. e <= n
    BY <1>3, <1>7, <1>8, <2>2, <2>7 DEF Occurs
  <2> QED
    BY <2>2, <2>4, <2>6, <2>7, <2>8
<1>10. /\ \A i \in b .. c - 1 : At(t, i) = key[i - b + 1]
       /\ \A i \in c .. v - 1 : At(t, i) = sep[i - c + 1]
       /\ \A i \in v .. z - 1 : At(t, i) = value[i - v + 1]
       /\ \A i \in z .. z + 2 - 1 : At(t, i) = f[i - z + 1]
  <2>1. \A i \in b .. b + Len(key) - 1 : At(t, i) = key[i - b + 1]
    BY <1>2, <1>9, OccursAt
  <2>2. \A i \in c .. c + Len(sep) - 1 : At(t, i) = sep[i - c + 1]
    BY <1>2, <1>9, OccursAt
  <2>3. \A i \in v .. v + Len(value) - 1 : At(t, i) = value[i - v + 1]
    BY <1>2, <1>9, OccursAt
  <2>4. Len(f) \in Nat
    BY TextFacts
  <2>5. \A i \in z .. z + Len(f) - 1 : At(t, i) = f[i - z + 1]
    BY <1>9, <2>4, OccursAt
  <2>6. b + Len(key) = c /\ c + Len(sep) = v /\ v + Len(value) = z
    BY <1>2, <1>7
  <2> QED
    BY <1>3, <2>1, <2>2, <2>3, <2>5, <2>6
<1>11. b < c /\ At(t, b) \notin {"SP", "NUL"}
       /\ \A i \in b .. c - 1 : At(t, i) \notin {":", "LF"}
  <2>1. key # <<>> /\ key[1] \notin {"SP", "NUL"}
        /\ \A i \in DOMAIN key : key[i] \notin {":", "LF"}
    BY <1>1 DEF IsHeader
  <2>2. DOMAIN key = 1 .. k
    BY <1>2, LenProperties DEF Texts
  <2>3. k # 0
    BY <1>2, <2>1, TextFacts
  <2>4. b < c /\ b \in b .. c - 1 /\ b - b + 1 = 1
    BY <1>7, <2>3
  <2>5. At(t, b) = key[1]
    BY <1>10, <2>4
  <2>6. \A i \in b .. c - 1 : i - b + 1 \in 1 .. k
    BY <1>7
  <2> QED
    BY <1>10, <2>1, <2>2, <2>4, <2>5, <2>6
<1>12. x.sep # <<>> => /\ c < v /\ At(t, c) = ":"
                       /\ Sub(t, c + 1, v) = Blanks(x.sep)
  <2>1. SUFFICES ASSUME x.sep # <<>> PROVE /\ c < v /\ At(t, c) = ":"
                                           /\ Sub(t, c + 1, v) = Blanks(x.sep)
    OBVIOUS
  <2>2. s # 0 /\ sep # <<>>
    BY <1>1, <1>2, <2>1, TextFacts
  <2>3. sep[1] = ":"
    BY <1>1, <2>1 DEF IsHeader, IsSeparator
  <2>4. c < v /\ c \in c .. v - 1 /\ c - c + 1 = 1
    BY <1>7, <2>2
  <2>5. At(t, c) = sep[1]
    BY <1>10, <2>4
  <2>6. Sub(t, c + 1, v) = Tail(sep)
    <3>1. PICK tl : tl = Tail(sep)
      OBVIOUS
    <3>2. tl \in Texts /\ Len(tl) = s - 1 /\ \A i \in 1 .. s - 1 : tl[i] = sep[i + 1]
      BY <1>2, <2>2, <3>1, HeadTailProperties DEF Texts
    <3>3. Occurs(tl, t, c + 1)
      <4>1. c + s <= Len(t) /\ \A i \in 1 .. s : t[c + i] = sep[i]
        BY <1>2, <1>9 DEF Occurs
      <4>2. \A i \in 1 .. s - 1 : i + 1 \in 1 .. s /\ c + 1 + i = c + (i + 1)
        OBVIOUS
      <4>3. \A i \in 1 .. s - 1 : t[c + 1 + i] = tl[i]
        BY <3>2, <4>1, <4>2
      <4>4. c + 1 + (s - 1) <= Len(t)
        BY <1>8, <4>1
      <4> QED
        BY <3>2, <4>3, <4>4 DEF Occurs
    <3>4. c + 1 \in Nat
      OBVIOUS
    <3>5. Sub(t, c + 1, c + 1 + Len(tl)) = tl
      BY <3>2, <3>3, <3>4, OccursSub
    <3>6. c + 1 + Len(tl) = v
      BY <1>7, <3>2
    <3> QED
      BY <3>1, <3>5, <3>6
  <2>7. Blanks(x.sep) = Tail(sep)
    BY <1>1, <2>1 DEF Blanks
  <2> QED
    BY <2>3, <2>4, <2>5, <2>6, <2>7
<1>13. \A i \in c + 1 .. v - 1 : At(t, i) = "SP"
  <2>1. SUFFICES ASSUME NEW i \in c + 1 .. v - 1 PROVE At(t, i) = "SP"
    OBVIOUS
  <2>2. s # 0 /\ sep # <<>>
    <3>1. s # 0
      BY <1>7
    <3> QED
      BY <1>2, <3>1, TextFacts
  <2>3. \A j \in DOMAIN Tail(sep) : Tail(sep)[j] = "SP"
    BY <1>1, <2>2 DEF IsHeader, IsSeparator, Blanks
  <2>4. PICK tl : tl = Tail(sep)
    OBVIOUS
  <2>5. tl \in Texts /\ Len(tl) = s - 1 /\ \A j \in 1 .. s - 1 : tl[j] = sep[j + 1]
    BY <1>2, <2>2, <2>4, HeadTailProperties DEF Texts
  <2>6. DOMAIN tl = 1 .. s - 1
    BY <2>5, LenProperties DEF Texts
  <2>7. i - c \in 1 .. s - 1 /\ i \in c .. v - 1
    BY <1>7
  <2>8. tl[i - c] = "SP" /\ tl[i - c] = sep[i - c + 1]
    BY <2>3, <2>4, <2>5, <2>6, <2>7
  <2> QED
    BY <1>10, <2>7, <2>8
<1>14. v + 2 = e <=> x.value = <<>>
  <2>1. value = <<>> <=> w = 0
    BY <1>2, TextFacts
  <2>2. v + 2 = e <=> w = 0
    BY <1>7
  <2> QED
    BY <1>1, <2>1, <2>2
<1>15. x.sep = <<>> => v = c /\ e = v + 2
  <2>1. SUFFICES ASSUME x.sep = <<>> PROVE v = c /\ e = v + 2
    OBVIOUS
  <2>2. s = 0
    BY <1>1, <1>2, <2>1, TextFacts
  <2>3. x.value = <<>>
    BY <2>1 DEF IsHeader
  <2> QED
    BY <1>7, <1>14, <2>2, <2>3
<1>16. DOMAIN value = 1 .. w
  BY <1>2, LenProperties DEF Texts
<1>17. v + 2 < e => At(t, v) \notin {"SP", "CR", "LF"}
  <2>1. SUFFICES ASSUME v + 2 < e PROVE At(t, v) \notin {"SP", "CR", "LF"}
    OBVIOUS
  <2>2. v \in v .. z - 1 /\ v - v + 1 = 1 /\ x.value # <<>>
    BY <1>7, <1>14, <2>1
  <2>3. value[1] \notin {"SP", "CR", "LF"}
    BY <1>1, <2>2 DEF IsHeader
  <2> QED
    BY <1>10, <2>2, <2>3
<1>18. \A i \in v .. e - 3 : At(t, i) = "LF" => i + 1 <= e - 3 /\ At(t, i + 1) = "SP"
  <2>1. SUFFICES ASSUME NEW i \in v .. e - 3, At(t, i) = "LF"
                 PROVE  i + 1 <= e - 3 /\ At(t, i + 1) = "SP"
    OBVIOUS
  <2>2. i \in v .. z - 1 /\ i - v + 1 \in 1 .. w
    BY <1>7
  <2>3. PICK j \in 1 .. w : j = i - v + 1
    BY <2>2
  <2>4. value[j] = "LF"
    BY <1>10, <2>1, <2>2, <2>3
  <2>5. j < Len(value) /\ value[j + 1] = "SP"
    BY <1>1, <1>16, <2>4 DEF IsHeader
  <2>6. i + 1 <= e - 3 /\ i + 1 \in v .. z - 1 /\ i + 1 - v + 1 = j + 1
    <3>1. j + 1 <= w
      BY <1>2, <2>3, <2>5
    <3> QED
      BY <1>7, <2>3, <3>1
  <2>7. At(t, i + 1) = value[j + 1]
    BY <1>10, <2>6
  <2> QED
    BY <2>5, <2>6, <2>7
<1>19. At(t, e - 2) = "CR" /\ At(t, e - 1) = "LF"
  <2>1. /\ e - 2 \in z .. z + 2 - 1 /\ e - 2 - z + 1 = 1
        /\ e - 1 \in z .. z + 2 - 1 /\ e - 1 - z + 1 = 2
    BY <1>7
  <2>2. At(t, e - 2) = f[1] /\ At(t, e - 1) = f[2]
    BY <1>10, <2>1
  <2> QED
    BY <1>3, <2>2
<1>20. Sub(t, b, c) = x.key /\ Sub(t, v, e - 2) = x.value
  <2>1. Sub(t, b, b + Len(key)) = key /\ Sub(t, v, v + Len(value)) = value
    BY <1>9, OccursSub
  <2>2. b + Len(key) = c /\ v + Len(value) = e - 2
    BY <1>2, <1>7
  <2> QED
    BY <1>1, <2>1, <2>2
<1>21. b < c /\ c <= v /\ v + 2 <= e
  BY <1>7, <1>11
<1>22. HeaderBytesAre(t, x, b, c, v, e)
  BY <1>8, <1>9, <1>11, <1>12, <1>13, <1>14, <1>15, <1>17, <1>18, <1>19, <1>20, <1>21
     DEF HeaderBytesAre
<1>23. /\ b + Len(x.key) = c /\ b + Len(x.key) + Len(x.sep) = v
       /\ b + Len(HeaderText(x)) = e
  <2>1. Len(x.key) = k /\ Len(x.sep) = s
    BY <1>1, <1>2
  <2> QED
    BY <1>6, <1>7, <2>1
<1> QED
  BY <1>22, <1>23

LEMMA SubStarts ==
  ASSUME NEW t \in Texts, NEW d \in Texts, NEW n, Starts(d, t, n),
         NEW a \in Nat, NEW b \in Nat, b <= n
  PROVE  Sub(d, a, b) = Sub(t, a, b)
<1>1. Len(t) \in Nat /\ \A i \in 1 .. Len(t) : t[i] \in Bytes
  BY TextFacts
<1>2. n \in Nat /\ n <= Len(t) /\ Len(d) = n /\ \A i \in 0 .. n - 1 : d[i + 1] = t[i + 1]
  BY <1>1 DEF Starts, At
<1>3. \A i \in 1 .. n : d[i] \in Bytes
  BY <1>2, TextFacts
<1>4. ASSUME NEW i \in 1 .. n PROVE d[i] = t[i]
  <2>1. i - 1 \in 0 .. n - 1 /\ i - 1 + 1 = i
    BY <1>2
  <2> QED
    BY <1>2, <2>1
<1>5. a + 1 \in Int /\ b \in Int
      /\ (\A i \in a + 1 .. b : d[i] \in Bytes) /\ (\A i \in a + 1 .. b : t[i] \in Bytes)
  BY <1>1, <1>2, <1>3
<1>6. PICK u, w : u = SubSeq(d, a + 1, b) /\ w = SubSeq(t, a + 1, b)
  OBVIOUS
<1>7. /\ u \in Seq(Bytes)
      /\ Len(u) = IF a + 1 <= b THEN b - (a + 1) + 1 ELSE 0
      /\ \A i \in 1 .. b - (a + 1) + 1 : u[i] = d[a + 1 + i - 1]
  BY <1>5, <1>6, SubSeqProperties
<1>8. /\ w \in Seq(Bytes)
      /\ Len(w) = IF a + 1 <= b THEN b - (a + 1) + 1 ELSE 0
      /\ \A i \in 1 .. b - (a + 1) + 1 : w[i] = t[a + 1 + i - 1]
  BY <1>5, <1>6, SubSeqProperties
<1>9. \A i \in 1 .. Len(u) : u[i] = w[i]
  <2>1. TAKE i \in 1 .. Len(u)
  <2>2. a + 1 + i - 1 \in 1 .. n /\ i \in 1 .. b - (a + 1) + 1
    BY <1>2, <1>7
  <2> QED
    BY <1>4, <1>7, <1>8, <2>2
<1>10. u = w
  BY <1>7, <1>8, <1>9, SeqEqual
<1> QED
  BY <1>6, <1>10 DEF Sub

LEMMA SubEmpty ==
  ASSUME NEW d, NEW a \in Int
  PROVE  Sub(d, a, a) = <<>>
<1>1. a + 1 \in Int /\ a < a + 1
  OBVIOUS
<1> QED
  BY <1>1, SubSeqEmpty DEF Sub

\* What of a header is saved.
SavedHeader(x) ==
  [key |-> x.key, value |-> IF x.value = <<>> THEN Blanks(x.sep) ELSE x.value]

LEMMA SavedIs ==
  ASSUME NEW t \in Texts, NEW d \in Texts, NEW n, Starts(d, t, n),
         NEW x, NEW b, NEW c, NEW v, NEW e, HeaderBytesAre(t, x, b, c, v, e), e <= n
  PROVE  Saved(d, b, c, IF x.sep = <<>> THEN e - 2 ELSE c + 1, e - 2) = SavedHeader(x)
<1>1. /\ b \in Nat /\ c \in Nat /\ v \in Nat /\ e \in Nat /\ n \in Nat
      /\ b < c /\ c <= v /\ v + 2 <= e
  BY TextFacts DEF HeaderBytesAre, Starts
<1>2. \A i \in 0 .. n - 1 : At(d, i) = At(t, i)
  BY DEF Starts
<1>3. Sub(d, b, c) = x.key
  <2>1. Sub(t, b, c) = x.key /\ c <= n
    BY <1>1 DEF HeaderBytesAre
  <2> QED
    BY <1>1, <2>1, SubStarts
<1>4. PICK z \in Nat : z = e - 2 /\ z <= n
  BY <1>1
<1>5. CASE x.sep = <<>>
  <2> DEFINE text == {k \in z .. z - 1 : At(d, k) \notin {"SP", "CR", "LF"}}
  <2>1. text = {}
    OBVIOUS
  <2> HIDE DEF text
  <2>2. Saved(d, b, c, z, z) = [key |-> Sub(d, b, c), value |-> Sub(d, z, z)]
    <3>1. (IF text = {} THEN z ELSE CHOOSE k \in text : \A l \in text : k <= l) = z
      BY <2>1
    <3> QED
      BY <3>1 DEF Saved, text
  <2>3. Sub(d, z, z) = <<>>
    BY SubEmpty
  <2>4. x.value = <<>> /\ Blanks(x.sep) = <<>>
    BY <1>1, <1>5 DEF HeaderBytesAre, Blanks
  <2> QED
    BY <1>3, <1>4, <1>5, <2>2, <2>3, <2>4 DEF SavedHeader
<1>6. CASE x.sep # <<>>
  <2> DEFINE text == {k \in c + 1 .. z - 1 : At(d, k) \notin {"SP", "CR", "LF"}}
             from == IF text = {} THEN c + 1 ELSE CHOOSE k \in text : \A l \in text : k <= l
  <2>1. Saved(d, b, c, c + 1, z) = [key |-> Sub(d, b, c), value |-> Sub(d, from, z)]
    BY DEF Saved
  <2>2. c < v
    BY <1>6 DEF HeaderBytesAre
  <2>3. \A k \in c + 1 .. v - 1 : At(d, k) = "SP"
    BY <1>1, <1>2, <1>4 DEF HeaderBytesAre
  <2>4. CASE x.value = <<>>
    <3>1. v = z
      BY <1>1, <1>4, <2>4 DEF HeaderBytesAre
    <3>2. text = {}
      BY <2>3, <3>1
    <3>3. from = c + 1
      BY <3>2
    <3>4. Sub(t, c + 1, v) = Blanks(x.sep)
      BY <1>6 DEF HeaderBytesAre
    <3>5. Sub(d, c + 1, z) = Blanks(x.sep)
      <4>1. c + 1 \in Nat
        BY <1>1
      <4> QED
        BY <1>4, <3>1, <3>4, <4>1, SubStarts
    <3> HIDE DEF from, text
    <3> QED
      BY <1>3, <1>4, <1>6, <2>1, <2>4, <3>3, <3>5 DEF SavedHeader
  <2>5. CASE x.value # <<>>
    <3>1. v < z /\ At(t, v) \notin {"SP", "CR", "LF"}
      BY <1>1, <1>4, <2>5 DEF HeaderBytesAre
    <3>2. v \in text
      BY <1>1, <1>2, <1>4, <2>2, <3>1
    <3>3. \A k \in text : v <= k
      <4>1. TAKE k \in text
      <4>2. k \notin c + 1 .. v - 1
        BY <2>3
      <4> QED
        BY <1>1, <4>2
    <3>4. text \subseteq Int
      BY <1>1, <1>4
    <3> HIDE DEF text
    <3>5. from = v
      <4>1. \A k \in text : (\A l \in text : k <= l) => k = v
        BY <1>1, <3>2, <3>3, <3>4
      <4>2. (CHOOSE k \in text : \A l \in text : k <= l) = v
        BY <3>2, <3>3, <4>1
      <4> QED
        BY <3>2, <4>2
    <3> HIDE DEF from
    <3>6. Sub(d, v, z) = x.value
      <4>1. Sub(t, v, z) = x.value
        BY <1>4 DEF HeaderBytesAre
      <4> QED
        BY <1>1, <1>4, <4>1, SubStarts
    <3> QED
      BY <1>3, <1>4, <1>6, <2>1, <2>5, <3>5, <3>6 DEF SavedHeader
  <2> QED
    BY <2>4, <2>5
<1> QED
  BY <1>5, <1>6

\* Header m of r, counted from 0, and what is saved of the headers before it.
KeyEnd(r, m) == HeaderStart(r, m) + Len(r.headers[m + 1].key)
ValueStart(r, m) == KeyEnd(r, m) + Len(r.headers[m + 1].sep)
SavedUpTo(r, m) == [i \in 1 .. m |-> SavedHeader(r.headers[i])]

HeaderAt(r, m) ==
  HeaderBytesAre(Text(r), r.headers[m + 1], HeaderStart(r, m), KeyEnd(r, m),
                 ValueStart(r, m), HeaderStart(r, m + 1))

LEMMA HeaderIsAt ==
  ASSUME NEW r, IsRequest(r), NEW m \in 0 .. Len(r.headers) - 1
  PROVE  HeaderAt(r, m)
<1>1. PICK i : i = m + 1 /\ i \in 1 .. Len(r.headers) /\ i - 1 = m
  <2>1. Len(r.headers) \in Nat
    BY HeaderTextsType
  <2> QED
    BY <2>1
<1>2. PICK x : x = r.headers[i] /\ IsHeader(x)
  BY <1>1, HeaderTextsType
<1>3. PICK t \in Texts : t = Text(r) /\ PlacesInText(r) /\ HeadersOccur(r)
  BY Places
<1>4. Occurs(HeaderText(x), t, HeaderStart(r, m))
  BY <1>1, <1>2, <1>3 DEF HeadersOccur
<1>5. PICK b \in Nat : b = HeaderStart(r, m) /\ HeaderStart(r, i) = b + Len(HeaderText(x))
  <2>1. m \in 0 .. Len(r.headers)
    BY <1>1
  <2>2. HeaderStart(r, m) \in Nat
    BY <1>3, <2>1 DEF PlacesInText
  <2>3. HeaderStart(r, i) = HeaderStart(r, i - 1) + Len(HeaderText(x))
    BY <1>1, <1>2, <1>3 DEF PlacesInText
  <2> QED
    BY <1>1, <2>2, <2>3
<1>6. HeaderBytesAre(t, x, b, b + Len(x.key), b + Len(x.key) + Len(x.sep),
                     b + Len(HeaderText(x)))
  BY <1>2, <1>4, <1>5, HeaderBytes
<1> QED
  BY <1>1, <1>2, <1>3, <1>5, <1>6 DEF HeaderAt, KeyEnd, ValueStart

\* Where headers meet: a LF in front, and behind it no blank, ":" or LF.
MeetAt(t, i) ==
  /\ i \in Nat /\ i >= 2 /\ i + 2 <= Len(t)
  /\ At(t, i - 1) = "LF" /\ At(t, i) \notin {"SP", ":", "LF"}

LEMMA HeadersMeet ==
  ASSUME NEW r, IsRequest(r), NEW m \in 0 .. Len(r.headers)
  PROVE  MeetAt(Text(r), HeaderStart(r, m))
<1>1. PICK h \in Nat : h = Len(r.headers)
  BY HeaderTextsType
<1>2. PICK t \in Texts : t = Text(r) /\ PlacesInText(r) /\ HeadersOccur(r)
  BY Places
<1>3. PICK l \in Nat : l = Len(t)
  BY <1>2, TextFacts
<1>4. PICK s \in Nat : s = HeaderStart(r, m)
  BY <1>2 DEF PlacesInText
<1>5. At(t, s - 1) = "LF" /\ s >= 2
  <2>1. CASE m = 0
    <3>1. s = LineLength(r)
      BY <1>2, <1>4, <2>1 DEF PlacesInText
    <3>2. LineBytes(r)
      BY LineFacts
    <3>3. At(t, s - 1) = "LF"
      BY <1>2, <3>1, <3>2 DEF LineBytes, LineBytesAre
    <3>4. ParamEnd(r) + 2 <= LineLength(r) /\ ParamEnd(r) \in Nat
      BY LineOrder
    <3> QED
      BY <3>1, <3>3, <3>4
  <2>2. CASE m # 0
    <3>1. PICK j \in 0 .. h - 1 : j = m - 1 /\ m = j + 1
      BY <1>1, <2>2
    <3>2. HeaderAt(r, j)
      BY <1>1, HeaderIsAt
    <3>3. PICK x, b, c, v : HeaderBytesAre(t, x, b, c, v, s)
      BY <1>2, <1>4, <3>1, <3>2 DEF HeaderAt
    <3> QED
      BY <3>3 DEF HeaderBytesAre
  <2> QED
    BY <2>1, <2>2
<1>6. CASE m = h
  <2>1. Occurs(CRLF, t, s)
    BY <1>1, <1>2, <1>4, <1>6 DEF HeadersOccur
  <2>2. s + 2 <= l /\ t[s + 1] = "CR"
    BY <1>3, <2>1, CRLFText DEF Occurs
  <2>3. At(t, s) = "CR"
    BY <2>2 DEF At
  <2> QED
    BY <1>2, <1>3, <1>4, <1>5, <2>2, <2>3 DEF MeetAt
<1>7. CASE m # h
  <2>1. m \in 0 .. h - 1
    BY <1>1, <1>7
  <2>2. HeaderAt(r, m)
    BY <1>1, <2>1, HeaderIsAt
  <2>3. PICK x, c, v, e : HeaderBytesAre(t, x, s, c, v, e)
    BY <1>2, <1>4, <2>2 DEF HeaderAt
  <2>4. s + 2 <= l
    BY <1>3, <2>3 DEF HeaderBytesAre
  <2>5. s \in s .. c - 1
    BY <2>3 DEF HeaderBytesAre
  <2>6. At(t, s) \notin {"SP", "NUL"} /\ At(t, s) \notin {":", "LF"}
    BY <2>3, <2>5 DEF HeaderBytesAre
  <2> QED
    BY <1>2, <1>3, <1>4, <1>5, <2>4, <2>6 DEF MeetAt
<1> QED
  BY <1>6, <1>7

\* The state of the loop before byte i of a header that begins at b, with a the
\* beginning of all headers; and behind the first byte of a line at b.
KeyFrom(a, b, i) == IF b # a /\ i = b + 1 THEN 0 ELSE b
InHeader(a, b, c, sep, saved, i) ==
  [ks  |-> KeyFrom(a, b, i),
   ke  |-> IF sep # <<>> /\ i > c THEN c ELSE 0,
   vs  |-> IF sep # <<>> /\ i > c + 1 THEN c + 1 ELSE 0,
   end |-> 0, cur |-> b, saved |-> saved]
Begun(a, b, saved) ==
  [ks |-> KeyFrom(a, b, b + 1), ke |-> 0, vs |-> 0, end |-> 0, cur |-> b, saved |-> saved]
Fresh(b, saved) ==
  [ks |-> 0, ke |-> 0, vs |-> 0, end |-> 0, cur |-> b, saved |-> saved]

\* Byte i stands in the header at b, behind its first byte.
InsideHeader(d, t, n, x, b, c, v, e, a, i) ==
  /\ n \in Nat /\ Starts(d, t, n) /\ HeaderBytesAre(t, x, b, c, v, e)
  /\ a \in Nat /\ 1 <= a /\ a <= b /\ i \in Nat /\ b < i /\ i < e /\ i < n

LEMMA InHeaderStep ==
  ASSUME NEW t, NEW d, NEW n, NEW x, NEW b, NEW c, NEW v, NEW e, NEW a, NEW i,
         InsideHeader(d, t, n, x, b, c, v, e, a, i), NEW saved, NEW j, j = i + 1
  PROVE  HeaderByte(d, a, InHeader(a, b, c, x.sep, saved, i), i)
           = InHeader(a, b, c, x.sep, saved, j)
<1> USE DEF InsideHeader
<1>1. /\ b \in Nat /\ c \in Nat /\ v \in Nat /\ e \in Nat
      /\ b < c /\ c <= v /\ v + 2 <= e
  BY DEF HeaderBytesAre
<1>2. \A l \in 0 .. n - 1 : At(d, l) = At(t, l)
  BY DEF Starts
<1>3. PICK k : k = InHeader(a, b, c, x.sep, saved, i)
  OBVIOUS
<1>4. PICK lc, y : lc = At(d, i - 1) /\ y = At(d, i) /\ lc = At(t, i - 1) /\ y = At(t, i)
  <2>1. i - 1 \in 0 .. n - 1 /\ i \in 0 .. n - 1
    BY <1>1
  <2> QED
    BY <1>2, <2>1
<1>5. PICK ks, vs, ke :
        /\ ks = (IF k.ks # 0 THEN k.ks ELSE IF lc = "NUL" THEN i ELSE i - 1)
        /\ vs = (IF k.ke > 0 /\ k.vs = 0 THEN i ELSE k.vs)
        /\ ke = (IF k.ke = 0 THEN i - 2 ELSE k.ke)
  OBVIOUS
<1>6. /\ k.ks = KeyFrom(a, b, i) /\ k.end = 0
      /\ k.ke = (IF x.sep # <<>> /\ i > c THEN c ELSE 0)
      /\ k.vs = (IF x.sep # <<>> /\ i > c + 1 THEN c + 1 ELSE 0)
  BY <1>3 DEF InHeader
<1>7. ks = b
  <2>1. CASE b # a /\ i = b + 1
    <3>1. k.ks = 0 /\ lc = At(t, b)
      BY <1>1, <1>4, <1>6, <2>1 DEF KeyFrom
    <3>2. At(t, b) # "NUL"
      BY DEF HeaderBytesAre
    <3> QED
      BY <1>1, <1>5, <2>1, <3>1, <3>2
  <2>2. CASE ~(b # a /\ i = b + 1)
    <3>1. k.ks = b /\ b # 0
      BY <1>1, <1>6, <2>2 DEF KeyFrom
    <3> QED
      BY <1>5, <3>1
  <2> QED
    BY <2>1, <2>2
<1>8. KeyFrom(a, b, j) = b
  BY <1>1 DEF KeyFrom
<1>9. i > a
  BY <1>1
<1>10. \A l \in b .. i : At(t, l) = "LF" => (l = e - 1 \/ At(t, l + 1) = "SP")
  <2>1. SUFFICES ASSUME NEW l \in b .. i, At(t, l) = "LF", l # e - 1
                 PROVE  At(t, l + 1) = "SP"
    OBVIOUS
  <2>2. l \notin b .. c - 1
    BY <2>1 DEF HeaderBytesAre
  <2>3. l # c \/ x.sep = <<>>
    BY <2>1 DEF HeaderBytesAre
  <2>4. l \notin c + 1 .. v - 1
    BY <2>1 DEF HeaderBytesAre
  <2>5. l # e - 2
    BY <2>1 DEF HeaderBytesAre
  <2>6. x.sep = <<>> => v = c
    BY DEF HeaderBytesAre
  <2>7. l \in v .. e - 3
    BY <1>1, <2>1, <2>2, <2>3, <2>4, <2>5, <2>6
  <2> QED
    BY <2>1, <2>7 DEF HeaderBytesAre
<1>11. lc = "LF" => y = "SP"
  <2>1. i - 1 \in b .. i /\ i - 1 # e - 1 /\ i - 1 + 1 = i
    BY <1>1
  <2> QED
    BY <1>4, <1>10, <2>1
<1>12. ~(y = "LF" /\ lc = "CR" /\ At(d, i - 2) = "LF")
  <2>1. SUFFICES ASSUME y = "LF", lc = "CR", At(d, i - 2) = "LF" PROVE FALSE
    OBVIOUS
  <2>2. CASE i = b + 1
    <3>1. i # e - 1
      BY <1>1, <2>2
    <3>2. i \in b .. c - 1 \/ i = c
      BY <1>1, <2>2
    <3>3. i = c /\ x.sep = <<>>
      BY <1>4, <2>1, <3>2 DEF HeaderBytesAre
    <3>4. i = e - 2
      BY <1>1, <3>3 DEF HeaderBytesAre
    <3> QED
      BY <1>4, <2>1, <3>4 DEF HeaderBytesAre
  <2>3. CASE i # b + 1
    <3>1. i - 2 \in b .. i /\ i - 2 # e - 1 /\ i - 2 + 1 = i - 1 /\ i - 2 \in 0 .. n - 1
      BY <1>1, <2>3
    <3>2. At(t, i - 2) = "LF"
      BY <1>2, <2>1, <3>1
    <3> QED
      BY <1>4, <1>10, <2>1, <3>1, <3>2
  <2> QED
    BY <2>2, <2>3
<1>13. /\ (k.ke = 0 /\ y = ":" => HeaderByte(d, a, k, i) = [k EXCEPT !.ks = ks, !.ke = i])
       /\ (~(k.ke = 0 /\ y = ":") => HeaderByte(d, a, k, i) = [k EXCEPT !.ks = ks, !.vs = vs])
  <2>1. k.end = 0 /\ lc = At(d, i - 1) /\ y = At(d, i)
    BY <1>4, <1>6
  <2>2. HeaderByteGives(d, a, k, i, lc, y, ks, vs, ke)
    BY <1>5, <1>9, <2>1, HeaderByteIs
  <2> QED
    BY <1>11, <1>12, <2>2, Zenon DEF HeaderByteGives
<1>14. CASE i = c /\ x.sep # <<>>
  <2>1. k.ke = 0 /\ k.vs = 0 /\ y = ":"
    BY <1>1, <1>4, <1>6, <1>14 DEF HeaderBytesAre
  <2>2. HeaderByte(d, a, k, i) = [k EXCEPT !.ks = b, !.ke = c]
    BY <1>7, <1>13, <1>14, <2>1
  <2>3. /\ x.sep # <<>> /\ j > c /\ ~(j > c + 1) /\ ~(i > c + 1)
    BY <1>1, <1>14
  <2> QED
    BY <1>3, <1>8, <2>2, <2>3 DEF InHeader
<1>15. CASE ~(i = c /\ x.sep # <<>>)
  <2>1. ~(k.ke = 0 /\ y = ":")
    <3>1. SUFFICES ASSUME k.ke = 0, y = ":" PROVE FALSE
      OBVIOUS
    <3>2. CASE x.sep = <<>>
      <4>1. i \in b .. c - 1 \/ i = e - 2 \/ i = e - 1
        BY <1>1, <3>2 DEF HeaderBytesAre
      <4> QED
        BY <1>4, <3>1, <4>1 DEF HeaderBytesAre
    <3>3. CASE x.sep # <<>>
      <4>1. i \in b .. c - 1
        BY <1>1, <1>6, <1>15, <3>1, <3>3
      <4> QED
        BY <1>4, <3>1, <4>1 DEF HeaderBytesAre
    <3> QED
      BY <3>2, <3>3
  <2>2. HeaderByte(d, a, k, i) = [k EXCEPT !.ks = b, !.vs = vs]
    BY <1>7, <1>13, <2>1
  <2>3. (x.sep # <<>> /\ j > c) <=> (x.sep # <<>> /\ i > c)
    BY <1>1, <1>15
  <2>4. vs = (IF x.sep # <<>> /\ j > c + 1 THEN c + 1 ELSE 0)
    BY <1>1, <1>5, <1>6, <1>15
  <2> QED
    BY <1>3, <1>8, <2>2, <2>3, <2>4 DEF InHeader
<1> QED
  BY <1>3, <1>14, <1>15

\* The first byte behind a header saves it.
LEMMA NextHeaderStep ==
  ASSUME NEW t \in Texts, NEW d \in Texts, NEW n \in Nat, Starts(d, t, n),
         NEW x, NEW b, NEW c, NEW v, NEW e, HeaderBytesAre(t, x, b, c, v, e),
         NEW saved, NEW a \in Nat, 1 <= a, a <= b, e < n, MeetAt(t, e)
  PROVE  HeaderByte(d, a, InHeader(a, b, c, x.sep, saved, e), e)
           = Begun(a, e, Append(saved, SavedHeader(x)))
<1>1. /\ b \in Nat /\ c \in Nat /\ v \in Nat /\ e \in Nat
      /\ b < c /\ c <= v /\ v + 2 <= e
  BY DEF HeaderBytesAre
<1>2. \A j \in 0 .. n - 1 : At(d, j) = At(t, j)
  BY DEF Starts
<1>3. PICK k : k = InHeader(a, b, c, x.sep, saved, e)
  OBVIOUS
<1>4. PICK lc, y : lc = At(d, e - 1) /\ y = At(d, e) /\ lc = "LF" /\ y \notin {"SP", ":"}
  <2>1. e - 1 \in 0 .. n - 1 /\ e \in 0 .. n - 1
    BY <1>1
  <2> QED
    BY <1>2, <2>1 DEF MeetAt
<1>5. PICK ks, vs, ke :
        /\ ks = (IF k.ks # 0 THEN k.ks ELSE IF lc = "NUL" THEN e ELSE e - 1)
        /\ vs = (IF k.ke > 0 /\ k.vs = 0 THEN e ELSE k.vs)
        /\ ke = (IF k.ke = 0 THEN e - 2 ELSE k.ke)
  OBVIOUS
<1>6. /\ k.ks = KeyFrom(a, b, e) /\ k.end = 0 /\ k.saved = saved
      /\ k.ke = (IF x.sep # <<>> /\ e > c THEN c ELSE 0)
      /\ k.vs = (IF x.sep # <<>> /\ e > c + 1 THEN c + 1 ELSE 0)
  BY <1>3 DEF InHeader
<1>7. ks = b
  <2>1. k.ks = b /\ b # 0
    BY <1>1, <1>6 DEF KeyFrom
  <2> QED
    BY <1>5, <2>1
<1>8. ke = c /\ (IF k.ke = 0 THEN e - 2 ELSE vs) = (IF x.sep = <<>> THEN e - 2 ELSE c + 1)
  <2>1. CASE x.sep = <<>>
    <3>1. c = e - 2 /\ k.ke = 0
      BY <1>1, <1>6, <2>1 DEF HeaderBytesAre
    <3> QED
      BY <1>5, <2>1, <3>1
  <2>2. CASE x.sep # <<>>
    <3>1. k.ke = c /\ k.vs = c + 1 /\ c # 0
      BY <1>1, <1>6, <2>2
    <3> QED
      BY <1>1, <1>5, <2>2, <3>1
  <2> QED
    BY <2>1, <2>2
<1>9. PICK w : w = SavedHeader(x)
               /\ Saved(d, b, c, IF x.sep = <<>> THEN e - 2 ELSE c + 1, e - 2) = w
  <2>1. e <= n
    BY <1>1
  <2> QED
    BY <2>1, SavedIs
<1>10. HeaderByteGives(d, a, k, e, lc, y, ks, vs, ke)
  <2>1. e > a
    BY <1>1
  <2> QED
    BY <1>4, <1>5, <1>6, <2>1, HeaderByteIs
<1>11. lc = "LF" /\ y # "SP" /\ y # ":"
  BY <1>4
<1>12. HeaderByte(d, a, k, e) =
         [k EXCEPT !.ks = 0, !.ke = 0, !.vs = 0, !.cur = e,
            !.saved = IF ks < ke
                      THEN Append(@, Saved(d, ks, ke,
                             IF k.ke = 0 THEN e - 2 ELSE vs, e - 2))
                      ELSE @]
  BY <1>10, <1>11, Zenon DEF HeaderByteGives
<1>13. ks < ke /\ Saved(d, ks, ke, IF k.ke = 0 THEN e - 2 ELSE vs, e - 2) = w
  BY <1>1, <1>7, <1>8, <1>9
<1>14. HeaderByte(d, a, k, e) =
         [k EXCEPT !.ks = 0, !.ke = 0, !.vs = 0, !.cur = e, !.saved = Append(@, w)]
  BY <1>12, <1>13
<1>15. KeyFrom(a, e, e + 1) = 0
  BY <1>1 DEF KeyFrom
<1> QED
  BY <1>3, <1>9, <1>14, <1>15 DEF InHeader, Begun

\* A search may begin anew at the beginning of a line.
LEMMA FirstByteStep ==
  ASSUME NEW t, NEW d, NEW n \in Nat, Starts(d, t, n),
         NEW saved, NEW a \in Nat, NEW b \in Nat, 1 <= a, a <= b, b < n, MeetAt(t, b)
  PROVE  HeaderByte(d, a, Fresh(b, saved), b) = Begun(a, b, saved)
<1>1. PICK k : k = Fresh(b, saved)
  OBVIOUS
<1>2. /\ k.ks = 0 /\ k.ke = 0 /\ k.vs = 0 /\ k.end = 0
      /\ k.cur = b /\ k.saved = saved
  BY <1>1 DEF Fresh
<1>3. PICK lc, y : lc = At(d, b - 1) /\ y = At(d, b) /\ lc = "LF"
                   /\ y \notin {"SP", ":", "LF"}
  <2>1. b - 1 \in 0 .. n - 1 /\ b \in 0 .. n - 1
    OBVIOUS
  <2> QED
    BY <2>1 DEF MeetAt, Starts
<1>4. CASE a = b
  <2>1. KeyFrom(a, b, b + 1) = b
    BY <1>4 DEF KeyFrom
  <2>2. HeaderByte(d, a, k, b) = [k EXCEPT !.ks = b, !.vs = 0]
    <3>1. ~(b > a)
      BY <1>4
    <3> QED
      BY <1>2, <1>3, <3>1 DEF HeaderByte
  <2> QED
    BY <1>1, <2>1, <2>2 DEF Fresh, Begun
<1>5. CASE a # b
  <2>1. b > a /\ ~(b - 1 < b - 2) /\ KeyFrom(a, b, b + 1) = 0
    BY <1>5 DEF KeyFrom
  <2>2. PICK ks, vs, ke :
          /\ ks = b - 1 /\ vs = 0 /\ ke = b - 2
          /\ ks = (IF k.ks # 0 THEN k.ks ELSE IF lc = "NUL" THEN b ELSE b - 1)
          /\ vs = (IF k.ke > 0 /\ k.vs = 0 THEN b ELSE k.vs)
          /\ ke = (IF k.ke = 0 THEN b - 2 ELSE k.ke)
    BY <1>2, <1>3
  <2>3. HeaderByteGives(d, a, k, b, lc, y, ks, vs, ke)
    BY <1>2, <1>3, <2>1, <2>2, HeaderByteIs
  <2>4. lc = "LF" /\ y # "SP" /\ y # ":"
    BY <1>3
  <2>5. HeaderByte(d, a, k, b) =
          [k EXCEPT !.ks = 0, !.ke = 0, !.vs = 0, !.cur = b,
             !.saved = IF ks < ke
                       THEN Append(@, Saved(d, ks, ke,
                              IF k.ke = 0 THEN b - 2 ELSE vs, b - 2))
                       ELSE @]
    BY <2>3, <2>4, Zenon DEF HeaderByteGives
  <2>6. HeaderByte(d, a, k, b) = [k EXCEPT !.ks = 0, !.ke = 0, !.vs = 0, !.cur = b]
    BY <1>1, <2>1, <2>2, <2>5 DEF Fresh
  <2> QED
    BY <1>1, <2>1, <2>6 DEF Fresh, Begun
<1> QED
  BY <1>4, <1>5

\* The empty line ends the headers.
LEMMA EmptyLineStep ==
  ASSUME NEW t, NEW d, NEW n \in Nat, Starts(d, t, n),
         NEW saved, NEW a \in Nat, NEW b \in Nat, a <= b, b + 1 < n,
         MeetAt(t, b), At(t, b) = "CR", At(t, b + 1) = "LF"
  PROVE  HeaderByte(d, a, Begun(a, b, saved), b + 1)
           = [Begun(a, b, saved) EXCEPT !.end = b + 1]
<1>1. PICK k : k = Begun(a, b, saved)
  OBVIOUS
<1>2. k.end = 0
  BY <1>1 DEF Begun
<1>3. PICK i : i = b + 1 /\ i > a
  OBVIOUS
<1>4. At(d, i - 2) = "LF" /\ At(d, i - 1) = "CR" /\ At(d, i) = "LF"
  <2>1. /\ b - 1 \in 0 .. n - 1 /\ b \in 0 .. n - 1 /\ b + 1 \in 0 .. n - 1
        /\ i - 2 = b - 1 /\ i - 1 = b
    BY <1>3 DEF MeetAt
  <2>2. At(t, b - 1) = "LF"
    BY DEF MeetAt
  <2> QED
    BY <1>3, <2>1, <2>2 DEF Starts
<1>5. HeaderByte(d, a, k, i) = [k EXCEPT !.end = i]
  BY <1>2, <1>3, <1>4 DEF HeaderByte
<1> QED
  BY <1>1, <1>3, <1>5

\* Nothing happens behind it.
LEMMA EndedStep ==
  ASSUME NEW d, NEW a, NEW k, NEW i, k.end # 0
  PROVE  HeaderByte(d, a, k, i) = k
BY DEF HeaderByte

LEMMA SavedGrows ==
  ASSUME NEW r, NEW m \in Nat
  PROVE  Append(SavedUpTo(r, m), SavedHeader(r.headers[m + 1])) = SavedUpTo(r, m + 1)
<1>1. PICK S : S = {SavedHeader(r.headers[i]) : i \in 1 .. m + 1}
  OBVIOUS
<1>2. PICK s : s = SavedUpTo(r, m)
  OBVIOUS
<1>3. PICK w : w = SavedUpTo(r, m + 1)
  OBVIOUS
<1>4. PICK x : x = SavedHeader(r.headers[m + 1]) /\ x \in S
  <2>1. m + 1 \in 1 .. m + 1
    OBVIOUS
  <2> QED
    BY <1>1, <2>1
<1>5. s \in Seq(S) /\ Len(s) = m /\ \A i \in 1 .. m : s[i] = SavedHeader(r.headers[i])
  <2>1. \A i \in 1 .. m : SavedHeader(r.headers[i]) \in S
    BY <1>1
  <2>2. s = [i \in 1 .. m |-> SavedHeader(r.headers[i])]
    BY <1>2 DEF SavedUpTo
  <2> QED
    BY <2>1, <2>2, IsASeq, LenProperties
<1>6. w \in Seq(S) /\ Len(w) = m + 1 /\ \A i \in 1 .. m + 1 : w[i] = SavedHeader(r.headers[i])
  <2>1. \A i \in 1 .. m + 1 : SavedHeader(r.headers[i]) \in S
    BY <1>1
  <2>2. w = [i \in 1 .. m + 1 |-> SavedHeader(r.headers[i])]
    BY <1>3 DEF SavedUpTo
  <2> QED
    BY <2>1, <2>2, IsASeq, LenProperties
<1>7. PICK u : u = Append(s, x)
  OBVIOUS
<1>8. /\ u \in Seq(S) /\ Len(u) = m + 1 /\ u[m + 1] = x
      /\ \A i \in 1 .. m : u[i] = s[i]
  BY <1>4, <1>5, <1>7, AppendProperties
<1>9. \A i \in 1 .. m + 1 : u[i] = w[i]
  BY <1>4, <1>5, <1>6, <1>8
<1>10. u = w
  BY <1>6, <1>8, <1>9, SeqEqual
<1> QED
  BY <1>2, <1>3, <1>4, <1>7, <1>10

\* The state of the loop before byte i.
HeaderState(r, m, i) ==
  InHeader(LineLength(r), HeaderStart(r, m), KeyEnd(r, m), r.headers[m + 1].sep,
           SavedUpTo(r, m), i)
BegunState(r, m) == Begun(LineLength(r), HeaderStart(r, m), SavedUpTo(r, m))
EndState(r) == [BegunState(r, Len(r.headers)) EXCEPT !.end = BodyStart(r) - 1]

LoopState(r, i, k) ==
  \/ i = LineLength(r) /\ k = Fresh(LineLength(r), SavedUpTo(r, 0))
  \/ \E m \in 0 .. Len(r.headers) - 1 :
       /\ HeaderStart(r, m) < i /\ i <= HeaderStart(r, m + 1)
       /\ k = HeaderState(r, m, i)
  \/ i = HeaderStart(r, Len(r.headers)) + 1 /\ k = BegunState(r, Len(r.headers))
  \/ i >= BodyStart(r) /\ k = EndState(r)

LEMMA HeaderPlaces ==
  ASSUME NEW r, IsRequest(r)
  PROVE  /\ LineLength(r) \in Nat /\ LineLength(r) >= 2
         /\ \A m \in 0 .. Len(r.headers) :
              /\ HeaderStart(r, m) \in Nat /\ LineLength(r) <= HeaderStart(r, m)
              /\ \A l \in 0 .. m : HeaderStart(r, l) <= HeaderStart(r, m)
              /\ HeaderStart(r, m) + 2 <= BodyStart(r)
         /\ HeaderStart(r, 0) = LineLength(r)
         /\ BodyStart(r) = HeaderStart(r, Len(r.headers)) + 2
         /\ BodyStart(r) \in Nat /\ LineLength(r) < BodyStart(r)
<1>1. PlacesInText(r)
  BY Places
<1>2. PICK h \in Nat : h = Len(r.headers)
  BY HeaderTextsType
<1>3. IsTexts(HeaderTexts(r)) /\ Len(HeaderTexts(r)) = h
  BY <1>2, HeaderTextsType
<1>4. \A m \in 0 .. h : HeaderStart(r, m) \in Nat /\ Len(Flat(HeaderTexts(r), m)) \in Nat
  <2>1. \A m \in 0 .. h : HeaderStart(r, m) \in Nat
    BY <1>1, <1>2 DEF PlacesInText
  <2>2. \A m \in 0 .. h : Flat(HeaderTexts(r), m) \in Texts
    BY <1>3, FlatType
  <2> QED
    BY <2>1, <2>2, TextFacts
<1>5. \A m \in 0 .. h : \A l \in 0 .. m : HeaderStart(r, l) <= HeaderStart(r, m)
  <2>1. Grows(HeaderTexts(r))
    BY <1>3, FlatGrows
  <2>2. LineLength(r) \in Nat
    BY <1>1 DEF PlacesInText
  <2>3. \A i, j \in 0 .. h : i <= j =>
          Len(Flat(HeaderTexts(r), i)) <= Len(Flat(HeaderTexts(r), j))
    BY <1>3, <2>1 DEF Grows
  <2> QED
    BY <1>4, <2>2, <2>3 DEF HeaderStart
<1>6. LineLength(r) \in Nat /\ LineLength(r) >= 2
  <2>1. ParamEnd(r) + 2 <= LineLength(r) /\ ParamEnd(r) \in Nat /\ LineLength(r) \in Nat
    BY LineOrder
  <2> QED
    BY <2>1
<1>7. HeaderStart(r, 0) = LineLength(r) /\ BodyStart(r) = HeaderStart(r, h) + 2
      /\ BodyStart(r) \in Nat
  BY <1>1, <1>2 DEF PlacesInText, BodyStart
<1> QED
  BY <1>2, <1>4, <1>5, <1>6, <1>7

LEMMA HeaderBounds ==
  ASSUME NEW r, IsRequest(r), NEW m \in 0 .. Len(r.headers) - 1
  PROVE  /\ HeaderStart(r, m) \in Nat /\ HeaderStart(r, m + 1) \in Nat
         /\ KeyEnd(r, m) \in Nat /\ HeaderStart(r, m) < KeyEnd(r, m)
         /\ HeaderStart(r, m) + 3 <= HeaderStart(r, m + 1)
<1>1. PICK x, b, c, v, e : HeaderBytesAre(Text(r), x, b, c, v, e)
                        /\ b = HeaderStart(r, m) /\ c = KeyEnd(r, m)
                        /\ e = HeaderStart(r, m + 1)
  BY HeaderIsAt DEF HeaderAt
<1>2. /\ b \in Nat /\ c \in Nat /\ v \in Nat /\ e \in Nat
      /\ b < c /\ c <= v /\ v + 2 <= e
  BY <1>1 DEF HeaderBytesAre
<1>3. b + 3 <= e
  BY <1>2
<1> QED
  BY <1>1, <1>2, <1>3

LEMMA BegunIsState ==
  ASSUME NEW r, IsRequest(r), NEW m \in 0 .. Len(r.headers)
  PROVE  LoopState(r, HeaderStart(r, m) + 1, BegunState(r, m))
<1>1. PICK h \in Nat : h = Len(r.headers)
  BY HeaderTextsType
<1>2. CASE m = h
  BY <1>1, <1>2 DEF LoopState
<1>3. CASE m # h
  <2>1. m \in 0 .. h - 1
    BY <1>1, <1>3
  <2>2. PICK b \in Nat, c \in Nat, e \in Nat :
          /\ b = HeaderStart(r, m) /\ c = KeyEnd(r, m) /\ e = HeaderStart(r, m + 1)
          /\ b < c /\ b + 3 <= e
    BY <1>1, <2>1, HeaderBounds
  <2>3. b < b + 1 /\ b + 1 <= e /\ ~(b + 1 > c) /\ ~(b + 1 > c + 1)
    BY <2>2
  <2>4. BegunState(r, m) = HeaderState(r, m, b + 1)
    BY <2>2, <2>3 DEF BegunState, HeaderState, Begun, InHeader
  <2> QED
    BY <1>1, <2>1, <2>2, <2>3, <2>4 DEF LoopState
<1> QED
  BY <1>2, <1>3

LEMMA HeaderStateStep ==
  ASSUME NEW r, IsRequest(r), NEW d \in Texts, NEW n \in Nat, Starts(d, Text(r), n),
         NEW i \in Nat, LineLength(r) < i, i < n, NEW k, LoopState(r, i, k)
  PROVE  LoopState(r, i + 1, HeaderByte(d, LineLength(r), k, i))
<1>1. PICK h \in Nat : h = Len(r.headers)
  BY HeaderTextsType
<1>2. PICK t \in Texts : t = Text(r)
  BY Places
<1>3. PICK a \in Nat : a = LineLength(r) /\ 1 <= a
  <2>1. LineLength(r) \in Nat /\ LineLength(r) >= 2
    BY HeaderPlaces
  <2> QED
    BY <2>1
<1>4. CASE \E m \in 0 .. h - 1 :
             /\ HeaderStart(r, m) < i /\ i <= HeaderStart(r, m + 1)
             /\ k = HeaderState(r, m, i)
  <2>1. PICK m \in 0 .. h - 1 : /\ HeaderStart(r, m) < i /\ i <= HeaderStart(r, m + 1)
                                /\ k = HeaderState(r, m, i)
    BY <1>4
  <2>2. PICK x, b, c, v, e :
          /\ HeaderBytesAre(t, x, b, c, v, e) /\ x = r.headers[m + 1]
          /\ b = HeaderStart(r, m) /\ c = KeyEnd(r, m) /\ e = HeaderStart(r, m + 1)
    BY <1>1, <1>2, HeaderIsAt DEF HeaderAt
  <2>3. b \in Nat /\ e \in Nat /\ a <= b
    <3>1. m \in 0 .. Len(r.headers)
      BY <1>1
    <3>2. LineLength(r) <= HeaderStart(r, m)
      BY <3>1, HeaderPlaces
    <3> QED
      BY <1>3, <2>2, <3>2 DEF HeaderBytesAre
  <2>4. PICK s : s = SavedUpTo(r, m)
    OBVIOUS
  <2>5. k = InHeader(a, b, c, x.sep, s, i)
    BY <1>3, <2>1, <2>2, <2>4 DEF HeaderState
  <2>6. CASE i < e
    <3>1. HeaderByte(d, a, k, i) = InHeader(a, b, c, x.sep, s, i + 1)
      <4>1. PICK j : j = i + 1
        OBVIOUS
      <4>2. b < i /\ i < e
        BY <2>1, <2>2, <2>6
      <4>3. Starts(d, t, n) /\ HeaderBytesAre(t, x, b, c, v, e)
        BY <1>2, <2>2
      <4>4. InsideHeader(d, t, n, x, b, c, v, e, a, i)
        BY <1>3, <2>3, <4>2, <4>3 DEF InsideHeader
      <4>5. HeaderByte(d, a, InHeader(a, b, c, x.sep, s, i), i)
              = InHeader(a, b, c, x.sep, s, j)
        BY <4>1, <4>4, InHeaderStep
      <4> QED
        BY <2>5, <4>1, <4>5
    <3>2. HeaderByte(d, a, k, i) = HeaderState(r, m, i + 1)
      BY <1>3, <2>2, <2>4, <3>1 DEF HeaderState
    <3>3. HeaderStart(r, m) < i + 1 /\ i + 1 <= HeaderStart(r, m + 1)
      BY <2>1, <2>2, <2>3, <2>6
    <3> QED
      BY <1>1, <1>3, <3>2, <3>3 DEF LoopState
  <2>7. CASE i = e
    <3>1. m + 1 \in 0 .. Len(r.headers)
      BY <1>1
    <3>2. MeetAt(t, e)
      BY <1>2, <2>2, <3>1, HeadersMeet
    <3>3. HeaderByte(d, a, InHeader(a, b, c, x.sep, s, e), e)
            = Begun(a, e, Append(s, SavedHeader(x)))
      BY <1>2, <1>3, <2>2, <2>3, <2>7, <3>2, NextHeaderStep
    <3>4. Append(s, SavedHeader(x)) = SavedUpTo(r, m + 1)
      <4>1. m \in Nat
        BY <1>1
      <4> QED
        BY <2>2, <2>4, <4>1, SavedGrows
    <3>5. HeaderByte(d, a, k, i) = BegunState(r, m + 1)
      BY <1>3, <2>2, <2>5, <2>7, <3>3, <3>4 DEF BegunState
    <3>6. LoopState(r, HeaderStart(r, m + 1) + 1, BegunState(r, m + 1))
      BY <3>1, BegunIsState
    <3> QED
      BY <1>3, <2>2, <2>7, <3>5, <3>6
  <2> QED
    BY <2>1, <2>2, <2>3, <2>6, <2>7
<1>5. CASE i = HeaderStart(r, h) + 1 /\ k = BegunState(r, h)
  <2>1. PICK b \in Nat : b = HeaderStart(r, h) /\ i = b + 1 /\ a <= b
    <3>1. HeaderStart(r, h) \in Nat /\ LineLength(r) <= HeaderStart(r, h)
      BY <1>1, HeaderPlaces
    <3> QED
      BY <1>3, <1>5, <3>1
  <2>2. MeetAt(t, b)
    BY <1>1, <1>2, <2>1, HeadersMeet
  <2>3. At(t, b) = "CR" /\ At(t, b + 1) = "LF"
    <3>1. Occurs(CRLF, t, b)
      BY <1>1, <1>2, <2>1, Places DEF HeadersOccur
    <3>2. t[b + 1] = "CR" /\ t[b + 2] = "LF"
      BY <3>1, CRLFText DEF Occurs
    <3>3. b + 1 + 1 = b + 2
      OBVIOUS
    <3> QED
      BY <3>2, <3>3 DEF At
  <2>4. PICK s : s = SavedUpTo(r, h)
    OBVIOUS
  <2>5. b + 1 < n
    BY <2>1
  <2>6. HeaderByte(d, a, Begun(a, b, s), b + 1) = [Begun(a, b, s) EXCEPT !.end = b + 1]
    BY <1>2, <2>1, <2>2, <2>3, <2>5, EmptyLineStep
  <2>7. BodyStart(r) = b + 2 /\ BodyStart(r) - 1 = b + 1 /\ i + 1 >= BodyStart(r)
    BY <1>1, <2>1, HeaderPlaces
  <2>8. HeaderByte(d, a, k, i) = EndState(r)
    BY <1>1, <1>3, <1>5, <2>1, <2>4, <2>6, <2>7 DEF EndState, BegunState
  <2> QED
    BY <1>3, <2>7, <2>8 DEF LoopState
<1>6. CASE i >= BodyStart(r) /\ k = EndState(r)
  <2>1. BodyStart(r) \in Nat /\ BodyStart(r) - 1 # 0
    BY HeaderPlaces
  <2>2. k.end # 0
    BY <1>6, <2>1 DEF EndState, BegunState, Begun
  <2>3. HeaderByte(d, a, k, i) = k
    BY <2>2, EndedStep
  <2>4. i + 1 >= BodyStart(r)
    BY <1>6, <2>1
  <2> QED
    BY <1>3, <1>6, <2>3, <2>4 DEF LoopState
<1>7. i # LineLength(r)
  BY <1>3
<1> QED
  BY <1>1, <1>4, <1>5, <1>6, <1>7 DEF LoopState

\* The loop from the beginning of header m.
LEMMA HeaderLoopStates ==
  ASSUME NEW r, IsRequest(r), NEW d \in Texts, NEW n \in Nat, Starts(d, Text(r), n),
         NEW m \in 0 .. Len(r.headers), HeaderStart(r, m) < n,
         NEW s, s.hstart = LineLength(r), s.cur = HeaderStart(r, m),
         s.saved = SavedUpTo(r, m)
  PROVE  LoopState(r, n, HeaderLoop(d, s)[n])
<1>1. PICK a \in Nat : a = LineLength(r) /\ 1 <= a
  <2>1. LineLength(r) \in Nat /\ LineLength(r) >= 2
    BY HeaderPlaces
  <2> QED
    BY <2>1
<1>2. PICK b \in Nat : b = HeaderStart(r, m) /\ a <= b
  <2>1. HeaderStart(r, m) \in Nat /\ LineLength(r) <= HeaderStart(r, m)
    BY HeaderPlaces
  <2> QED
    BY <1>1, <2>1
<1>3. PICK f : f = HeaderLoop(d, s)
  OBVIOUS
<1>4. f[b] = Fresh(b, SavedUpTo(r, m))
      /\ \A i \in b .. n - 1 : f[i + 1] = HeaderByte(d, a, f[i], i)
  <2>1. Len(d) = n /\ s.cur \in Nat /\ s.cur <= Len(d)
    BY <1>2 DEF Starts
  <2>2. /\ f[s.cur] = FreshState(s)
        /\ \A i \in s.cur .. Len(d) - 1 : f[i + 1] = HeaderByte(d, s.hstart, f[i], i)
    BY <1>3, <2>1, HeaderLoopIs
  <2>3. FreshState(s) = Fresh(b, SavedUpTo(r, m))
    BY <1>2 DEF FreshState, Fresh
  <2> QED
    BY <1>1, <1>2, <2>1, <2>2, <2>3
<1> DEFINE S == {i \in b + 1 .. n : LoopState(r, i, f[i])}
<1>5. b + 1 \in S
  <2>1. MeetAt(Text(r), b)
    BY <1>2, HeadersMeet
  <2>2. HeaderByte(d, a, Fresh(b, SavedUpTo(r, m)), b) = Begun(a, b, SavedUpTo(r, m))
    BY <1>1, <1>2, <2>1, FirstByteStep
  <2>3. b \in b .. n - 1 /\ b + 1 \in b + 1 .. n
    BY <1>2
  <2>4. f[b + 1] = BegunState(r, m)
    BY <1>1, <1>2, <1>4, <2>2, <2>3 DEF BegunState
  <2> QED
    BY <1>2, <2>3, <2>4, BegunIsState
<1>6. ASSUME NEW i \in b + 1 .. n - 1, i \in S PROVE i + 1 \in S
  <2>1. i \in b .. n - 1 /\ i \in Nat /\ a < i /\ i < n /\ i + 1 \in b + 1 .. n
    BY <1>2
  <2>2. LoopState(r, i, f[i])
    BY <1>6
  <2>3. LoopState(r, i + 1, HeaderByte(d, a, f[i], i))
    BY <1>1, <2>1, <2>2, HeaderStateStep
  <2> QED
    BY <1>4, <2>1, <2>3
<1>7. b + 1 \in Int /\ n \in Int /\ n \in b + 1 .. n
  BY <1>2
<1> HIDE DEF S
<1>8. \A i \in b + 1 .. n : i \in S
  BY <1>5, <1>6, <1>7, Induction
<1>9. n \in S
  BY <1>7, <1>8
<1> QED
  BY <1>3, <1>9 DEF S

\* The head when the loop over the headers has come to the state k.
Moved(u, cur, saved) == [u EXCEPT !.cur = cur, !.saved = saved]
ParsedTo(r, k) ==
  LET t == Moved(AfterLine(r), k.cur, k.saved)
  IN IF k.end = 0 THEN t
     ELSE [t EXCEPT !.headers = TRUE, !.trav = k.end + 1, !.bodyStart = k.end + 1]

\* The head after the first n bytes.
HeadIs(r, n, s) ==
  IF n < LineLength(r) THEN s = LineAt(r, n)
  ELSE \E k : LoopState(r, n, k) /\ s = ParsedTo(r, k)

\* A loop that has not ended stands in header m.
StandsIn(r, m, n, k) ==
  /\ m \in 0 .. Len(r.headers) /\ k.end = 0
  /\ k.cur = HeaderStart(r, m) /\ k.saved = SavedUpTo(r, m)
  /\ HeaderStart(r, m) < n \/ (m = 0 /\ n = LineLength(r))

LEMMA LoopStands ==
  ASSUME NEW r, IsRequest(r), NEW n \in Nat, n < BodyStart(r), NEW k, LoopState(r, n, k)
  PROVE  \E m : StandsIn(r, m, n, k)
<1>1. PICK h \in Nat : h = Len(r.headers)
  BY HeaderTextsType
<1>2. CASE n = LineLength(r) /\ k = Fresh(LineLength(r), SavedUpTo(r, 0))
  <2>1. 0 \in 0 .. h /\ LineLength(r) = HeaderStart(r, 0)
    BY HeaderPlaces
  <2>2. k.end = 0 /\ k.cur = LineLength(r) /\ k.saved = SavedUpTo(r, 0)
    BY <1>2 DEF Fresh
  <2>3. StandsIn(r, 0, n, k)
    BY <1>1, <1>2, <2>1, <2>2 DEF StandsIn
  <2> QED
    BY <2>3
<1>3. CASE \E m \in 0 .. h - 1 :
             /\ HeaderStart(r, m) < n /\ n <= HeaderStart(r, m + 1)
             /\ k = HeaderState(r, m, n)
  <2>1. PICK m \in 0 .. h - 1 : HeaderStart(r, m) < n /\ k = HeaderState(r, m, n)
    BY <1>3
  <2>2. k.end = 0 /\ k.cur = HeaderStart(r, m) /\ k.saved = SavedUpTo(r, m)
    BY <2>1 DEF HeaderState, InHeader
  <2>3. m \in 0 .. h
    OBVIOUS
  <2>4. StandsIn(r, m, n, k)
    BY <1>1, <2>1, <2>2, <2>3 DEF StandsIn
  <2> QED
    BY <2>4
<1>4. CASE n = HeaderStart(r, h) + 1 /\ k = BegunState(r, h)
  <2>1. h \in 0 .. h /\ HeaderStart(r, h) \in Nat
    BY <1>1, HeaderPlaces
  <2>2. k.end = 0 /\ k.cur = HeaderStart(r, h) /\ k.saved = SavedUpTo(r, h)
    BY <1>4 DEF BegunState, Begun
  <2>3. HeaderStart(r, h) < n
    BY <1>4, <2>1
  <2>4. StandsIn(r, h, n, k)
    BY <1>1, <2>1, <2>2, <2>3 DEF StandsIn
  <2> QED
    BY <2>4
<1>5. ~(n >= BodyStart(r))
  BY HeaderPlaces
<1> QED
  BY <1>1, <1>2, <1>3, <1>4, <1>5 DEF LoopState

LEMMA NothingSaved ==
  ASSUME NEW r
  PROVE  SavedUpTo(r, 0) = <<>>
BY DEF SavedUpTo

\* A head is a record with these fields; setting some of them keeps it one.
IsHead(u) ==
  /\ u = [f \in DOMAIN u |-> u[f]]
  /\ DOMAIN u = DOMAIN NewHead

LEMMA HeadFields ==
  /\ "cur" \in DOMAIN NewHead /\ "saved" \in DOMAIN NewHead /\ "line" \in DOMAIN NewHead
  /\ "headers" \in DOMAIN NewHead /\ "hstart" \in DOMAIN NewHead
BY DEF NewHead

LEMMA AfterLineIsHead ==
  ASSUME NEW r
  PROVE  IsHead(AfterLine(r))
<1>1. IsHead(NewHead)
  BY DEF IsHead, NewHead
<1>2. ASSUME NEW u, NEW i, IsHead(u) PROVE IsHead(EndLine(u, i))
  BY <1>2 DEF IsHead, EndLine
<1>3. IsHead(AfterMethod(r))
  BY <1>1 DEF IsHead, AfterMethod
<1>4. IsHead(PathBeforeParams(r)) /\ IsHead(PathBeforeProtocol(r))
  BY <1>3 DEF IsHead, PathBeforeParams, PathBeforeProtocol
<1>5. IsHead(PathAlone(r))
  <2>1. IsHead([AfterMethod(r) EXCEPT !.pathEnd = PathEnd(r), !.paramStart = PathEnd(r),
                                      !.paramEnd = PathEnd(r), !.protStart = PathEnd(r)])
    BY <1>3 DEF IsHead
  <2> QED
    BY <1>2, <2>1 DEF PathAlone
<1>6. IsHead(AfterPath(r))
  BY <1>4, <1>5 DEF AfterPath
<1>7. IsHead(AfterParams(r))
  <2>1. IsHead([PathBeforeParams(r) EXCEPT !.paramEnd = ParamEnd(r),
                                           !.protStart = ParamEnd(r) + 1,
                                           !.trav = ParamEnd(r) + 1])
    BY <1>4 DEF IsHead
  <2> QED
    BY <1>6, <2>1 DEF AfterParams
<1> QED
  BY <1>2, <1>7 DEF AfterLine

\* What Moved does to a head.
MovesTo(u, c, v) ==
  /\ Moved(u, c, v).cur = c /\ Moved(u, c, v).saved = v
  /\ Moved(u, c, v).line = u.line /\ Moved(u, c, v).headers = u.headers
  /\ Moved(u, c, v).hstart = u.hstart

LEMMA HeadMoves ==
  ASSUME NEW u, IsHead(u), NEW c, NEW v
  PROVE  MovesTo(u, c, v)
BY HeadFields DEF IsHead, Moved, MovesTo

LEMMA HeadStays ==
  ASSUME NEW u, IsHead(u)
  PROVE  Moved(u, u.cur, u.saved) = u
BY DEF Moved, IsHead

LEMMA HeadMovesTwice ==
  ASSUME NEW u, IsHead(u), NEW c, NEW v, NEW c2, NEW v2
  PROVE  Moved(Moved(u, c, v), c2, v2) = Moved(u, c2, v2)
<1> DEFINE w == Moved(u, c, v)
           x == Moved(w, c2, v2)
           y == Moved(u, c2, v2)
<1>1. DOMAIN w = DOMAIN u /\ DOMAIN x = DOMAIN u /\ DOMAIN y = DOMAIN u
  BY DEF Moved
<1>2. \A f \in DOMAIN u : x[f] = y[f]
  BY DEF Moved
<1>3. x = [f \in DOMAIN x |-> x[f]] /\ y = [f \in DOMAIN y |-> y[f]]
  BY DEF Moved
<1> QED
  BY <1>1, <1>2, <1>3

LEMMA HeadAfterLine ==
  ASSUME NEW r, IsRequest(r)
  PROVE  HeadIs(r, LineLength(r), AfterLine(r))
<1>1. PICK a \in Nat : a = LineLength(r)
  BY HeaderPlaces
<1>2. PICK k : k = Fresh(a, <<>>)
  OBVIOUS
<1>3. LoopState(r, a, k)
  BY <1>1, <1>2, NothingSaved DEF LoopState
<1>4. k.end = 0 /\ k.cur = a /\ k.saved = <<>>
  BY <1>2 DEF Fresh
<1>5. AfterLine(r).cur = a /\ AfterLine(r).saved = <<>>
  BY <1>1, AfterLineIs DEF AfterLineFields
<1>6. Moved(AfterLine(r), k.cur, k.saved) = AfterLine(r)
  BY <1>4, <1>5, AfterLineIsHead, HeadStays
<1>7. AfterLine(r) = ParsedTo(r, k)
  BY <1>4, <1>6 DEF ParsedTo
<1>8. ~(a < LineLength(r))
  BY <1>1
<1> QED
  BY <1>1, <1>3, <1>7, <1>8 DEF HeadIs

ParsedWell(r, k, s) ==
  /\ s.line = TRUE /\ s.headers = FALSE /\ s.hstart = LineLength(r)
  /\ s.cur = k.cur /\ s.saved = k.saved
  /\ \A c, v : Moved(s, c, v) = Moved(AfterLine(r), c, v)

LEMMA ParsedFields ==
  ASSUME NEW r, IsRequest(r), NEW k, k.end = 0, NEW s, s = ParsedTo(r, k)
  PROVE  ParsedWell(r, k, s)
<1>1. PICK u, c0, v0 : u = AfterLine(r) /\ c0 = k.cur /\ v0 = k.saved
  OBVIOUS
<1>2. s = Moved(u, c0, v0)
  BY <1>1 DEF ParsedTo
<1>3. IsHead(u)
  BY <1>1, AfterLineIsHead
<1>4. u.line = TRUE /\ u.headers = FALSE /\ u.hstart = LineLength(r)
  BY <1>1, AfterLineIs DEF AfterLineFields
<1>5. MovesTo(u, c0, v0)
  BY <1>3, HeadMoves
<1>6. ASSUME NEW c, NEW v PROVE Moved(Moved(u, c0, v0), c, v) = Moved(u, c, v)
  BY <1>3, HeadMovesTwice
<1> QED
  BY <1>1, <1>2, <1>4, <1>5, <1>6 DEF ParsedWell, MovesTo

\* The headers may be cut anywhere.
LEMMA HeadersSteps ==
  ASSUME NEW r, IsRequest(r), NEW d \in Texts, NEW n \in Nat, Starts(d, Text(r), n),
         NEW m \in Nat, LineLength(r) <= m, m <= n, m < BodyStart(r),
         NEW s, HeadIs(r, m, s)
  PROVE  HeadIs(r, n, Headers(d, s)) /\ s.line = TRUE /\ s.headers = FALSE
<1>1. PICK a \in Nat : a = LineLength(r)
  BY HeaderPlaces
<1>2. PICK k0 : LoopState(r, m, k0) /\ s = ParsedTo(r, k0)
  BY <1>1 DEF HeadIs
<1>3. PICK j : StandsIn(r, j, m, k0)
  BY <1>2, LoopStands
<1>4. PICK b \in Nat : b = HeaderStart(r, j) /\ j \in 0 .. Len(r.headers)
  BY <1>3, HeaderPlaces DEF StandsIn
<1>5. k0.end = 0 /\ k0.cur = b /\ k0.saved = SavedUpTo(r, j)
  BY <1>3, <1>4 DEF StandsIn
<1>6. /\ s.line = TRUE /\ s.headers = FALSE /\ s.hstart = LineLength(r)
      /\ s.cur = b /\ s.saved = SavedUpTo(r, j)
      /\ \A c, v : Moved(s, c, v) = Moved(AfterLine(r), c, v)
  <2>1. k0.end = 0
    BY <1>5
  <2>2. /\ s.line = TRUE /\ s.headers = FALSE /\ s.hstart = LineLength(r)
        /\ s.cur = k0.cur /\ s.saved = k0.saved
        /\ \A c, v : Moved(s, c, v) = Moved(AfterLine(r), c, v)
    <3>1. ParsedWell(r, k0, s)
      BY <1>2, <2>1, ParsedFields
    <3> QED
      BY <3>1 DEF ParsedWell
  <2> QED
    BY <1>5, <2>2
<1>7. Len(d) = n
  BY DEF Starts
<1>8. PICK k : k = HeaderLoop(d, s)[n]
  OBVIOUS
<1>9. LoopState(r, n, k)
  <2>1. CASE b < n
    BY <1>4, <1>6, <1>8, <2>1, HeaderLoopStates
  <2>2. CASE ~(b < n)
    <3>1. b = n /\ n = a /\ j = 0
      BY <1>1, <1>3, <1>4, <2>2, HeaderPlaces DEF StandsIn
    <3>2. HeaderLoop(d, s)[s.cur] = FreshState(s)
      <4>1. s.cur \in Nat /\ Len(d) \in Nat /\ s.cur <= Len(d)
        BY <1>6, <1>7, <3>1
      <4> QED
        BY <4>1, HeaderLoopIs
    <3>3. k = Fresh(a, SavedUpTo(r, 0))
      BY <1>6, <1>8, <3>1, <3>2 DEF FreshState, Fresh
    <3> QED
      BY <1>1, <3>1, <3>3 DEF LoopState
  <2> QED
    BY <2>1, <2>2
<1>10. Headers(d, s) = ParsedTo(r, k)
  <2>1. Moved(s, k.cur, k.saved) = Moved(AfterLine(r), k.cur, k.saved)
    BY <1>6
  <2>2. Headers(d, s) =
          LET t == Moved(s, k.cur, k.saved)
          IN IF k.end = 0 THEN t
             ELSE [t EXCEPT !.headers = TRUE, !.trav = k.end + 1, !.bodyStart = k.end + 1]
    BY <1>7, <1>8, Zenon DEF Headers, Moved
  <2> QED
    BY <2>1, <2>2, Zenon DEF ParsedTo
<1>11. ~(n < LineLength(r))
  BY <1>1
<1> QED
  BY <1>6, <1>9, <1>10, <1>11 DEF HeadIs

LEMMA HeadAtStart ==
  ASSUME NEW r, IsRequest(r)
  PROVE  HeadIs(r, 0, NewHead)
<1>1. 0 < LineLength(r) /\ 0 <= MethodEnd(r)
  <2>1. /\ LineLength(r) \in Nat /\ LineLength(r) >= 2
    BY HeaderPlaces
  <2>2. MethodEnd(r) \in Nat
    BY LineOrder
  <2> QED
    BY <2>1, <2>2
<1> QED
  BY <1>1 DEF HeadIs, LineAt

\* The request line and the headers may be cut anywhere.
LEMMA HeadSteps ==
  ASSUME NEW r, IsRequest(r), NEW d \in Texts, NEW n \in Nat, Starts(d, Text(r), n),
         NEW m \in Nat, m <= n, m < BodyStart(r), NEW s, HeadIs(r, m, s)
  PROVE  HeadIs(r, n, Prepare(d, s)) /\ s.headers = FALSE
<1>1. PICK a \in Nat : a = LineLength(r)
  BY HeaderPlaces
<1>2. CASE m < a
  <2>1. s = LineAt(r, m) /\ s.line = FALSE /\ s.headers = FALSE
    BY <1>1, <1>2, UnfinishedLine DEF HeadIs
  <2>2. PICK t : t = Line(d, s) /\ t = LineAt(r, n)
    BY <1>1, <1>2, <2>1, LineSteps
  <2>3. CASE n < a
    <3>1. t.line = FALSE
      BY <1>1, <2>2, <2>3, UnfinishedLine
    <3>2. Prepare(d, s) = t
      BY <2>1, <2>2, <3>1 DEF Prepare
    <3> QED
      BY <1>1, <2>1, <2>2, <2>3, <3>2 DEF HeadIs
  <2>4. CASE ~(n < a)
    <3>1. t = AfterLine(r)
      BY <1>1, <2>2, <2>4, LineOrder DEF LineAt
    <3>2. HeadIs(r, a, t)
      BY <1>1, <3>1, HeadAfterLine
    <3>3. LineLength(r) <= a /\ a <= n /\ a < BodyStart(r)
      BY <1>1, <2>4, HeaderPlaces
    <3>4. HeadIs(r, n, Headers(d, t)) /\ t.line = TRUE /\ t.headers = FALSE
      BY <3>2, <3>3, HeadersSteps
    <3>5. Prepare(d, s) = Headers(d, t)
      BY <2>1, <2>2, <3>4 DEF Prepare
    <3> QED
      BY <2>1, <3>4, <3>5
  <2> QED
    BY <2>3, <2>4
<1>3. CASE ~(m < a)
  <2>1. LineLength(r) <= m
    BY <1>1, <1>3
  <2>2. HeadIs(r, n, Headers(d, s)) /\ s.line = TRUE /\ s.headers = FALSE
    BY <2>1, HeadersSteps
  <2>3. Prepare(d, s) = Headers(d, s)
    BY <2>2 DEF Prepare
  <2> QED
    BY <2>2, <2>3
<1> QED
  BY <1>2, <1>3

LEMMA LoopStateUnique ==
  ASSUME NEW r, IsRequest(r), NEW n \in Nat,
         NEW k, LoopState(r, n, k), NEW l, LoopState(r, n, l)
  PROVE  k = l
<1>1. PICK h \in Nat : h = Len(r.headers)
  BY HeaderTextsType
<1>2. /\ LineLength(r) \in Nat
      /\ \A m \in 0 .. h : HeaderStart(r, m) \in Nat /\ LineLength(r) <= HeaderStart(r, m)
      /\ \A m \in 0 .. h : \A j \in 0 .. m : HeaderStart(r, j) <= HeaderStart(r, m)
      /\ BodyStart(r) = HeaderStart(r, h) + 2
  BY <1>1, HeaderPlaces
<1> DEFINE In(m) == HeaderStart(r, m) < n /\ n <= HeaderStart(r, m + 1)
<1>3. ASSUME NEW m \in 0 .. h - 1, In(m), NEW j \in 0 .. h - 1, In(j) PROVE m = j
  <2>1. /\ HeaderStart(r, m) \in Nat /\ HeaderStart(r, m + 1) \in Nat
        /\ HeaderStart(r, j) \in Nat /\ HeaderStart(r, j + 1) \in Nat
    BY <1>2
  <2>2. m < j => HeaderStart(r, m + 1) <= HeaderStart(r, j)
    BY <1>2
  <2>3. j < m => HeaderStart(r, j + 1) <= HeaderStart(r, m)
    BY <1>2
  <2> QED
    BY <1>3, <2>1, <2>2, <2>3
<1>4. ASSUME NEW m \in 0 .. h - 1, In(m)
      PROVE  n > LineLength(r) /\ n <= HeaderStart(r, h) /\ HeaderStart(r, h) \in Nat
  <2>1. m \in 0 .. h /\ m + 1 \in 0 .. h /\ h \in 0 .. h
    OBVIOUS
  <2>2. /\ HeaderStart(r, m) \in Nat /\ LineLength(r) <= HeaderStart(r, m)
        /\ HeaderStart(r, m + 1) \in Nat /\ HeaderStart(r, m + 1) <= HeaderStart(r, h)
        /\ HeaderStart(r, h) \in Nat
    BY <1>2, <2>1
  <2> QED
    BY <1>2, <1>4, <2>2
<1>5. HeaderStart(r, h) \in Nat /\ LineLength(r) <= HeaderStart(r, h)
  BY <1>2
<1>6. \/ n = LineLength(r) /\ k = Fresh(LineLength(r), SavedUpTo(r, 0))
      \/ \E m \in 0 .. h - 1 : In(m) /\ k = HeaderState(r, m, n)
      \/ n = HeaderStart(r, h) + 1 /\ k = BegunState(r, h)
      \/ n >= HeaderStart(r, h) + 2 /\ k = EndState(r)
  BY <1>1, <1>2 DEF LoopState
<1>7. \/ n = LineLength(r) /\ l = Fresh(LineLength(r), SavedUpTo(r, 0))
      \/ \E m \in 0 .. h - 1 : In(m) /\ l = HeaderState(r, m, n)
      \/ n = HeaderStart(r, h) + 1 /\ l = BegunState(r, h)
      \/ n >= HeaderStart(r, h) + 2 /\ l = EndState(r)
  BY <1>1, <1>2 DEF LoopState
<1> HIDE DEF In
<1>8. CASE n = LineLength(r)
  <2>1. \A m \in 0 .. h - 1 : ~In(m)
    BY <1>2, <1>4, <1>8
  <2>2. ~(n = HeaderStart(r, h) + 1) /\ ~(n >= HeaderStart(r, h) + 2)
    BY <1>2, <1>5, <1>8
  <2> QED
    BY <1>6, <1>7, <2>1, <2>2
<1>9. CASE n # LineLength(r) /\ \E m \in 0 .. h - 1 : In(m)
  <2>1. PICK m \in 0 .. h - 1 : In(m)
    BY <1>9
  <2>2. ~(n = HeaderStart(r, h) + 1) /\ ~(n >= HeaderStart(r, h) + 2)
    BY <1>4, <2>1
  <2>3. k = HeaderState(r, m, n)
    BY <1>3, <1>6, <1>9, <2>1, <2>2
  <2>4. l = HeaderState(r, m, n)
    BY <1>3, <1>7, <1>9, <2>1, <2>2
  <2> QED
    BY <2>3, <2>4
<1>10. CASE n # LineLength(r) /\ ~(\E m \in 0 .. h - 1 : In(m))
  <2>1. ~(n = HeaderStart(r, h) + 1 /\ n >= HeaderStart(r, h) + 2)
    BY <1>5
  <2> QED
    <3>1. (n = HeaderStart(r, h) + 1 /\ k = BegunState(r, h))
            \/ (n >= HeaderStart(r, h) + 2 /\ k = EndState(r))
      BY <1>6, <1>10
    <3>2. (n = HeaderStart(r, h) + 1 /\ l = BegunState(r, h))
            \/ (n >= HeaderStart(r, h) + 2 /\ l = EndState(r))
      BY <1>7, <1>10
    <3> QED
      BY <2>1, <3>1, <3>2
<1> QED
  BY <1>8, <1>9, <1>10

LEMMA HeadUnique ==
  ASSUME NEW r, IsRequest(r), NEW n \in Nat, NEW s, HeadIs(r, n, s), NEW u, HeadIs(r, n, u)
  PROVE  s = u
<1>1. CASE n < LineLength(r)
  BY <1>1 DEF HeadIs
<1>2. CASE ~(n < LineLength(r))
  <2>1. PICK k : LoopState(r, n, k) /\ s = ParsedTo(r, k)
    BY <1>2 DEF HeadIs
  <2>2. PICK l : LoopState(r, n, l) /\ u = ParsedTo(r, l)
    BY <1>2 DEF HeadIs
  <2>3. k = l
    BY <2>1, <2>2, LoopStateUnique
  <2> QED
    BY <2>1, <2>2, <2>3
<1> QED
  BY <1>1, <1>2
=============================================================================
