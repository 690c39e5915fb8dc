------------------------ MODULE RequestInput_proofs ------------------------
(***************************************************************************)
(* The parser of a request gives the servlet the request that the client   *)
(* sent, for every request, every cut into bursts and every limit: the     *)
(* body, one burst, the inductive invariant and the theorems.              *)
(***************************************************************************)
EXTENDS RequestInput_head_proofs

-----------------------------------------------------------------------------
(* The chunked body                                                        *)

LEMMA CRLFSet == ToSet(CRLF) = {"CR", "LF"}
<1>1. DOMAIN CRLF = 1 .. 2 /\ CRLF[1] = "CR" /\ CRLF[2] = "LF"
  BY DEF CRLF
<1> QED
  BY <1>1 DEF ToSet

LEMMA DigitsSet == ToSet(Digits) = {"0", "1", "2", "3"}
<1>1. DOMAIN Digits = 1 .. 4
  BY DEF Digits
<1> QED
  BY <1>1, DigitsText DEF ToSet

LEMMA DigitFacts ==
  ASSUME NEW q \in 0 .. 3
  PROVE  /\ Digits[q + 1] \in ToSet(Digits) /\ Digits[q + 1] \in Bytes
         /\ Digits[q + 1] \notin {"CR", "LF"}
         /\ Value(Digits[q + 1]) = q
<1>1. /\ q + 1 \in 1 .. 4
      /\ Digits[1] = "0" /\ Digits[2] = "1" /\ Digits[3] = "2" /\ Digits[4] = "3"
  BY DigitsText
<1>2. Digits[q + 1] \in {"0", "1", "2", "3"}
  BY <1>1
<1>3. \A v \in 0 .. 3 : Digits[v + 1] = Digits[q + 1] => v = q
  BY <1>1
<1>4. Len(Digits) - 1 = 3
  BY DigitsText
<1>5. Value(Digits[q + 1]) = CHOOSE v \in 0 .. 3 : Digits[v + 1] = Digits[q + 1]
  BY <1>4 DEF Value
<1>6. (CHOOSE v \in 0 .. 3 : Digits[v + 1] = Digits[q + 1]) = q
  BY <1>3
<1> QED
  BY <1>2, <1>5, <1>6, DigitsSet, BytesFacts

\* The size in a line of one digit.
SizeRun(v, c) ==
  v = [i \in 0 .. 1 |->
         IF i = 0 THEN 0
         ELSE IF DigitsTo(<<c>>, i) THEN 16 * v[i - 1] + Value(<<c>>[i])
              ELSE v[i - 1]]

LEMMA SizeOfDigit ==
  ASSUME NEW q \in 0 .. 3
  PROVE  Size(<<Digits[q + 1]>>) = q
<1>1. PICK c : c = Digits[q + 1]
  OBVIOUS
<1>2. c \in ToSet(Digits) /\ Value(c) = q
  BY <1>1, DigitFacts
<1>8. DigitsTo(<<c>>, 1)
  BY <1>2 DEF DigitsTo
<1>3. \E v : SizeRun(v, c)
  <2> DEFINE g == [i \in 0 .. 1 |-> IF i = 0 THEN 0 ELSE q]
  <2>1. g[0] = 0 /\ <<c>>[1] = c
    OBVIOUS
  <2>2. \A i \in 0 .. 1 : g[i] =
          IF i = 0 THEN 0
          ELSE IF DigitsTo(<<c>>, i) THEN 16 * g[i - 1] + Value(<<c>>[i])
               ELSE g[i - 1]
    BY <1>2, <1>8, <2>1
  <2>3. g = [i \in 0 .. 1 |-> g[i]]
    OBVIOUS
  <2> HIDE DEF g
  <2>4. SizeRun(g, c)
    BY <2>2, <2>3, Zenon DEF SizeRun
  <2> QED
    BY <2>4
<1>4. Size(<<c>>) = (CHOOSE v : SizeRun(v, c))[1]
  <2>1. Len(<<c>>) = 1
    OBVIOUS
  <2> QED
    BY <2>1, Zenon DEF Size, SizeRun
<1>5. PICK v : v = (CHOOSE w : SizeRun(w, c)) /\ SizeRun(v, c)
  BY <1>3
<1>6. v[0] = 0 /\ v[1] = 16 * v[0] + Value(<<c>>[1])
  <2>1. \A i \in 0 .. 1 : v[i] =
          IF i = 0 THEN 0
          ELSE IF DigitsTo(<<c>>, i) THEN 16 * v[i - 1] + Value(<<c>>[i])
               ELSE v[i - 1]
    BY <1>5, Zenon DEF SizeRun
  <2>2. <<c>>[1] = c
    OBVIOUS
  <2> QED
    BY <1>2, <1>8, <2>1, <2>2
<1>7. v[1] = q
  BY <1>2, <1>6
<1> QED
  BY <1>1, <1>4, <1>5, <1>7

\* The states of the builder: between blocks, within a size line, within the
\* data of a block c, behind it, and behind the last block.
Waiting(z)    == [NewBuilder EXCEPT !.out = z]
SizeLine(z, s) == [NewBuilder EXCEPT !.out = z, !.buff = s]
InData(z, c, k) ==
  [NewBuilder EXCEPT !.out = z \o SubSeq(c, 1, k), !.size = Len(c), !.read = k,
                     !.buff = <<Digits[Len(c) + 1], "CR">>]
Behind(z)     == [NewBuilder EXCEPT !.out = z, !.skip = TRUE]
InEnding(z, l) ==
  [NewBuilder EXCEPT !.out = z, !.size = 0, !.buff = <<"0", "CR">>, !.last = l]
Finished(z)   == [NewBuilder EXCEPT !.out = z, !.done = TRUE]

LEMMA PairFacts ==
  ASSUME NEW x \in Bytes, NEW y \in Bytes
  PROVE  /\ <<x>> # <<>> /\ <<x, y>> # <<>>
         /\ Append(<<x>>, y) = <<x, y>> /\ Front(<<x, y>>) = <<x>>
<1>1. PICK S : S = Bytes
  OBVIOUS
<1>2. PICK s : s = <<x>> /\ s \in Seq(S) /\ Len(s) = 1 /\ s[1] = x
  BY <1>1, OneByte DEF Texts
<1>3. PICK t : t = <<x, y>> /\ t \in Seq(S) /\ Len(t) = 2 /\ t[1] = x /\ t[2] = y
  <2>1. PICK t : t = <<x, y>>
    OBVIOUS
  <2>2. t \in Texts /\ Len(t) = 2 /\ t[1] = x /\ t[2] = y
    BY <2>1, TwoBytes
  <2> QED
    BY <1>1, <2>1, <2>2 DEF Texts
<1>4. x \in S /\ y \in S
  BY <1>1
<1>5. Append(s, y) = t
  <2>1. PICK u : u = Append(s, y)
    OBVIOUS
  <2>2. u \in Seq(S) /\ Len(u) = 2 /\ u[2] = y /\ u[1] = x
    BY <1>2, <1>4, <2>1, AppendProperties
  <2>3. \A i \in 1 .. Len(u) : u[i] = t[i]
    BY <1>3, <2>2
  <2> QED
    BY <1>3, <2>1, <2>2, <2>3, SeqEqual
<1>6. Front(t) = s
  <2>1. PICK u : u = SubSeq(t, 1, 1)
    OBVIOUS
  <2>2. u \in Seq(S) /\ Len(u) = 1 /\ u[1] = x
    <3>1. \A i \in 1 .. 1 : t[i] \in S
      BY <1>3, <1>4
    <3>2. /\ u \in Seq(S) /\ Len(u) = (IF 1 <= 1 THEN 1 - 1 + 1 ELSE 0)
          /\ \A i \in 1 .. 1 - 1 + 1 : u[i] = t[1 + i - 1]
      BY <2>1, <3>1, SubSeqProperties
    <3> QED
      BY <1>3, <3>2
  <2>3. \A i \in 1 .. Len(u) : u[i] = s[i]
    BY <1>2, <2>2
  <2>4. u = s
    BY <1>2, <2>2, <2>3, SeqEqual
  <2>5. Len(t) - 1 = 1
    BY <1>3
  <2> QED
    BY <2>1, <2>4, <2>5 DEF Front
<1>7. s # <<>> /\ t # <<>>
  <2>1. Len(<<>>) = 0
    OBVIOUS
  <2> QED
    BY <1>2, <1>3, <2>1
<1> QED
  BY <1>2, <1>3, <1>5, <1>6, <1>7

LEMMA WaitingStep ==
  ASSUME NEW z, NEW y
  PROVE  BuildByte(Waiting(z), y) =
           IF y \in {"CR", "LF"} THEN Waiting(z) ELSE SizeLine(z, <<y>>)
<1>1. PICK b : b = Waiting(z)
  OBVIOUS
<1>2. b.done = FALSE /\ b.skip = FALSE /\ b.size = -1 /\ b.buff = <<>>
  BY <1>1 DEF Waiting, NewBuilder
<1>3. BuildByte(b, y) = SizeByte(b, y)
  BY <1>2 DEF BuildByte
<1>4. SizeByte(b, y) = IF y \in {"CR", "LF"} THEN b ELSE [b EXCEPT !.buff = Append(<<>>, y)]
  BY <1>2, CRLFSet DEF SizeByte
<1>5. Append(<<>>, y) = <<y>>
  OBVIOUS
<1>6. [b EXCEPT !.buff = <<y>>] = SizeLine(z, <<y>>)
  BY <1>1 DEF Waiting, SizeLine, NewBuilder
<1> QED
  BY <1>1, <1>3, <1>4, <1>5, <1>6

LEMMA SizeLineStep ==
  ASSUME NEW z, NEW x \in Bytes
  PROVE  BuildByte(SizeLine(z, <<x>>), "CR") = SizeLine(z, <<x, "CR">>)
<1>1. PICK s : s = <<x>> /\ s # <<>> /\ Append(s, "CR") = <<x, "CR">>
  BY PairFacts, BytesFacts
<1>2. PICK b : b = SizeLine(z, s)
  OBVIOUS
<1>3. b.done = FALSE /\ b.skip = FALSE /\ b.size = -1 /\ b.buff = s
  BY <1>2 DEF SizeLine, NewBuilder
<1>4. BuildByte(b, "CR") = [b EXCEPT !.buff = Append(s, "CR")]
  BY <1>1, <1>3 DEF BuildByte, SizeByte
<1>5. [b EXCEPT !.buff = Append(s, "CR")] = SizeLine(z, Append(s, "CR"))
  BY <1>2 DEF SizeLine, NewBuilder
<1> QED
  BY <1>1, <1>2, <1>4, <1>5

\* The LF of the size line reads the size.
LEMMA SizeLineEnds ==
  ASSUME NEW z, NEW q \in 0 .. 3
  PROVE  BuildByte(SizeLine(z, <<Digits[q + 1], "CR">>), "LF")
           = [SizeLine(z, <<Digits[q + 1], "CR">>) EXCEPT !.size = q]
<1>1. PICK x \in Bytes : x = Digits[q + 1]
  BY DigitFacts
<1>2. PICK s : s = <<x, "CR">> /\ s # <<>> /\ Front(s) = <<x>>
  BY PairFacts, BytesFacts
<1>3. PICK b : b = SizeLine(z, s)
  OBVIOUS
<1>4. b.done = FALSE /\ b.skip = FALSE /\ b.size = -1 /\ b.buff = s
  BY <1>3 DEF SizeLine, NewBuilder
<1>5. BuildByte(b, "LF") = [b EXCEPT !.size = Size(Front(s))]
  BY <1>2, <1>4 DEF BuildByte, SizeByte
<1>6. Size(Front(s)) = q
  BY <1>1, <1>2, SizeOfDigit
<1> QED
  BY <1>1, <1>2, <1>3, <1>5, <1>6

LEMMA DataStep ==
  ASSUME NEW z \in Texts, NEW c, IsChunk(c), NEW k \in 0 .. Len(c) - 1, NEW y, y = c[k + 1]
  PROVE  BuildByte(InData(z, c, k), y) =
           IF k + 1 = Len(c) THEN Behind(z \o c) ELSE InData(z, c, k + 1)
<1>1. PICK q \in 1 .. 3 : q = Len(c) /\ c \in Texts
  BY DEF IsChunk
<1>2. k \in 0 .. q - 1 /\ k \in Nat /\ k + 1 \in 1 .. q
  BY <1>1
<1>3. PICK b : b = InData(z, c, k)
  OBVIOUS
<1>4. PICK u, w : u = SubSeq(c, 1, k) /\ w = SubSeq(c, 1, k + 1)
  OBVIOUS
<1>5. y \in Bytes /\ \A i \in 1 .. q : c[i] \in Bytes
  <2>1. \A i \in 1 .. Len(c) : c[i] \in Bytes
    BY <1>1, TextFacts
  <2> QED
    BY <1>1, <1>2, <2>1
<1>6. u \in Texts /\ Append(u, y) = w
  <2>1. /\ u \in Seq(Bytes) /\ Len(u) = (IF 1 <= k THEN k - 1 + 1 ELSE 0)
        /\ \A i \in 1 .. k - 1 + 1 : u[i] = c[1 + i - 1]
    <3>1. \A i \in 1 .. k : c[i] \in Bytes
      BY <1>2, <1>5
    <3>2. 1 \in Int /\ k \in Int
      BY <1>2
    <3> QED
      BY <1>4, <3>1, <3>2, SubSeqProperties
  <2>2. /\ w \in Seq(Bytes) /\ Len(w) = (IF 1 <= k + 1 THEN k + 1 - 1 + 1 ELSE 0)
        /\ \A i \in 1 .. k + 1 - 1 + 1 : w[i] = c[1 + i - 1]
    <3>1. \A i \in 1 .. k + 1 : c[i] \in Bytes
      BY <1>2, <1>5
    <3>2. 1 \in Int /\ k + 1 \in Int
      BY <1>2
    <3> QED
      BY <1>4, <3>1, <3>2, SubSeqProperties
  <2>3. Len(u) = k /\ \A i \in 1 .. k : u[i] = c[i]
    BY <1>2, <2>1
  <2>4. Len(w) = k + 1 /\ \A i \in 1 .. k + 1 : w[i] = c[i]
    BY <1>2, <2>2
  <2>5. PICK a : a = Append(u, y)
    OBVIOUS
  <2>6. /\ a \in Seq(Bytes) /\ Len(a) = k + 1 /\ a[k + 1] = y
        /\ \A i \in 1 .. k : a[i] = u[i]
    BY <1>5, <2>1, <2>3, <2>5, AppendProperties
  <2>7. \A i \in 1 .. k + 1 : a[i] = w[i]
    BY <1>2, <2>3, <2>4, <2>6
  <2>8. a = w
    BY <2>2, <2>4, <2>6, <2>7, SeqEqual
  <2> QED
    BY <2>1, <2>5, <2>8 DEF Texts
<1>7. Append(z \o u, y) = z \o w
  <2>1. <<y>> \in Texts
    BY <1>5, OneByte
  <2>2. z \o u \in Texts
    BY <1>6, JoinedType
  <2>3. Append(z \o u, y) = (z \o u) \o <<y>>
    BY <1>5, <2>2, AppendIsConcat DEF Texts
  <2>4. (z \o u) \o <<y>> = z \o (u \o <<y>>)
    BY <1>6, <2>1, ConcatAssociative DEF Texts
  <2>5. Append(u, y) = u \o <<y>>
    BY <1>5, <1>6, AppendIsConcat DEF Texts
  <2> QED
    BY <1>6, <2>3, <2>4, <2>5
<1>8. /\ b.done = FALSE /\ b.skip = FALSE /\ b.size = q /\ b.read = k
      /\ b.out = z \o u
  BY <1>1, <1>3, <1>4 DEF InData, NewBuilder
<1>9. BuildByte(b, y) = DataByte(b, y)
  BY <1>1, <1>8 DEF BuildByte
<1>10. CASE k + 1 = q
  <2>1. DataByte(b, y) = [NewBuilder EXCEPT !.out = z \o w, !.skip = TRUE]
    BY <1>7, <1>8, <1>10 DEF DataByte
  <2>2. w = c
    BY <1>1, <1>4, <1>10, SubSeqFull DEF Texts
  <2> QED
    BY <1>1, <1>3, <1>9, <1>10, <2>1, <2>2 DEF Behind
<1>11. CASE k + 1 # q
  <2>1. DataByte(b, y) = [b EXCEPT !.out = z \o w, !.read = k + 1]
    BY <1>7, <1>8, <1>11 DEF DataByte
  <2>2. [b EXCEPT !.out = z \o w, !.read = k + 1] = InData(z, c, k + 1)
    BY <1>3, <1>4 DEF InData, NewBuilder
  <2> QED
    BY <1>1, <1>3, <1>9, <1>11, <2>1, <2>2
<1> QED
  BY <1>10, <1>11

\* Setting a field back.
LEMMA SetBack ==
  ASSUME NEW a, NEW f, NEW e, f \in DOMAIN a, e \in DOMAIN a, e # f,
         a = [x \in DOMAIN a |-> a[x]], NEW u, NEW v, a[f] = v, NEW z
  PROVE  [[a EXCEPT ![e] = z, ![f] = u] EXCEPT ![f] = v] = [a EXCEPT ![e] = z]
OBVIOUS

LEMMA BehindStep ==
  ASSUME NEW z, NEW y
  PROVE  BuildByte(Behind(z), y) = Waiting(z)
<1>1. PICK b : b = Behind(z)
  OBVIOUS
<1>2. b.done = FALSE /\ b.skip = TRUE
  BY <1>1 DEF Behind, NewBuilder
<1>3. BuildByte(b, y) = [b EXCEPT !.skip = FALSE]
  BY <1>2 DEF BuildByte
<1>4. PICK a : a = NewBuilder
  OBVIOUS
<1>5. PICK u, v : u = TRUE /\ v = FALSE
  OBVIOUS
<1>6. PICK f, e : f = "skip" /\ e = "out"
  OBVIOUS
<1>7. /\ f \in DOMAIN a /\ e \in DOMAIN a /\ e # f
      /\ a = [x \in DOMAIN a |-> a[x]]
      /\ a[f] = v
  BY <1>4, <1>5, <1>6 DEF NewBuilder
<1>8. [[a EXCEPT ![e] = z, ![f] = u] EXCEPT ![f] = v] = [a EXCEPT ![e] = z]
  BY <1>7, SetBack
<1> QED
  BY <1>1, <1>3, <1>4, <1>5, <1>6, <1>8, Zenon DEF Behind, Waiting

LEMMA EndingByte ==
  ASSUME NEW z, NEW l, NEW y
  PROVE  BuildByte(InEnding(z, l), y) =
           IF l = "LF" /\ y = "CR" THEN Finished(z) ELSE InEnding(z, y)
<1>1. PICK b : b = InEnding(z, l)
  OBVIOUS
<1>2. b.done = FALSE /\ b.skip = FALSE /\ b.size = 0 /\ b.last = l /\ b.out = z
  BY <1>1 DEF InEnding, NewBuilder
<1>3. BuildByte(b, y) = TrailerByte(b, y)
  BY <1>2 DEF BuildByte
<1>4. [b EXCEPT !.last = y] = InEnding(z, y)
  BY <1>1 DEF InEnding, NewBuilder
<1> QED
  BY <1>1, <1>2, <1>3, <1>4 DEF TrailerByte, Finished

LEMMA FinishedStep ==
  ASSUME NEW z, NEW y
  PROVE  BuildByte(Finished(z), y) = Finished(z)
BY DEF BuildByte, Finished, NewBuilder

\* The builder after the first o bytes of the block with the data c; behind the
\* data it waits to step over a byte, unless the burst ended there.
BlockState(z, c, o, b) ==
  \/ o = 0 /\ b = Waiting(z)
  \/ o = 1 /\ b = SizeLine(z, <<Digits[Len(c) + 1]>>)
  \/ o = 2 /\ b = SizeLine(z, <<Digits[Len(c) + 1], "CR">>)
  \/ \E k \in 0 .. Len(c) - 1 : o = 3 + k /\ b = InData(z, c, k)
  \/ o = 3 + Len(c) /\ (b = Behind(z \o c) \/ b = Waiting(z \o c))
  \/ o = 4 + Len(c) /\ b = Waiting(z \o c)
  \/ o = 5 + Len(c) /\ b = Waiting(z \o c)

LEMMA BlockBytes ==
  ASSUME NEW c, IsChunk(c)
  PROVE  /\ Block(c)[1] = Digits[Len(c) + 1]
         /\ Block(c)[2] = "CR" /\ Block(c)[3] = "LF"
         /\ \A i \in 1 .. Len(c) : Block(c)[3 + i] = c[i]
         /\ Block(c)[Len(c) + 4] = "CR" /\ Block(c)[Len(c) + 5] = "LF"
<1>1. PICK q \in 1 .. 3 : q = Len(c) /\ c \in Texts
  BY DEF IsChunk
<1>2. PICK x \in Bytes : x = Digits[Len(c) + 1]
  BY BlockType
<1>3. PICK d : d = <<x>> /\ d \in Texts /\ Len(d) = 1 /\ d[1] = x
  BY OneByte
<1>4. PICK f \in Texts : f = CRLF /\ Len(f) = 2 /\ f[1] = "CR" /\ f[2] = "LF"
  BY CRLFText
<1>5. PICK u : u = d \o f
  OBVIOUS
<1>6. u \in Texts /\ Len(u) = 3 /\ u[1] = x /\ u[2] = "CR" /\ u[3] = "LF"
  <2>1. /\ u \in Texts /\ Len(u) = Len(d) + Len(f)
        /\ \A i \in 1 .. Len(d) : u[i] = d[i]
        /\ \A i \in 1 .. Len(f) : u[Len(d) + i] = f[i]
    BY <1>3, <1>4, <1>5, JoinedTexts
  <2>2. /\ 1 \in 1 .. Len(d) /\ 1 \in 1 .. Len(f) /\ 2 \in 1 .. Len(f)
        /\ Len(d) + 1 = 2 /\ Len(d) + 2 = 3
    BY <1>3, <1>4
  <2> QED
    BY <1>3, <1>4, <2>1, <2>2
<1>7. PICK v : v = u \o c
  OBVIOUS
<1>8. /\ v \in Texts /\ Len(v) = q + 3 /\ v[1] = x /\ v[2] = "CR" /\ v[3] = "LF"
      /\ \A i \in 1 .. q : v[3 + i] = c[i]
  <2>1. /\ v \in Texts /\ Len(v) = Len(u) + Len(c)
        /\ \A i \in 1 .. Len(u) : v[i] = u[i]
        /\ \A i \in 1 .. Len(c) : v[Len(u) + i] = c[i]
    BY <1>1, <1>6, <1>7, JoinedTexts
  <2>2. 1 \in 1 .. Len(u) /\ 2 \in 1 .. Len(u) /\ 3 \in 1 .. Len(u)
    BY <1>6
  <2> QED
    BY <1>1, <1>6, <2>1, <2>2
<1>9. PICK w : w = v \o f
  OBVIOUS
<1>10. /\ w[1] = x /\ w[2] = "CR" /\ w[3] = "LF" /\ \A i \in 1 .. q : w[3 + i] = c[i]
       /\ w[q + 4] = "CR" /\ w[q + 5] = "LF"
  <2>1. v \in Texts /\ f \in Texts
    BY <1>4, <1>8
  <2>2. /\ \A i \in 1 .. Len(v) : w[i] = v[i]
        /\ \A i \in 1 .. Len(f) : w[Len(v) + i] = f[i]
    BY <1>9, <2>1, JoinedTexts
  <2>3. /\ 1 \in 1 .. Len(v) /\ 2 \in 1 .. Len(v) /\ 3 \in 1 .. Len(v)
        /\ \A i \in 1 .. q : 3 + i \in 1 .. Len(v)
        /\ 1 \in 1 .. Len(f) /\ 2 \in 1 .. Len(f)
        /\ Len(v) + 1 = q + 4 /\ Len(v) + 2 = q + 5
    BY <1>4, <1>8
  <2> QED
    BY <1>4, <1>8, <2>2, <2>3
<1>11. Block(c) = w
  BY <1>2, <1>3, <1>4, <1>5, <1>7, <1>9 DEF Block
<1> QED
  BY <1>1, <1>2, <1>10, <1>11

LEMMA DataBegins ==
  ASSUME NEW z \in Texts, NEW c, IsChunk(c)
  PROVE  BuildByte(SizeLine(z, <<Digits[Len(c) + 1], "CR">>), "LF") = InData(z, c, 0)
<1>1. PICK q \in 1 .. 3 : q = Len(c) /\ q \in 0 .. 3 /\ c \in Texts
  BY DEF IsChunk
<1>2. PICK s : s = <<Digits[q + 1], "CR">>
  OBVIOUS
<1>3. BuildByte(SizeLine(z, s), "LF") = [SizeLine(z, s) EXCEPT !.size = q]
  BY <1>1, <1>2, SizeLineEnds
<1>4. z \o SubSeq(c, 1, 0) = z
  <2>1. SubSeq(c, 1, 0) = <<>>
    BY SubSeqEmpty
  <2> QED
    BY <2>1, ConcatEmptySeq DEF Texts
<1>5. PICK a : a = NewBuilder
  OBVIOUS
<1>6. /\ a = [x \in DOMAIN a |-> a[x]]
      /\ a.read = 0
      /\ DOMAIN a = {"size", "read", "buff", "last", "skip", "done", "out"}
  BY <1>5 DEF NewBuilder
<1>7. PICK u, w : /\ u = [[a EXCEPT !.out = z, !.buff = s] EXCEPT !.size = q]
                  /\ w = [a EXCEPT !.out = z, !.size = q, !.read = 0, !.buff = s]
  OBVIOUS
<1>8. u = w
  BY <1>6, <1>7
<1> QED
  BY <1>1, <1>2, <1>3, <1>4, <1>5, <1>7, <1>8, Zenon DEF SizeLine, InData

LEMMA BlockStep ==
  ASSUME NEW z \in Texts, NEW c, IsChunk(c), NEW o \in 0 .. Len(c) + 4, NEW b,
         BlockState(z, c, o, b), NEW y, y = Block(c)[o + 1],
         NEW p, p = o + 1
  PROVE  BlockState(z, c, p, BuildByte(b, y))
<1>1. PICK q \in 1 .. 3 : q = Len(c) /\ c \in Texts
  BY DEF IsChunk
<1>2. PICK x \in Bytes : x = Digits[Len(c) + 1] /\ x \notin {"CR", "LF"}
  <2>1. Len(c) \in 0 .. 3
    BY <1>1
  <2> QED
    BY <2>1, DigitFacts
<1>3. /\ Block(c)[1] = x /\ Block(c)[2] = "CR" /\ Block(c)[3] = "LF"
      /\ \A i \in 1 .. q : Block(c)[3 + i] = c[i]
      /\ Block(c)[q + 4] = "CR" /\ Block(c)[q + 5] = "LF"
  BY <1>1, <1>2, BlockBytes
<1>4. PICK zc : zc = z \o c
  OBVIOUS
<1>5. PICK e : e = BuildByte(b, y)
  OBVIOUS
<1>6. CASE o = 0 /\ b = Waiting(z)
  <2>1. y = x /\ p = 1
    BY <1>3, <1>6
  <2>2. BuildByte(Waiting(z), y) = SizeLine(z, <<y>>)
    BY <1>2, <2>1, WaitingStep
  <2> QED
    BY <1>2, <1>6, <2>1, <2>2 DEF BlockState
<1>7. CASE o = 1 /\ b = SizeLine(z, <<Digits[Len(c) + 1]>>)
  <2>1. y = "CR" /\ p = 2
    BY <1>3, <1>7
  <2>2. BuildByte(SizeLine(z, <<x>>), "CR") = SizeLine(z, <<x, "CR">>)
    BY SizeLineStep
  <2> QED
    BY <1>2, <1>7, <2>1, <2>2 DEF BlockState
<1>8. CASE o = 2 /\ b = SizeLine(z, <<Digits[Len(c) + 1], "CR">>)
  <2>1. y = "LF" /\ p = 3 /\ 3 = 3 + 0 /\ 0 \in 0 .. Len(c) - 1
    BY <1>1, <1>3, <1>8
  <2>2. e = InData(z, c, 0)
    BY <1>5, <1>8, <2>1, DataBegins
  <2> QED
    BY <1>5, <2>1, <2>2 DEF BlockState
<1>9. ASSUME NEW k \in 0 .. q - 1, o = 3 + k, b = InData(z, c, k)
      PROVE  BlockState(z, c, p, e)
  <2>1. k + 1 \in 1 .. q /\ o + 1 = 3 + (k + 1)
    BY <1>9
  <2>2. y = c[k + 1]
    BY <1>3, <2>1
  <2>3. e = IF k + 1 = Len(c) THEN Behind(zc) ELSE InData(z, c, k + 1)
    BY <1>1, <1>4, <1>5, <1>9, <2>2, DataStep
  <2>4. CASE k + 1 = q
    <3>1. p = 3 + Len(c) /\ e = Behind(zc)
      BY <1>1, <2>1, <2>3, <2>4
    <3> QED
      BY <1>4, <3>1 DEF BlockState
  <2>5. CASE k + 1 # q
    <3>1. PICK j \in 0 .. Len(c) - 1 : j = k + 1
      BY <1>1, <2>5
    <3>2. p = 3 + j /\ e = InData(z, c, j)
      BY <1>1, <2>1, <2>3, <2>5, <3>1
    <3> QED
      BY <3>2 DEF BlockState
  <2> QED
    BY <2>4, <2>5
<1>10. CASE o = 3 + Len(c) /\ (b = Behind(z \o c) \/ b = Waiting(z \o c))
  <2>1. y = "CR" /\ p = 4 + Len(c)
    BY <1>1, <1>3, <1>10
  <2>2. BuildByte(Behind(zc), y) = Waiting(zc)
    BY BehindStep
  <2>3. BuildByte(Waiting(zc), y) = Waiting(zc)
    BY <2>1, WaitingStep
  <2> QED
    BY <1>4, <1>10, <2>1, <2>2, <2>3 DEF BlockState
<1>11. CASE o = 4 + Len(c) /\ b = Waiting(z \o c)
  <2>1. y = "LF" /\ p = 5 + Len(c)
    BY <1>1, <1>3, <1>11
  <2>2. BuildByte(Waiting(zc), y) = Waiting(zc)
    BY <2>1, WaitingStep
  <2> QED
    BY <1>4, <1>11, <2>1, <2>2 DEF BlockState
<1>12. o # 5 + Len(c)
  BY <1>1
<1>13. \/ o = 0 /\ b = Waiting(z)
       \/ o = 1 /\ b = SizeLine(z, <<Digits[Len(c) + 1]>>)
       \/ o = 2 /\ b = SizeLine(z, <<Digits[Len(c) + 1], "CR">>)
       \/ \E k \in 0 .. q - 1 : o = 3 + k /\ b = InData(z, c, k)
       \/ o = 3 + Len(c) /\ (b = Behind(z \o c) \/ b = Waiting(z \o c))
       \/ o = 4 + Len(c) /\ b = Waiting(z \o c)
  BY <1>1, <1>12 DEF BlockState
<1> QED
  BY <1>5, <1>6, <1>7, <1>8, <1>9, <1>10, <1>11, <1>13

\* The builder of the request r before its byte n.
Payload(r) == FlattenSeq(r.chunks)
InBlock(r, m, n, b) ==
  \E o \in 0 .. Len(r.chunks[m]) + 4 :
     /\ n = BlockStart(r, m - 1) + o
     /\ BlockState(Flat(r.chunks, m - 1), r.chunks[m], o, b)
InLastBlock(r, n, b) ==
  \/ n = LastStart(r) /\ b = Waiting(Payload(r))
  \/ n = LastStart(r) + 1 /\ b = SizeLine(Payload(r), <<"0">>)
  \/ n = LastStart(r) + 2 /\ b = SizeLine(Payload(r), <<"0", "CR">>)
\* The CR that ends the body, which follows a LF.
EndsBefore(r, n) ==
  \E i \in EndingStart(r) + 1 .. n - 1 : At(Text(r), i - 1) = "LF" /\ At(Text(r), i) = "CR"
LastByte(r, n) == IF n = EndingStart(r) THEN "NUL" ELSE At(Text(r), n - 1)
BehindLastBlock(r, n, b) ==
  /\ n >= EndingStart(r)
  /\ b = IF EndsBefore(r, n) THEN Finished(Payload(r))
         ELSE InEnding(Payload(r), LastByte(r, n))
BodyState(r, n, b) ==
  \/ \E m \in 1 .. Len(r.chunks) : InBlock(r, m, n, b)
  \/ InLastBlock(r, n, b)
  \/ BehindLastBlock(r, n, b)

LEMMA ChunkFacts ==
  ASSUME NEW r, IsRequest(r)
  PROVE  /\ Len(r.chunks) \in Nat
         /\ Flat(r.chunks, 0) = <<>>
         /\ Flat(r.chunks, Len(r.chunks)) = Payload(r)
         /\ \A m \in 0 .. Len(r.chunks) : Flat(r.chunks, m) \in Texts
         /\ \A m \in 1 .. Len(r.chunks) :
              /\ Flat(r.chunks, m) = Flat(r.chunks, m - 1) \o r.chunks[m]
              /\ IsChunk(r.chunks[m])
              /\ BlockStart(r, m - 1) \in Nat
              /\ BlockStart(r, m) = BlockStart(r, m - 1) + (Len(r.chunks[m]) + 5)
<1>1. PICK c : c = r.chunks /\ IsTexts(c) /\ Len(c) \in Nat
               /\ \A i \in 1 .. Len(c) : IsChunk(c[i])
  BY BlocksType
<1>2. Flat(c, 0) = <<>> /\ Flat(c, Len(c)) = FlattenSeq(c)
      /\ \A m \in 1 .. Len(c) : Flat(c, m) = Flat(c, m - 1) \o c[m]
  BY <1>1, FlatSteps
<1>3. \A m \in 0 .. Len(c) : Flat(c, m) \in Texts
  BY <1>1, FlatType
<1>4. ASSUME NEW m \in 1 .. Len(c)
      PROVE  /\ BlockStart(r, m - 1) \in Nat
             /\ BlockStart(r, m) = BlockStart(r, m - 1) + (Len(c[m]) + 5)
  <2>1. m - 1 \in 0 .. Len(c)
    BY <1>1
  <2>2. PlacesInText(r)
    BY Places
  <2>3. /\ BlockStart(r, m - 1) \in Nat
        /\ BlockStart(r, m) = BlockStart(r, m - 1) + Len(Block(c[m]))
    BY <1>1, <2>1, <2>2 DEF PlacesInText
  <2>4. Len(Block(c[m])) = Len(c[m]) + 5
    BY <1>1, BlockType
  <2> QED
    BY <2>3, <2>4
<1> QED
  BY <1>1, <1>2, <1>3, <1>4 DEF Payload

\* Between the blocks.
LEMMA BlockBegins ==
  ASSUME NEW r, IsRequest(r), NEW m \in 0 .. Len(r.chunks),
         NEW n, n = BlockStart(r, m)
  PROVE  BodyState(r, n, Waiting(Flat(r.chunks, m)))
<1>1. PICK k \in Nat : k = Len(r.chunks)
  BY ChunkFacts
<1>2. CASE m = k
  <2>1. Flat(r.chunks, m) = Payload(r)
    BY <1>1, <1>2, ChunkFacts
  <2>2. n = LastStart(r)
    BY <1>1, <1>2 DEF LastStart
  <2>3. InLastBlock(r, n, Waiting(Flat(r.chunks, m)))
    BY <2>1, <2>2 DEF InLastBlock
  <2> QED
    BY <2>3 DEF BodyState
<1>3. CASE m # k
  <2>1. PICK j \in 1 .. Len(r.chunks) : j = m + 1 /\ j - 1 = m
    BY <1>1, <1>3
  <2>2. PICK o, w : o = 0 /\ w = Waiting(Flat(r.chunks, m))
    OBVIOUS
  <2>3. BlockState(Flat(r.chunks, m), r.chunks[j], o, w)
    BY <2>2 DEF BlockState
  <2>4. o \in 0 .. Len(r.chunks[j]) + 4 /\ n = BlockStart(r, j - 1) + o
    <3>1. IsChunk(r.chunks[j]) /\ BlockStart(r, j - 1) \in Nat
      BY <2>1, ChunkFacts
    <3>2. Len(r.chunks[j]) \in 1 .. 3
      BY <3>1 DEF IsChunk
    <3> QED
      BY <2>1, <2>2, <3>1, <3>2
  <2>5. InBlock(r, j, n, w)
    BY <2>1, <2>3, <2>4 DEF InBlock
  <2> QED
    BY <2>1, <2>2, <2>5 DEF BodyState
<1> QED
  BY <1>2, <1>3

LEMMA InBlockStep ==
  ASSUME NEW r, IsRequest(r), NEW m \in 1 .. Len(r.chunks), NEW n \in Nat, NEW b,
         InBlock(r, m, n, b), NEW y, y = At(Text(r), n), NEW p, p = n + 1
  PROVE  BodyState(r, p, BuildByte(b, y))
<1>1. PICK o \in 0 .. Len(r.chunks[m]) + 4 :
        /\ n = BlockStart(r, m - 1) + o
        /\ BlockState(Flat(r.chunks, m - 1), r.chunks[m], o, b)
  BY DEF InBlock
<1>2. PICK c : c = r.chunks[m]
  OBVIOUS
<1>3. PICK z \in Texts : c = r.chunks[m] /\ z = Flat(r.chunks, m - 1)
  <2>1. m - 1 \in 0 .. Len(r.chunks)
    BY ChunkFacts
  <2> QED
    BY <1>2, <2>1, ChunkFacts
<1>4. IsChunk(c) /\ Flat(r.chunks, m) = z \o c
  BY <1>3, ChunkFacts
<1>5. PICK q \in 1 .. 3 : q = Len(c)
  BY <1>4 DEF IsChunk
<1>6. PICK a \in Nat : a = BlockStart(r, m - 1) /\ BlockStart(r, m) = a + (q + 5)
  BY <1>3, <1>5, ChunkFacts
<1>7. o \in 0 .. q + 4 /\ n = a + o
  BY <1>1, <1>3, <1>5, <1>6
<1>8. y = Block(c)[o + 1]
  <2>1. Occurs(Block(c), Text(r), a)
    BY <1>3, <1>6, Places DEF BlocksOccur
  <2>2. Len(Block(c)) = q + 5
    BY <1>4, <1>5, BlockType
  <2>3. o + 1 \in 1 .. q + 5 /\ n + 1 = a + (o + 1)
    BY <1>7
  <2> QED
    BY <2>1, <2>2, <2>3 DEF Occurs, At
<1>9. PICK e : e = BuildByte(b, y)
  OBVIOUS
<1>10. PICK u \in Nat : u = o + 1
  BY <1>1, <1>3, <1>5
<1>11. BlockState(z, c, u, e)
  BY <1>1, <1>3, <1>4, <1>8, <1>9, <1>10, BlockStep
<1>12. CASE u \in 0 .. q + 4
  <2>1. p = a + u
    BY <1>1, <1>6, <1>10
  <2>2. InBlock(r, m, p, e)
    BY <1>3, <1>5, <1>6, <1>11, <1>12, <2>1 DEF InBlock
  <2> QED
    BY <1>9, <2>2 DEF BodyState
<1>13. CASE u \notin 0 .. q + 4
  <2>1. u = 5 + q /\ p = a + (q + 5)
    BY <1>10, <1>13, <1>7
  <2>2. e = Waiting(z \o c)
    BY <1>5, <1>11, <2>1 DEF BlockState
  <2>3. p = BlockStart(r, m)
    BY <1>6, <2>1
  <2>4. m \in 0 .. Len(r.chunks)
    BY ChunkFacts
  <2>5. BodyState(r, p, Waiting(Flat(r.chunks, m)))
    BY <2>3, <2>4, BlockBegins
  <2> QED
    BY <1>4, <1>9, <2>2, <2>5
<1> QED
  BY <1>12, <1>13

LEMMA EndingFacts ==
  ASSUME NEW r, IsRequest(r)
  PROVE  /\ EndingStart(r) \in Nat /\ LastStart(r) \in Nat
         /\ EndingStart(r) = LastStart(r) + 3
         /\ At(Text(r), LastStart(r)) = "0"
         /\ At(Text(r), LastStart(r) + 1) = "CR"
         /\ At(Text(r), LastStart(r) + 2) = "LF"
<1>1. PICK z \in Texts : z = <<"0">> /\ Len(z) = 1 /\ z[1] = "0"
  BY BytesFacts, OneByte
<1>2. PICK f \in Texts : f = CRLF /\ Len(f) = 2 /\ f[1] = "CR" /\ f[2] = "LF"
  BY CRLFText
<1>3. PICK t : t = Text(r)
  OBVIOUS
<1>4. PICK l \in Nat : t = Text(r) /\ l = LastStart(r)
  BY <1>3, Places DEF PlacesInText
<1>5. Occurs(z, t, l) /\ Occurs(f, t, l + 1)
  BY <1>1, <1>2, <1>4, Places DEF BlocksOccur
<1>6. t[l + 1] = z[1] /\ t[(l + 1) + 1] = f[1] /\ t[(l + 1) + 2] = f[2]
  BY <1>1, <1>2, <1>5 DEF Occurs
<1>7. (l + 1) + 2 = (l + 2) + 1
  BY <1>4
<1> QED
  BY <1>1, <1>2, <1>4, <1>6, <1>7, Places DEF At, EndingStart, PlacesInText

LEMMA LastBlockEnds ==
  ASSUME NEW z
  PROVE  BuildByte(SizeLine(z, <<"0", "CR">>), "LF") = InEnding(z, "NUL")
<1>1. Digits[0 + 1] = "0" /\ 0 \in 0 .. 3
  BY DigitsText
<1>2. PICK s : s = <<"0", "CR">>
  OBVIOUS
<1>3. BuildByte(SizeLine(z, s), "LF") = [SizeLine(z, s) EXCEPT !.size = 0]
  BY <1>1, <1>2, SizeLineEnds
<1>4. PICK a : a = NewBuilder
  OBVIOUS
<1>5. /\ a = [x \in DOMAIN a |-> a[x]]
      /\ a.last = "NUL"
      /\ DOMAIN a = {"size", "read", "buff", "last", "skip", "done", "out"}
  BY <1>4 DEF NewBuilder
<1>6. PICK u, w : /\ u = [[a EXCEPT !.out = z, !.buff = s] EXCEPT !.size = 0]
                  /\ w = [a EXCEPT !.out = z, !.size = 0, !.buff = s, !.last = "NUL"]
  OBVIOUS
<1>7. u = w
  BY <1>5, <1>6
<1> QED
  BY <1>2, <1>3, <1>4, <1>6, <1>7, Zenon DEF SizeLine, InEnding

LEMMA NothingEnds ==
  ASSUME NEW r, EndingStart(r) \in Nat, NEW n, n = EndingStart(r)
  PROVE  ~EndsBefore(r, n) /\ LastByte(r, n) = "NUL"
<1>1. EndingStart(r) + 1 .. n - 1 = {}
  OBVIOUS
<1> QED
  BY <1>1 DEF EndsBefore, LastByte

LEMMA InLastBlockStep ==
  ASSUME NEW r, IsRequest(r), NEW n \in Nat, NEW b,
         InLastBlock(r, n, b), NEW y, y = At(Text(r), n), NEW p, p = n + 1
  PROVE  BodyState(r, p, BuildByte(b, y))
<1>1. PICK l \in Nat, h \in Nat : l = LastStart(r) /\ h = EndingStart(r) /\ h = l + 3
  BY EndingFacts
<1>2. PICK z : z = Payload(r)
  OBVIOUS
<1>3. CASE n = LastStart(r) /\ b = Waiting(Payload(r))
  <2>1. y = "0" /\ p = l + 1 /\ y \notin {"CR", "LF"}
    BY <1>1, <1>3, EndingFacts
  <2>2. BuildByte(b, y) = SizeLine(z, <<"0">>)
    BY <1>2, <1>3, <2>1, WaitingStep
  <2>3. InLastBlock(r, p, BuildByte(b, y))
    BY <1>1, <1>2, <2>1, <2>2 DEF InLastBlock
  <2> QED
    BY <2>3 DEF BodyState
<1>4. CASE n = LastStart(r) + 1 /\ b = SizeLine(Payload(r), <<"0">>)
  <2>1. y = "CR" /\ p = l + 2
    BY <1>1, <1>4, EndingFacts
  <2>2. BuildByte(b, y) = SizeLine(z, <<"0", "CR">>)
    BY <1>2, <1>4, <2>1, SizeLineStep, BytesFacts
  <2>3. InLastBlock(r, p, BuildByte(b, y))
    BY <1>1, <1>2, <2>1, <2>2 DEF InLastBlock
  <2> QED
    BY <2>3 DEF BodyState
<1>5. CASE n = LastStart(r) + 2 /\ b = SizeLine(Payload(r), <<"0", "CR">>)
  <2>1. y = "LF" /\ p = h
    BY <1>1, <1>5, EndingFacts
  <2>2. BuildByte(b, y) = InEnding(z, "NUL")
    BY <1>2, <1>5, <2>1, LastBlockEnds
  <2>3. ~EndsBefore(r, p) /\ LastByte(r, p) = "NUL"
    BY <1>1, <2>1, NothingEnds
  <2>4. BehindLastBlock(r, p, BuildByte(b, y))
    BY <1>1, <1>2, <2>1, <2>2, <2>3 DEF BehindLastBlock
  <2> QED
    BY <2>4 DEF BodyState
<1> QED
  BY <1>3, <1>4, <1>5 DEF InLastBlock

LEMMA EndsNext ==
  ASSUME NEW r, EndingStart(r) \in Nat, NEW n \in Nat, n >= EndingStart(r),
         NEW p, p = n + 1
  PROVE  EndsBefore(r, p) <=> \/ EndsBefore(r, n)
                              \/ LastByte(r, n) = "LF" /\ At(Text(r), n) = "CR"
<1>1. PICK h \in Nat : h = EndingStart(r)
  OBVIOUS
<1>2. CASE n = h
  <2>1. h + 1 .. p - 1 = {} /\ h + 1 .. n - 1 = {}
    BY <1>2
  <2> QED
    BY <1>1, <1>2, <2>1 DEF EndsBefore, LastByte
<1>3. CASE n # h
  <2>1. n >= h + 1
    BY <1>1, <1>3
  <2>2. \A i : i \in h + 1 .. p - 1 <=> (i = n \/ i \in h + 1 .. n - 1)
    BY <1>1, <2>1
  <2>3. LastByte(r, n) = At(Text(r), n - 1)
    BY <1>1, <1>3 DEF LastByte
  <2> QED
    BY <1>1, <2>2, <2>3 DEF EndsBefore
<1> QED
  BY <1>2, <1>3

LEMMA BehindLastBlockStep ==
  ASSUME NEW r, IsRequest(r), NEW n \in Nat, NEW b,
         BehindLastBlock(r, n, b), NEW y, y = At(Text(r), n), NEW p, p = n + 1
  PROVE  BehindLastBlock(r, p, BuildByte(b, y))
<1>1. PICK h \in Nat : h = EndingStart(r)
  BY EndingFacts
<1>2. PICK z, l : z = Payload(r) /\ l = LastByte(r, n)
  OBVIOUS
<1>3. n >= h /\ b = IF EndsBefore(r, n) THEN Finished(z) ELSE InEnding(z, l)
  BY <1>1, <1>2 DEF BehindLastBlock
<1>4. EndsBefore(r, p) <=> EndsBefore(r, n) \/ (l = "LF" /\ y = "CR")
  BY <1>1, <1>2, <1>3, EndsNext
<1>5. LastByte(r, p) = y
  <2>1. p # h /\ p - 1 = n
    BY <1>1, <1>3
  <2> QED
    BY <1>1, <2>1 DEF LastByte
<1>6. p >= h
  BY <1>3
<1>7. CASE EndsBefore(r, n)
  <2>1. BuildByte(b, y) = Finished(z)
    BY <1>3, <1>7, FinishedStep
  <2> QED
    BY <1>1, <1>2, <1>4, <1>6, <1>7, <2>1 DEF BehindLastBlock
<1>8. CASE ~EndsBefore(r, n)
  <2>1. BuildByte(b, y) = IF l = "LF" /\ y = "CR" THEN Finished(z) ELSE InEnding(z, y)
    BY <1>3, <1>8, EndingByte
  <2> QED
    BY <1>1, <1>2, <1>4, <1>5, <1>6, <1>8, <2>1 DEF BehindLastBlock
<1> QED
  BY <1>7, <1>8

LEMMA BodyStateStep ==
  ASSUME NEW r, IsRequest(r), NEW n \in Nat, NEW b, BodyState(r, n, b),
         NEW y, y = At(Text(r), n), NEW p, p = n + 1
  PROVE  BodyState(r, p, BuildByte(b, y))
<1>1. CASE \E m \in 1 .. Len(r.chunks) : InBlock(r, m, n, b)
  BY <1>1, InBlockStep
<1>2. CASE InLastBlock(r, n, b)
  BY <1>2, InLastBlockStep
<1>3. CASE BehindLastBlock(r, n, b)
  <2>1. BehindLastBlock(r, p, BuildByte(b, y))
    BY <1>3, BehindLastBlockStep
  <2> QED
    BY <2>1 DEF BodyState
<1> QED
  BY <1>1, <1>2, <1>3 DEF BodyState

LEMMA BodyAtStart ==
  ASSUME NEW r, IsRequest(r), NEW n, n = BodyStart(r)
  PROVE  BodyState(r, n, NewBuilder)
<1>1. Waiting(<<>>) = NewBuilder
  BY DEF Waiting, NewBuilder
<1>2. PICK m : m = 0 /\ m \in 0 .. Len(r.chunks)
  BY ChunkFacts
<1>3. n = BlockStart(r, m) /\ Flat(r.chunks, m) = <<>>
  BY <1>2, ChunkFacts, Places DEF PlacesInText
<1>4. BodyState(r, n, Waiting(Flat(r.chunks, m)))
  BY <1>2, <1>3, BlockBegins
<1> QED
  BY <1>1, <1>3, <1>4

\* Build over a text.
BuildRun(f, b, s, n) ==
  f = [i \in 0 .. n |-> IF i = 0 THEN b ELSE BuildByte(f[i - 1], s[i])]

LEMMA BuildRunExists ==
  ASSUME NEW b, NEW s, NEW n \in Nat
  PROVE  \E f : BuildRun(f, b, s, n)
<1> DEFINE S == {j \in 0 .. n : \E f : BuildRun(f, b, s, j)}
<1>1. 0 \in S
  <2> DEFINE f == [i \in 0 .. 0 |-> b]
  <2>1. f = [i \in 0 .. 0 |-> IF i = 0 THEN b ELSE BuildByte(f[i - 1], s[i])]
    OBVIOUS
  <2> HIDE DEF f
  <2>2. BuildRun(f, b, s, 0)
    BY <2>1 DEF BuildRun
  <2> QED
    BY <2>2
<1>2. ASSUME NEW j \in 0 .. n - 1, j \in S PROVE j + 1 \in S
  <2>1. PICK f : BuildRun(f, b, s, j)
    BY <1>2
  <2>2. \A i \in 0 .. j : f[i] = IF i = 0 THEN b ELSE BuildByte(f[i - 1], s[i])
    BY <2>1, Zenon DEF BuildRun
  <2> DEFINE g == [i \in 0 .. j + 1 |->
                     IF i = j + 1 THEN BuildByte(f[j], s[j + 1]) ELSE f[i]]
  <2>3. \A i \in 0 .. j : g[i] = f[i]
    OBVIOUS
  <2>4. g[j + 1] = BuildByte(f[j], s[j + 1])
    OBVIOUS
  <2>5. g = [i \in 0 .. j + 1 |-> g[i]]
    OBVIOUS
  <2> HIDE DEF g
  <2>6. ASSUME NEW i \in 0 .. j + 1
        PROVE  g[i] = IF i = 0 THEN b ELSE BuildByte(g[i - 1], s[i])
    <3>1. CASE i = j + 1
      <4>1. i - 1 = j /\ j \in 0 .. j /\ i # 0
        BY <3>1
      <4> QED
        BY <2>3, <2>4, <3>1, <4>1
    <3>2. CASE i \in 0 .. j
      <4>1. i # 0 => i - 1 \in 0 .. j
        BY <3>2
      <4> QED
        BY <2>2, <2>3, <3>2, <4>1
    <3> QED
      BY <3>1, <3>2
  <2>7. BuildRun(g, b, s, j + 1)
    BY <2>5, <2>6, Zenon DEF BuildRun
  <2> QED
    BY <2>7
<1> HIDE DEF S
<1>3. \A j \in 0 .. n : j \in S
  <2>1. 0 \in Int /\ n \in Int
    OBVIOUS
  <2> QED
    BY <1>1, <1>2, <2>1, Induction
<1>4. n \in S
  BY <1>3
<1> QED
  BY <1>4 DEF S

LEMMA BuildLoopIs ==
  ASSUME NEW b, NEW s, Len(s) \in Nat
  PROVE  /\ BuildLoop(b, s)[0] = b
         /\ \A i \in 0 .. Len(s) - 1 :
              BuildLoop(b, s)[i + 1] = BuildByte(BuildLoop(b, s)[i], s[i + 1])
<1>1. PICK n \in Nat : n = Len(s)
  OBVIOUS
<1>2. BuildLoop(b, s) = CHOOSE f : BuildRun(f, b, s, n)
  BY <1>1, Zenon DEF BuildLoop, BuildRun
<1>3. \E f : BuildRun(f, b, s, n)
  BY BuildRunExists
<1>4. PICK f : f = BuildLoop(b, s) /\ BuildRun(f, b, s, n)
  BY <1>2, <1>3, Zenon
<1>5. \A i \in 0 .. n : f[i] = IF i = 0 THEN b ELSE BuildByte(f[i - 1], s[i])
  BY <1>4, Zenon DEF BuildRun
<1>6. f[0] = b
  BY <1>5
<1>7. ASSUME NEW i \in 0 .. n - 1 PROVE f[i + 1] = BuildByte(f[i], s[i + 1])
  <2>1. i + 1 \in 0 .. n /\ i + 1 # 0 /\ i + 1 - 1 = i
    OBVIOUS
  <2> QED
    BY <1>5, <2>1
<1> QED
  BY <1>1, <1>4, <1>6, <1>7

LEMMA BuildLoopSteps ==
  ASSUME NEW r, IsRequest(r), NEW m \in Nat, NEW s \in Texts,
         Occurs(s, Text(r), m), NEW b, BodyState(r, m, b), NEW n, n = m + Len(s)
  PROVE  BodyState(r, n, BuildLoop(b, s)[Len(s)])
<1>1. PICK l \in Nat : l = Len(s)
  BY TextFacts
<1>2. PICK f : f = BuildLoop(b, s)
  OBVIOUS
<1>3. f[0] = b /\ \A i \in 0 .. l - 1 : f[i + 1] = BuildByte(f[i], s[i + 1])
  BY <1>1, <1>2, BuildLoopIs
<1> DEFINE S == {i \in 0 .. l : BodyState(r, m + i, f[i])}
<1>4. 0 \in S
  <2>1. m + 0 = m
    OBVIOUS
  <2> QED
    BY <1>3, <2>1
<1>5. ASSUME NEW i \in 0 .. l - 1, i \in S PROVE i + 1 \in S
  <2>1. PICK k \in Nat, p \in Nat : k = m + i /\ p = m + (i + 1) /\ p = k + 1
    OBVIOUS
  <2>2. BodyState(r, k, f[i])
    BY <1>5, <2>1
  <2>3. s[i + 1] = At(Text(r), k)
    <3>1. i + 1 \in 1 .. Len(s) /\ m + (i + 1) = k + 1
      BY <1>1, <2>1
    <3> QED
      BY <3>1 DEF Occurs, At
  <2>4. PICK e : e = BuildByte(f[i], s[i + 1])
    OBVIOUS
  <2>5. BodyState(r, p, e)
    BY <2>1, <2>2, <2>3, <2>4, BodyStateStep
  <2>6. f[i + 1] = e
    BY <1>3, <2>4
  <2>7. i + 1 \in 0 .. l
    OBVIOUS
  <2> QED
    BY <2>1, <2>5, <2>6, <2>7
<1> HIDE DEF S
<1>6. \A i \in 0 .. l : i \in S
  <2>1. 0 \in Int /\ l \in Int
    OBVIOUS
  <2> QED
    BY <1>4, <1>5, <2>1, Induction
<1>7. l \in S
  BY <1>6
<1>8. BodyState(r, m + l, f[l])
  BY <1>7 DEF S
<1> QED
  BY <1>1, <1>2, <1>8

\* The fields of the builder.
IsBuilder(b) ==
  /\ b = [x \in DOMAIN b |-> b[x]]
  /\ DOMAIN b = {"size", "read", "buff", "last", "skip", "done", "out"}

LEMMA BuilderFields ==
  ASSUME NEW z, NEW b
  PROVE  /\ b = Waiting(z) =>
              /\ IsBuilder(b) /\ b.skip = FALSE /\ b.done = FALSE
              /\ b.size = -1 /\ b.read = 0 /\ b.out = z /\ b.buff = <<>>
         /\ b = Behind(z) =>
              /\ IsBuilder(b) /\ b.skip = TRUE /\ b.done = FALSE
              /\ b.size = -1 /\ b.read = 0 /\ b.out = z
         /\ b = Finished(z) =>
              /\ IsBuilder(b) /\ b.skip = FALSE /\ b.done = TRUE
              /\ b.size = -1 /\ b.read = 0 /\ b.out = z
         /\ \A s : b = SizeLine(z, s) =>
              /\ IsBuilder(b) /\ b.skip = FALSE /\ b.done = FALSE
              /\ b.size = -1 /\ b.read = 0 /\ b.out = z /\ b.buff = s
         /\ \A l : b = InEnding(z, l) =>
              /\ IsBuilder(b) /\ b.skip = FALSE /\ b.done = FALSE
              /\ b.size = 0 /\ b.read = 0 /\ b.out = z /\ b.last = l
         /\ \A c, k : b = InData(z, c, k) =>
              /\ IsBuilder(b) /\ b.skip = FALSE /\ b.done = FALSE
              /\ b.size = Len(c) /\ b.read = k /\ b.out = z \o SubSeq(c, 1, k)
<1>1. ASSUME b = Waiting(z)
      PROVE  /\ IsBuilder(b) /\ b.skip = FALSE /\ b.done = FALSE
             /\ b.size = -1 /\ b.read = 0 /\ b.out = z /\ b.buff = <<>>
  BY <1>1 DEF Waiting, NewBuilder, IsBuilder
<1>2. ASSUME b = Behind(z)
      PROVE  /\ IsBuilder(b) /\ b.skip = TRUE /\ b.done = FALSE
             /\ b.size = -1 /\ b.read = 0 /\ b.out = z
  BY <1>2 DEF Behind, NewBuilder, IsBuilder
<1>3. ASSUME b = Finished(z)
      PROVE  /\ IsBuilder(b) /\ b.skip = FALSE /\ b.done = TRUE
             /\ b.size = -1 /\ b.read = 0 /\ b.out = z
  BY <1>3 DEF Finished, NewBuilder, IsBuilder
<1>4. ASSUME NEW s, b = SizeLine(z, s)
      PROVE  /\ IsBuilder(b) /\ b.skip = FALSE /\ b.done = FALSE
             /\ b.size = -1 /\ b.read = 0 /\ b.out = z /\ b.buff = s
  BY <1>4 DEF SizeLine, NewBuilder, IsBuilder
<1>5. ASSUME NEW l, b = InEnding(z, l)
      PROVE  /\ IsBuilder(b) /\ b.skip = FALSE /\ b.done = FALSE
             /\ b.size = 0 /\ b.read = 0 /\ b.out = z /\ b.last = l
  BY <1>5 DEF InEnding, NewBuilder, IsBuilder
<1>6. ASSUME NEW c, NEW k, b = InData(z, c, k)
      PROVE  /\ IsBuilder(b) /\ b.skip = FALSE /\ b.done = FALSE
             /\ b.size = Len(c) /\ b.read = k /\ b.out = z \o SubSeq(c, 1, k)
  BY <1>6 DEF InData, NewBuilder, IsBuilder
<1> QED
  BY <1>1, <1>2, <1>3, <1>4, <1>5, <1>6, Zenon

LEMMA AsItIs ==
  ASSUME NEW a, NEW f, f \in DOMAIN a, a = [x \in DOMAIN a |-> a[x]], NEW v, a[f] = v
  PROVE  [a EXCEPT ![f] = v] = a
OBVIOUS

\* The end of a burst clears skip.
Stopped(b) == [b EXCEPT !.skip = FALSE]

LEMMA StoppedIs ==
  ASSUME NEW b, IsBuilder(b)
  PROVE  /\ Stopped(b).skip = FALSE
         /\ b.skip = FALSE => Stopped(b) = b
<1>1. PICK f, v : f = "skip" /\ v = FALSE
  OBVIOUS
<1>2. f \in DOMAIN b /\ b = [x \in DOMAIN b |-> b[x]]
  BY <1>1 DEF IsBuilder
<1>3. Stopped(b) = [b EXCEPT ![f] = v]
  BY <1>1, Zenon DEF Stopped
<1>4. [b EXCEPT ![f] = v][f] = v
  BY <1>2
<1>5. b[f] = v => [b EXCEPT ![f] = v] = b
  BY <1>2, AsItIs
<1> QED
  BY <1>1, <1>3, <1>4, <1>5, Zenon

LEMMA BehindStopped ==
  ASSUME NEW z
  PROVE  Stopped(Behind(z)) = Waiting(z)
<1>1. PICK y : y = "CR"
  OBVIOUS
<1>2. BuildByte(Behind(z), y) = Waiting(z)
  BY BehindStep
<1>3. PICK b : b = Behind(z)
  OBVIOUS
<1>4. b.done = FALSE /\ b.skip = TRUE
  BY <1>3, BuilderFields
<1>5. BuildByte(b, y) = Stopped(b)
  BY <1>4 DEF BuildByte, Stopped
<1> QED
  BY <1>2, <1>3, <1>5

Unskipped(b) == IsBuilder(b) /\ b.skip = FALSE

LEMMA AreUnskipped ==
  ASSUME NEW z
  PROVE  /\ Unskipped(Waiting(z)) /\ Unskipped(Finished(z))
         /\ \A s : Unskipped(SizeLine(z, s))
         /\ \A l : Unskipped(InEnding(z, l))
         /\ \A c, k : Unskipped(InData(z, c, k))
BY BuilderFields, Zenon DEF Unskipped

LEMMA BlockStopped ==
  ASSUME NEW z, NEW c, NEW o, NEW b, BlockState(z, c, o, b)
  PROVE  BlockState(z, c, o, Stopped(b)) /\ Stopped(b).skip = FALSE
<1>1. PICK zc, d : zc = z \o c /\ d = <<Digits[Len(c) + 1]>>
  OBVIOUS
<1>2. PICK e : e = <<Digits[Len(c) + 1], "CR">>
  OBVIOUS
<1>3. CASE \/ b = Waiting(z) \/ b = Waiting(zc) \/ b = SizeLine(z, d)
           \/ b = SizeLine(z, e) \/ \E k \in 0 .. Len(c) - 1 : b = InData(z, c, k)
  <2>1. Unskipped(b)
    BY <1>3, AreUnskipped, Zenon
  <2>2. IsBuilder(b) /\ b.skip = FALSE
    BY <2>1 DEF Unskipped
  <2>3. Stopped(b) = b
    BY <2>2, StoppedIs
  <2> QED
    BY <2>2, <2>3
<1>4. CASE o = 3 + Len(c) /\ b = Behind(zc)
  <2>1. Stopped(b) = Waiting(zc)
    BY <1>4, BehindStopped
  <2>2. Stopped(b).skip = FALSE
    BY <2>1, BuilderFields
  <2>3. BlockState(z, c, o, Stopped(b))
    BY <1>1, <1>4, <2>1 DEF BlockState
  <2> QED
    BY <2>2, <2>3
<1> QED
  BY <1>1, <1>2, <1>3, <1>4, Zenon DEF BlockState

LEMMA BodyStopped ==
  ASSUME NEW r, NEW n, NEW b, BodyState(r, n, b)
  PROVE  BodyState(r, n, Stopped(b)) /\ Stopped(b).skip = FALSE
<1>1. ASSUME NEW m \in 1 .. Len(r.chunks), InBlock(r, m, n, b)
      PROVE  BodyState(r, n, Stopped(b)) /\ Stopped(b).skip = FALSE
  <2>1. PICK o \in 0 .. Len(r.chunks[m]) + 4 :
          /\ n = BlockStart(r, m - 1) + o
          /\ BlockState(Flat(r.chunks, m - 1), r.chunks[m], o, b)
    BY <1>1 DEF InBlock
  <2>2. /\ BlockState(Flat(r.chunks, m - 1), r.chunks[m], o, Stopped(b))
        /\ Stopped(b).skip = FALSE
    BY <2>1, BlockStopped
  <2>3. InBlock(r, m, n, Stopped(b))
    BY <2>1, <2>2 DEF InBlock
  <2> QED
    BY <2>2, <2>3 DEF BodyState
<1>2. ASSUME InLastBlock(r, n, b) \/ BehindLastBlock(r, n, b)
      PROVE  BodyState(r, n, Stopped(b)) /\ Stopped(b).skip = FALSE
  <2>1. Unskipped(b)
    BY <1>2, AreUnskipped, Zenon DEF InLastBlock, BehindLastBlock
  <2>2. IsBuilder(b) /\ b.skip = FALSE
    BY <2>1 DEF Unskipped
  <2>3. Stopped(b) = b
    BY <2>2, StoppedIs
  <2> QED
    BY <1>2, <2>2, <2>3 DEF BodyState
<1> QED
  BY <1>1, <1>2 DEF BodyState

\* The servlet's builder of the request r when the bytes before n have been read.
BuilderIs(r, n, b) == BodyState(r, n, b) /\ b.skip = FALSE

LEMMA BuildSteps ==
  ASSUME NEW r, IsRequest(r), NEW m \in Nat, NEW s \in Texts,
         Occurs(s, Text(r), m), NEW b, BuilderIs(r, m, b), NEW n, n = m + Len(s)
  PROVE  BuilderIs(r, n, Build(b, s))
<1>1. PICK e : e = BuildLoop(b, s)[Len(s)]
  OBVIOUS
<1>2. BodyState(r, n, e)
  BY <1>1, BuildLoopSteps DEF BuilderIs
<1>3. Build(b, s) = Stopped(e)
  BY <1>1 DEF Build, Stopped
<1>4. BodyState(r, n, Stopped(e)) /\ Stopped(e).skip = FALSE
  BY <1>2, BodyStopped
<1> QED
  BY <1>3, <1>4 DEF BuilderIs

LEMMA BuilderAtStart ==
  ASSUME NEW r, IsRequest(r), NEW n, n = BodyStart(r)
  PROVE  BuilderIs(r, n, NewBuilder)
<1>1. BodyState(r, n, NewBuilder)
  BY BodyAtStart
<1>2. NewBuilder.skip = FALSE
  BY DEF NewBuilder
<1> QED
  BY <1>1, <1>2 DEF BuilderIs

\* There is one such builder.
BlockValue(z, c, o) ==
  IF o = 0 THEN Waiting(z)
  ELSE IF o = 1 THEN SizeLine(z, <<Digits[Len(c) + 1]>>)
  ELSE IF o = 2 THEN SizeLine(z, <<Digits[Len(c) + 1], "CR">>)
  ELSE IF o < 3 + Len(c) THEN InData(z, c, o - 3)
  ELSE Waiting(z \o c)

LEMMA BlockValueIs ==
  ASSUME NEW z, NEW c, IsChunk(c), NEW o \in 0 .. Len(c) + 4, NEW b,
         BlockState(z, c, o, b), b.skip = FALSE
  PROVE  b = BlockValue(z, c, o)
<1>1. PICK q \in 1 .. 3 : q = Len(c)
  BY DEF IsChunk
<1>2. o \in 0 .. q + 4
  BY <1>1
<1>3. CASE o = 0 /\ b = Waiting(z)
  BY <1>3 DEF BlockValue
<1>4. CASE o = 1 /\ b = SizeLine(z, <<Digits[Len(c) + 1]>>)
  BY <1>4 DEF BlockValue
<1>5. CASE o = 2 /\ b = SizeLine(z, <<Digits[Len(c) + 1], "CR">>)
  BY <1>5 DEF BlockValue
<1>6. ASSUME NEW k \in 0 .. q - 1, o = 3 + k, b = InData(z, c, k)
      PROVE  b = BlockValue(z, c, o)
  <2>1. o # 0 /\ o # 1 /\ o # 2 /\ o < 3 + q /\ o - 3 = k
    BY <1>2, <1>6
  <2> QED
    BY <1>1, <1>6, <2>1 DEF BlockValue
<1>7. ASSUME o \in {3 + q, 4 + q, 5 + q}, b = Waiting(z \o c)
      PROVE  b = BlockValue(z, c, o)
  <2>1. o # 0 /\ o # 1 /\ o # 2 /\ ~(o < 3 + q)
    BY <1>7
  <2> QED
    BY <1>1, <1>7, <2>1 DEF BlockValue
<1>8. b # Behind(z \o c)
  <2>1. PICK a : a = Behind(z \o c)
    OBVIOUS
  <2>2. a.skip = TRUE
    BY <2>1, BuilderFields
  <2> QED
    BY <2>1, <2>2
<1> QED
  BY <1>1, <1>3, <1>4, <1>5, <1>6, <1>7, <1>8 DEF BlockState

LEMMA BlocksGrow ==
  ASSUME NEW r, IsRequest(r), NEW i \in 0 .. Len(r.chunks), NEW j \in 0 .. Len(r.chunks),
         i <= j
  PROVE  /\ BlockStart(r, i) \in Nat /\ BlockStart(r, j) \in Nat
         /\ BlockStart(r, i) <= BlockStart(r, j)
<1>1. PICK b : b = Blocks(r) /\ IsTexts(b) /\ Len(b) = Len(r.chunks)
  BY BlocksType
<1>2. Len(Flat(b, i)) <= Len(Flat(b, j))
  BY <1>1, FlatGrows DEF Grows
<1>3. Len(Flat(b, i)) \in Nat /\ Len(Flat(b, j)) \in Nat
  BY <1>1, FlatType, TextFacts
<1>4. BodyStart(r) \in Nat
  BY Places DEF PlacesInText
<1> QED
  BY <1>1, <1>2, <1>3, <1>4 DEF BlockStart

LEMMA InBlockBounds ==
  ASSUME NEW r, IsRequest(r), NEW m \in 1 .. Len(r.chunks), NEW n \in Nat, NEW b,
         InBlock(r, m, n, b)
  PROVE  /\ BlockStart(r, m - 1) \in Nat /\ BlockStart(r, m) \in Nat
         /\ BlockStart(r, m - 1) <= n /\ n < BlockStart(r, m)
         /\ n < LastStart(r)
<1>1. PICK o \in 0 .. Len(r.chunks[m]) + 4 : n = BlockStart(r, m - 1) + o
  BY DEF InBlock
<1>2. PICK q \in 1 .. 3 : q = Len(r.chunks[m])
  BY ChunkFacts DEF IsChunk
<1>3. PICK a \in Nat : a = BlockStart(r, m - 1) /\ BlockStart(r, m) = a + (q + 5)
  BY <1>2, ChunkFacts
<1>4. o \in 0 .. q + 4 /\ n = a + o
  BY <1>1, <1>2, <1>3
<1>5. PICK k \in Nat : k = Len(r.chunks)
  BY ChunkFacts
<1>6. m \in 0 .. k /\ k \in 0 .. k /\ m <= k
  BY <1>5
<1>7. LastStart(r) \in Nat /\ BlockStart(r, m) <= LastStart(r)
  BY <1>5, <1>6, BlocksGrow DEF LastStart
<1> QED
  BY <1>3, <1>4, <1>7

LEMMA SameBlock ==
  ASSUME NEW r, IsRequest(r), NEW i \in 1 .. Len(r.chunks), NEW j \in 1 .. Len(r.chunks),
         NEW n \in Nat, NEW a, NEW b, InBlock(r, i, n, a), InBlock(r, j, n, b)
  PROVE  ~(i < j)
<1>1. SUFFICES ASSUME i < j PROVE FALSE
  OBVIOUS
<1>2. PICK k \in Nat : k = Len(r.chunks)
  BY ChunkFacts
<1>3. PICK l \in Nat : l = j - 1 /\ l \in 0 .. k /\ i \in 0 .. k /\ i <= l
  BY <1>1, <1>2
<1>4. BlockStart(r, i) <= BlockStart(r, l)
  BY <1>2, <1>3, BlocksGrow
<1>5. n < BlockStart(r, i) /\ BlockStart(r, i) \in Nat
  BY InBlockBounds
<1>6. BlockStart(r, l) <= n /\ BlockStart(r, l) \in Nat
  BY <1>3, InBlockBounds
<1> QED
  BY <1>4, <1>5, <1>6

LEMMA InBlockUnique ==
  ASSUME NEW r, IsRequest(r), NEW m \in 1 .. Len(r.chunks), NEW n \in Nat,
         NEW a, NEW b, InBlock(r, m, n, a), InBlock(r, m, n, b),
         a.skip = FALSE, b.skip = FALSE
  PROVE  a = b
<1>1. PICK z, c : z = Flat(r.chunks, m - 1) /\ c = r.chunks[m]
  OBVIOUS
<1>2. IsChunk(c) /\ BlockStart(r, m - 1) \in Nat
  BY <1>1, ChunkFacts
<1>3. PICK q \in 1 .. 3, h \in Nat : q = Len(c) /\ h = BlockStart(r, m - 1)
  BY <1>2 DEF IsChunk
<1>4. PICK o \in 0 .. Len(c) + 4 : n = h + o /\ BlockState(z, c, o, a)
  BY <1>1, <1>3 DEF InBlock
<1>5. PICK p \in 0 .. Len(c) + 4 : n = h + p /\ BlockState(z, c, p, b)
  BY <1>1, <1>3 DEF InBlock
<1>6. o = p
  <2>1. o \in 0 .. q + 4 /\ p \in 0 .. q + 4
    BY <1>3, <1>4, <1>5
  <2> QED
    BY <1>4, <1>5, <2>1
<1>7. a = BlockValue(z, c, o) /\ b = BlockValue(z, c, p)
  BY <1>2, <1>4, <1>5, BlockValueIs
<1> QED
  BY <1>6, <1>7

LEMMA BuilderUnique ==
  ASSUME NEW r, IsRequest(r), NEW n \in Nat, NEW a, NEW b,
         BuilderIs(r, n, a), BuilderIs(r, n, b)
  PROVE  a = b
<1>1. PICK l \in Nat, h \in Nat : l = LastStart(r) /\ h = EndingStart(r) /\ h = l + 3
  BY EndingFacts
<1>2. a.skip = FALSE /\ b.skip = FALSE /\ BodyState(r, n, a) /\ BodyState(r, n, b)
  BY DEF BuilderIs
<1>3. ASSUME NEW i \in 1 .. Len(r.chunks), InBlock(r, i, n, a),
             NEW j \in 1 .. Len(r.chunks), InBlock(r, j, n, b)
      PROVE  a = b
  <2>1. ~(i < j) /\ ~(j < i)
    BY <1>3, SameBlock
  <2>2. i = j
    BY <2>1
  <2> QED
    BY <1>2, <1>3, <2>2, InBlockUnique
<1>4. ASSUME NEW i \in 1 .. Len(r.chunks),
             InBlock(r, i, n, a) \/ InBlock(r, i, n, b)
      PROVE  n < l
  BY <1>1, <1>4, InBlockBounds
<1>5. InLastBlock(r, n, a) \/ InLastBlock(r, n, b) => n \in l .. h - 1
  BY <1>1 DEF InLastBlock
<1>6. BehindLastBlock(r, n, a) \/ BehindLastBlock(r, n, b) => n >= h
  BY <1>1 DEF BehindLastBlock
<1>7. ASSUME InLastBlock(r, n, a), InLastBlock(r, n, b) PROVE a = b
  BY <1>1, <1>7 DEF InLastBlock
<1>8. ASSUME BehindLastBlock(r, n, a), BehindLastBlock(r, n, b) PROVE a = b
  BY <1>8 DEF BehindLastBlock
<1>9. CASE n < l
  <2>1. /\ ~InLastBlock(r, n, a) /\ ~InLastBlock(r, n, b)
        /\ ~BehindLastBlock(r, n, a) /\ ~BehindLastBlock(r, n, b)
    BY <1>1, <1>5, <1>6, <1>9
  <2> QED
    BY <1>2, <1>3, <2>1 DEF BodyState
<1>10. CASE ~(n < l)
  <2>1. \A i \in 1 .. Len(r.chunks) : ~InBlock(r, i, n, a) /\ ~InBlock(r, i, n, b)
    BY <1>4, <1>10
  <2>2. CASE n < h
    BY <1>1, <1>2, <1>6, <1>7, <2>1, <2>2 DEF BodyState
  <2>3. CASE ~(n < h)
    BY <1>1, <1>2, <1>5, <1>8, <2>1, <2>3 DEF BodyState
  <2> QED
    BY <2>2, <2>3
<1> QED
  BY <1>9, <1>10

\* What the builder has given out so far.
LEMMA BeginsItself ==
  ASSUME NEW s \in Texts
  PROVE  Begins(s, s)
BY TextFacts DEF Begins

LEMMA BeginsJoined ==
  ASSUME NEW s \in Texts, NEW t \in Texts
  PROVE  Begins(s, s \o t)
<1>1. PICK u : u = s \o t
  OBVIOUS
<1>2. /\ Len(u) = Len(s) + Len(t)
      /\ \A i \in 1 .. Len(s) : u[i] = s[i]
  BY <1>1, JoinedTexts
<1>3. Len(s) \in Nat /\ Len(t) \in Nat
  BY TextFacts
<1> QED
  BY <1>1, <1>2, <1>3 DEF Begins

LEMMA BeginsBegins ==
  ASSUME NEW s \in Texts, NEW t \in Texts, NEW u \in Texts, Begins(s, t), Begins(t, u)
  PROVE  Begins(s, u)
<1>1. Len(s) \in Nat /\ Len(t) \in Nat /\ Len(u) \in Nat
  BY TextFacts
<1>2. Len(s) <= Len(t) /\ Len(t) <= Len(u)
  BY DEF Begins
<1>3. ASSUME NEW i \in 1 .. Len(s) PROVE u[i] = s[i]
  <2>1. i \in 1 .. Len(t)
    BY <1>1, <1>2
  <2> QED
    BY <2>1 DEF Begins
<1> QED
  BY <1>1, <1>2, <1>3 DEF Begins

LEMMA BeginsPrefix ==
  ASSUME NEW s \in Texts, NEW t \in Texts, Begins(s, t)
  PROVE  IsPrefix(s, t)
<1>1. PICK n \in Nat : n = Len(s)
  BY TextFacts
<1>2. PICK u : u = SubSeq(t, 1, n)
  OBVIOUS
<1>3. n <= Len(t) /\ \A i \in 1 .. n : t[i] = s[i]
  BY <1>1 DEF Begins
<1>4. /\ u \in Seq(Bytes) /\ Len(u) = (IF 1 <= n THEN n - 1 + 1 ELSE 0)
      /\ \A i \in 1 .. n - 1 + 1 : u[i] = t[1 + i - 1]
  <2>1. \A i \in 1 .. n : t[i] \in Bytes
    BY <1>1, <1>3, TextFacts
  <2>2. 1 \in Int /\ n \in Int
    OBVIOUS
  <2> QED
    BY <1>2, <2>1, <2>2, SubSeqProperties
<1>5. Len(u) = n /\ \A i \in 1 .. n : u[i] = s[i]
  BY <1>3, <1>4
<1>6. u = s
  BY <1>1, <1>4, <1>5, SeqEqual DEF Texts
<1>7. SubSeq(s, 1, n) = s
  BY <1>1, SubSeqFull DEF Texts
<1> QED
  BY <1>1, <1>2, <1>3, <1>6, <1>7 DEF IsPrefix

LEMMA FlatBegins ==
  ASSUME NEW ss, IsTexts(ss), NEW i \in 0 .. Len(ss)
  PROVE  Begins(Flat(ss, i), FlattenSeq(ss))
<1>1. PICK n \in Nat : n = Len(ss)
  BY TextsFacts
<1>2. i \in 0 .. n /\ Flat(ss, n) = FlattenSeq(ss)
  BY <1>1, FlatSteps
<1> DEFINE S == {j \in i .. n : Begins(Flat(ss, i), Flat(ss, j))}
<1>3. i \in S
  <2>1. Begins(Flat(ss, i), Flat(ss, i))
    BY FlatType, BeginsItself
  <2> QED
    BY <1>2, <2>1
<1>4. ASSUME NEW j \in i .. n - 1, j \in S PROVE j + 1 \in S
  <2>1. PICK k \in 1 .. Len(ss) : k = j + 1 /\ k - 1 = j /\ k \in i .. n
    BY <1>1, <1>2
  <2>2. PICK u, v, w : u = Flat(ss, i) /\ v = Flat(ss, j) /\ w = Flat(ss, k)
    OBVIOUS
  <2>3. w = v \o ss[k] /\ v \in Texts /\ w \in Texts /\ ss[k] \in Texts
    BY <2>1, <2>2, FlatNext
  <2>4. u \in Texts
    BY <2>2, FlatType
  <2>5. Begins(u, v)
    BY <1>4, <2>2
  <2>6. Begins(v, w)
    BY <2>3, BeginsJoined
  <2>7. Begins(u, w)
    BY <2>3, <2>4, <2>5, <2>6, BeginsBegins
  <2> QED
    BY <2>1, <2>2, <2>7
<1> HIDE DEF S
<1>5. \A j \in i .. n : j \in S
  <2>1. i \in Int /\ n \in Int
    BY <1>2
  <2> QED
    BY <1>3, <1>4, <2>1, Induction
<1>6. n \in S
  BY <1>2, <1>5
<1> QED
  BY <1>2, <1>6 DEF S

LEMMA BeginsWithin ==
  ASSUME NEW z \in Texts, NEW c \in Texts, NEW k \in 0 .. Len(c)
  PROVE  z \o SubSeq(c, 1, k) \in Texts /\ Begins(z \o SubSeq(c, 1, k), z \o c)
<1>1. PICK m \in Nat, n \in Nat : m = Len(z) /\ n = Len(c)
  BY TextFacts
<1>2. k \in 0 .. n /\ k \in Nat
  BY <1>1
<1>3. PICK u : u = SubSeq(c, 1, k)
  OBVIOUS
<1>4. /\ u \in Seq(Bytes) /\ Len(u) = (IF 1 <= k THEN k - 1 + 1 ELSE 0)
      /\ \A i \in 1 .. k - 1 + 1 : u[i] = c[1 + i - 1]
  <2>1. \A i \in 1 .. k : c[i] \in Bytes
    BY <1>1, <1>2, TextFacts
  <2>2. 1 \in Int /\ k \in Int
    BY <1>2
  <2> QED
    BY <1>3, <2>1, <2>2, SubSeqProperties
<1>5. u \in Texts /\ Len(u) = k /\ \A i \in 1 .. k : u[i] = c[i]
  BY <1>2, <1>4 DEF Texts
<1>6. PICK v, w : v = z \o u /\ w = z \o c
  OBVIOUS
<1>7. /\ v \in Texts /\ Len(v) = m + k
      /\ \A i \in 1 .. m : v[i] = z[i]
      /\ \A i \in 1 .. k : v[m + i] = u[i]
  BY <1>1, <1>5, <1>6, JoinedTexts
<1>8. /\ Len(w) = m + n
      /\ \A i \in 1 .. m : w[i] = z[i]
      /\ \A i \in 1 .. n : w[m + i] = c[i]
  BY <1>1, <1>6, JoinedTexts
<1>9. ASSUME NEW i \in 1 .. m + k PROVE w[i] = v[i]
  <2>1. CASE i <= m
    BY <1>7, <1>8, <2>1
  <2>2. CASE ~(i <= m)
    <3>1. PICK j \in 1 .. k : i = m + j /\ j \in 1 .. n
      <4>1. i - m \in 1 .. k /\ i = m + (i - m) /\ i - m \in 1 .. n
        BY <1>2, <2>2
      <4> QED
        BY <4>1
    <3> QED
      BY <1>5, <1>7, <1>8, <3>1
  <2> QED
    BY <2>1, <2>2
<1>10. m + k <= m + n
  BY <1>2
<1> QED
  BY <1>3, <1>6, <1>7, <1>8, <1>9, <1>10 DEF Begins

CountsWell(b) ==
  /\ b.size \in -1 .. 3 /\ b.read \in 0 .. 3
  /\ b.size > 0 => b.read < b.size
  /\ b.size <= 0 => b.read = 0
Gives(r, b) ==
  /\ b.out \in Texts /\ Begins(b.out, Payload(r))
  /\ b.done => b.out = Payload(r)

LEMMA PayloadGives ==
  ASSUME NEW r, IsRequest(r)
  PROVE  Payload(r) \in Texts /\ Begins(Payload(r), Payload(r))
<1>1. PICK k \in Nat : k = Len(r.chunks) /\ k \in 0 .. Len(r.chunks)
  BY ChunkFacts
<1>2. Payload(r) \in Texts
  BY <1>1, ChunkFacts
<1> QED
  BY <1>2, BeginsItself

LEMMA ChunkGives ==
  ASSUME NEW r, IsRequest(r), NEW m \in 1 .. Len(r.chunks),
         NEW k \in 0 .. Len(r.chunks[m])
  PROVE  /\ Flat(r.chunks, m - 1) \in Texts /\ Begins(Flat(r.chunks, m - 1), Payload(r))
         /\ Flat(r.chunks, m) \in Texts /\ Begins(Flat(r.chunks, m), Payload(r))
         /\ Flat(r.chunks, m) = Flat(r.chunks, m - 1) \o r.chunks[m]
         /\ Flat(r.chunks, m - 1) \o SubSeq(r.chunks[m], 1, k) \in Texts
         /\ Begins(Flat(r.chunks, m - 1) \o SubSeq(r.chunks[m], 1, k), Payload(r))
<1>1. PICK ss : ss = r.chunks /\ IsTexts(ss) /\ Len(ss) \in Nat
  BY BlocksType
<1>2. m - 1 \in 0 .. Len(ss) /\ m \in 0 .. Len(ss)
  BY <1>1
<1>3. PICK z, c : z = Flat(ss, m - 1) /\ c = ss[m]
  OBVIOUS
<1>4. PICK w, p : w = Flat(ss, m) /\ p = Payload(r)
  OBVIOUS
<1>5. /\ z \in Texts /\ c \in Texts /\ w \in Texts /\ w = z \o c
  BY <1>1, <1>3, <1>4, FlatNext
<1>6. Begins(z, p) /\ Begins(w, p)
  BY <1>1, <1>2, <1>3, <1>4, FlatBegins DEF Payload
<1>7. p \in Texts
  BY <1>4, PayloadGives
<1>8. PICK v : v = z \o SubSeq(c, 1, k) /\ v \in Texts /\ Begins(v, w)
  BY <1>1, <1>3, <1>5, BeginsWithin
<1>9. Begins(v, p)
  BY <1>5, <1>6, <1>7, <1>8, BeginsBegins
<1> QED
  BY <1>1, <1>3, <1>4, <1>5, <1>6, <1>8, <1>9

\* No block of data is under way, and z has been given out.
Rests(b, z) == b.size \in {-1, 0} /\ b.read = 0 /\ b.out = z

LEMMA AreResting ==
  ASSUME NEW z
  PROVE  /\ Rests(Waiting(z), z) /\ Rests(Behind(z), z) /\ Rests(Finished(z), z)
         /\ \A s : Rests(SizeLine(z, s), z)
         /\ \A l : Rests(InEnding(z, l), z)
<1>1. Rests(Waiting(z), z)
  BY DEF Rests, Waiting, NewBuilder
<1>2. Rests(Behind(z), z)
  BY DEF Rests, Behind, NewBuilder
<1>3. Rests(Finished(z), z)
  BY DEF Rests, Finished, NewBuilder
<1>4. \A s : Rests(SizeLine(z, s), z)
  BY DEF Rests, SizeLine, NewBuilder
<1>5. \A l : Rests(InEnding(z, l), z)
  BY DEF Rests, InEnding, NewBuilder
<1> QED
  BY <1>1, <1>2, <1>3, <1>4, <1>5

LEMMA RestingGives ==
  ASSUME NEW r, NEW z \in Texts, Begins(z, Payload(r)), NEW b, Rests(b, z),
         b.done => z = Payload(r)
  PROVE  CountsWell(b) /\ Gives(r, b)
<1>1. CountsWell(b)
  BY DEF CountsWell, Rests
<1>2. Gives(r, b)
  BY DEF Gives, Rests
<1> QED
  BY <1>1, <1>2

LEMMA BlockFacts ==
  ASSUME NEW r, IsRequest(r), NEW m \in 1 .. Len(r.chunks), NEW o, NEW b,
         BlockState(Flat(r.chunks, m - 1), r.chunks[m], o, b)
  PROVE  CountsWell(b) /\ Gives(r, b)
<1>1. PICK z, c : z = Flat(r.chunks, m - 1) /\ c = r.chunks[m]
  OBVIOUS
<1>2. PICK q \in 1 .. 3 : q = Len(c)
  BY <1>1, ChunkFacts DEF IsChunk
<1>3. PICK p : p = Payload(r)
  OBVIOUS
<1>4. PICK w : w = z \o c
  OBVIOUS
<1>5. /\ z \in Texts /\ Begins(z, p) /\ w \in Texts /\ Begins(w, p)
      /\ \A k \in 0 .. q : z \o SubSeq(c, 1, k) \in Texts /\ Begins(z \o SubSeq(c, 1, k), p)
  <2>1. PICK k : k = 0 /\ k \in 0 .. Len(r.chunks[m])
    BY <1>1, <1>2
  <2> QED
    BY <1>1, <1>2, <1>3, <1>4, <2>1, ChunkGives
<1>6. PICK d, e : d = <<Digits[Len(c) + 1]>> /\ e = <<Digits[Len(c) + 1], "CR">>
  OBVIOUS
<1>7. ASSUME NEW t, t \in {z, w}, Rests(b, t), b.done = FALSE
      PROVE  CountsWell(b) /\ Gives(r, b)
  BY <1>3, <1>5, <1>7, RestingGives
<1>8. ASSUME \/ b = Waiting(z) \/ b = SizeLine(z, d) \/ b = SizeLine(z, e)
              \/ b = Waiting(w) \/ b = Behind(w)
       PROVE  b.done = FALSE /\ (Rests(b, z) \/ Rests(b, w))
  <2>1. Rests(b, z) \/ Rests(b, w)
    BY <1>8, AreResting, Zenon
  <2>2. b.done = FALSE
    BY <1>8 DEF Waiting, SizeLine, Behind, NewBuilder
  <2> QED
    BY <2>1, <2>2
<1>9. CASE \/ b = Waiting(z) \/ b = SizeLine(z, d) \/ b = SizeLine(z, e)
           \/ b = Waiting(w) \/ b = Behind(w)
  BY <1>7, <1>9, <1>8
<1>10. ASSUME NEW k \in 0 .. q - 1, b = InData(z, c, k)
       PROVE  CountsWell(b) /\ Gives(r, b)
  <2>1. b.size = q /\ b.read = k /\ b.out = z \o SubSeq(c, 1, k) /\ b.done = FALSE
    BY <1>2, <1>10 DEF InData, NewBuilder
  <2>2. PICK u : u = z \o SubSeq(c, 1, k)
    OBVIOUS
  <2>3. u \in Texts /\ Begins(u, p)
    <3>1. k \in 0 .. q
      OBVIOUS
    <3> QED
      BY <1>5, <2>2, <3>1
  <2>4. Gives(r, b)
    BY <1>3, <2>1, <2>2, <2>3 DEF Gives
  <2>5. CountsWell(b)
    BY <2>1 DEF CountsWell
  <2> QED
    BY <2>4, <2>5
<1>11. \/ b = Waiting(z) \/ b = SizeLine(z, d) \/ b = SizeLine(z, e)
       \/ b = Waiting(w) \/ b = Behind(w)
       \/ \E k \in 0 .. q - 1 : b = InData(z, c, k)
  BY <1>1, <1>2, <1>4, <1>6 DEF BlockState
<1> QED
  BY <1>9, <1>10, <1>11

LEMMA BodyFacts ==
  ASSUME NEW r, IsRequest(r), NEW n, NEW b, BodyState(r, n, b)
  PROVE  CountsWell(b) /\ Gives(r, b)
<1>1. PICK p : p = Payload(r) /\ p \in Texts /\ Begins(p, p)
  BY PayloadGives
<1>2. ASSUME Rests(b, p)
      PROVE  CountsWell(b) /\ Gives(r, b)
  BY <1>1, <1>2, RestingGives
<1>3. CASE \E m \in 1 .. Len(r.chunks) : InBlock(r, m, n, b)
  BY <1>3, BlockFacts DEF InBlock
<1>4. CASE InLastBlock(r, n, b)
  <2>1. b = Waiting(p) \/ b = SizeLine(p, <<"0">>) \/ b = SizeLine(p, <<"0", "CR">>)
    BY <1>1, <1>4 DEF InLastBlock
  <2>2. PICK s : b = Waiting(p) \/ b = SizeLine(p, s)
    BY <2>1
  <2>3. Rests(b, p)
    BY <2>2, AreResting, Zenon
  <2> QED
    BY <1>2, <2>3
<1>5. CASE BehindLastBlock(r, n, b)
  <2>1. PICK l : b = Finished(p) \/ b = InEnding(p, l)
    BY <1>1, <1>5 DEF BehindLastBlock
  <2>2. Rests(b, p)
    BY <2>1, AreResting, Zenon
  <2> QED
    BY <1>2, <2>2
<1> QED
  BY <1>3, <1>4, <1>5 DEF BodyState

LEMMA BodyCloses ==
  ASSUME NEW r, IsRequest(r), Closes(r), NEW n, n = Len(Text(r)), NEW b, BodyState(r, n, b)
  PROVE  b.done
<1>1. PICK h \in Nat, l \in Nat :
        /\ h = EndingStart(r) /\ l = Len(r.ending) /\ n = h + l
        /\ h = LastStart(r) + 3
  BY Places, EndingFacts DEF PlacesInText
<1>2. n \in Nat /\ n >= h
  BY <1>1
<1>3. PICK i \in 1 .. l - 1 : r.ending[i] = "LF" /\ r.ending[i + 1] = "CR"
  BY <1>1 DEF Closes
<1>4. EndsBefore(r, n)
  <2>1. Occurs(r.ending, Text(r), h)
    BY <1>1, Places DEF BlocksOccur
  <2>2. \A j \in 1 .. l : Text(r)[h + j] = r.ending[j]
    BY <1>1, <2>1 DEF Occurs
  <2>3. Text(r)[h + i] = "LF" /\ Text(r)[h + (i + 1)] = "CR"
    <3>1. i \in 1 .. l /\ i + 1 \in 1 .. l
      BY <1>1
    <3> QED
      BY <1>3, <2>2, <3>1
  <2>4. PICK k \in h + 1 .. n - 1 : k = h + i /\ (k - 1) + 1 = h + i /\ k + 1 = h + (i + 1)
    <3>1. h + i \in h + 1 .. n - 1
      BY <1>1, <1>3
    <3> QED
      BY <1>1, <1>3, <3>1
  <2> QED
    BY <1>1, <2>3, <2>4 DEF EndsBefore, At
<1>5. ~InLastBlock(r, n, b)
  BY <1>1, <1>2, EndingFacts DEF InLastBlock
<1>6. \A m \in 1 .. Len(r.chunks) : ~InBlock(r, m, n, b)
  <2>1. TAKE m \in 1 .. Len(r.chunks)
  <2>2. SUFFICES ASSUME InBlock(r, m, n, b) PROVE FALSE
    OBVIOUS
  <2>3. n < LastStart(r) /\ LastStart(r) \in Nat
    BY <1>2, <2>2, InBlockBounds, EndingFacts
  <2> QED
    BY <1>1, <1>2, <2>3
<1>7. b = Finished(Payload(r))
  BY <1>4, <1>5, <1>6 DEF BodyState, BehindLastBlock
<1> QED
  BY <1>7, BuilderFields

-----------------------------------------------------------------------------
(* The positions of the head                                               *)

Within(s, n) ==
  /\ s.trav \in 0 .. n /\ s.methodEnd \in 0 .. n /\ s.pathEnd \in 0 .. n
  /\ s.paramStart \in 0 .. n /\ s.paramEnd \in 0 .. n
  /\ s.protStart \in 0 .. n /\ s.protEnd \in 0 .. n /\ s.lineEnd \in 0 .. n
  /\ s.hstart \in 0 .. n /\ s.cur \in 0 .. n /\ s.bodyStart \in 0 .. n

LEMMA WithinGrows ==
  ASSUME NEW m \in Nat, NEW n \in Nat, m <= n, NEW s, Within(s, m)
  PROVE  Within(s, n)
<1>1. \A i \in 0 .. m : i \in 0 .. n
  OBVIOUS
<1> QED
  BY <1>1 DEF Within

LEMMA LineWithin ==
  ASSUME NEW r, IsRequest(r), NEW n \in Nat, n < LineLength(r)
  PROVE  Within(LineAt(r, n), n)
<1>1. PICK m \in Nat, p \in Nat, k \in Nat, l \in Nat :
        m = MethodEnd(r) /\ p = PathEnd(r) /\ k = ParamEnd(r) /\ l = LineLength(r)
  BY LineOrder
<1>2. m < p /\ p <= k /\ k < l
  BY <1>1, LineOrder
<1>3. Within(NewHead, n)
  BY DEF Within, NewHead
<1>4. ASSUME m < n PROVE Within(AfterMethod(r), n)
  BY <1>1, <1>4 DEF Within, AfterMethod, NewHead
<1>5. ASSUME p < n PROVE Within(PathBeforeParams(r), n)
  <2>1. m \in 0 .. n /\ p \in 0 .. n /\ p + 1 \in 0 .. n /\ 0 \in 0 .. n
    BY <1>2, <1>5
  <2> QED
    BY <1>1, <2>1 DEF Within, PathBeforeParams, AfterMethod, NewHead
<1>6. ASSUME p < n PROVE Within(PathBeforeProtocol(r), n)
  <2>1. m \in 0 .. n /\ p \in 0 .. n /\ p + 1 \in 0 .. n /\ 0 \in 0 .. n
    BY <1>2, <1>6
  <2> QED
    BY <1>1, <2>1 DEF Within, PathBeforeProtocol, AfterMethod, NewHead
<1>7. ASSUME k < n, r.params # NoText PROVE Within(AfterParams(r), n)
  <2>1. m \in 0 .. n /\ p \in 0 .. n /\ p + 1 \in 0 .. n /\ 0 \in 0 .. n
        /\ k \in 0 .. n /\ k + 1 \in 0 .. n
    BY <1>2, <1>7
  <2> QED
    BY <1>1, <1>7, <2>1 DEF Within, AfterParams, PathBeforeParams, AfterMethod, NewHead
<1>8. PathNeeds(r) \in Nat /\ ParamsNeed(r) \in Nat
  BY LineOrder
<1>9. CASE n < PathNeeds(r)
  BY <1>1, <1>3, <1>4, <1>9 DEF LineAt
<1>10. CASE ~(n < PathNeeds(r))
  <2>1. r.protocol # NoText /\ PathNeeds(r) = p + 1 /\ p < n /\ m < n
    <3>1. r.protocol # NoText
      BY <1>10, LineOrder
    <3>2. PathNeeds(r) = p + 1
      BY <1>1, <3>1 DEF PathNeeds
    <3> QED
      BY <1>2, <1>10, <3>1, <3>2
  <2>2. CASE n < ParamsNeed(r)
    <3>1. LineAt(r, n) = AfterPath(r)
      BY <1>1, <1>10, <2>1, <2>2 DEF LineAt
    <3> QED
      BY <1>5, <1>6, <2>1, <3>1 DEF AfterPath
  <2>3. CASE ~(n < ParamsNeed(r))
    <3>1. LineAt(r, n) = AfterParams(r)
      BY <1>1, <1>10, <2>1, <2>3 DEF LineAt
    <3>2. CASE r.params # NoText
      <4>1. ParamsNeed(r) = k + 1
        BY <1>1, <3>2 DEF ParamsNeed
      <4>2. k < n
        BY <2>3, <4>1
      <4> QED
        BY <1>7, <3>1, <3>2, <4>2
    <3>3. CASE r.params = NoText
      BY <1>6, <2>1, <3>1, <3>3 DEF AfterParams, AfterPath
    <3> QED
      BY <3>2, <3>3
  <2> QED
    BY <2>2, <2>3
<1> QED
  BY <1>9, <1>10

\* The positions in the line once it is complete.
LinePositions(r, s) ==
  /\ s.line = TRUE
  /\ s.methodEnd = MethodEnd(r) /\ s.pathEnd = PathEnd(r)
  /\ s.hstart = LineLength(r)
  /\ s.lineEnd = LineLength(r) - 2 /\ s.protEnd = LineLength(r) - 2
  /\ s.paramEnd = ParamEnd(r)
  /\ s.paramStart = IF r.params = NoText THEN PathEnd(r) ELSE PathEnd(r) + 1
  /\ s.protStart = IF r.protocol = NoText THEN ParamEnd(r) ELSE ParamEnd(r) + 1

ParsedHas(r, k, s) ==
  /\ LinePositions(r, s) /\ s.cur = k.cur /\ s.saved = k.saved
  /\ k.end = 0 => s.headers = FALSE
  /\ k.end # 0 => s.headers = TRUE
  /\ s.trav = IF k.end = 0 THEN LineLength(r) ELSE k.end + 1
  /\ s.bodyStart = IF k.end = 0 THEN 0 ELSE k.end + 1

LEMMA ParsedIs ==
  ASSUME NEW r, IsRequest(r), NEW k, NEW s, s = ParsedTo(r, k)
  PROVE  ParsedHas(r, k, s)
<1>1. PICK u, c, v, e : u = AfterLine(r) /\ c = k.cur /\ v = k.saved /\ e = k.end
  OBVIOUS
<1>2. PICK t : t = Moved(u, c, v)
  OBVIOUS
<1>3. /\ u = [f \in DOMAIN u |-> u[f]]
      /\ DOMAIN u = {"line", "headers", "trav", "methodEnd", "pathEnd", "paramStart",
                     "paramEnd", "protStart", "protEnd", "lineEnd", "hstart", "cur",
                     "saved", "bodyStart"}
  <2>1. IsHead(u)
    BY <1>1, AfterLineIsHead
  <2>2. DOMAIN NewHead = {"line", "headers", "trav", "methodEnd", "pathEnd", "paramStart",
                          "paramEnd", "protStart", "protEnd", "lineEnd", "hstart", "cur",
                          "saved", "bodyStart"}
    BY DEF NewHead
  <2> QED
    BY <2>1, <2>2 DEF IsHead
<1>4. LinePositions(r, u) /\ u.trav = LineLength(r) /\ u.bodyStart = 0 /\ u.headers = FALSE
  BY <1>1, AfterLineIs DEF AfterLineFields, LinePositions
<1>5. DOMAIN t = DOMAIN u /\ t.cur = c /\ t.saved = v
  BY <1>2, <1>3 DEF Moved
<1>6. \A f \in DOMAIN u \ {"cur", "saved"} : t[f] = u[f]
  BY <1>2, <1>3 DEF Moved
<1>7. LinePositions(r, t) /\ t.trav = LineLength(r) /\ t.bodyStart = 0 /\ t.headers = FALSE
  BY <1>3, <1>4, <1>6 DEF LinePositions
<1>8. CASE e = 0
  <2>1. s = t
    BY <1>1, <1>2, <1>8, Zenon DEF ParsedTo
  <2> QED
    BY <1>1, <1>5, <1>7, <1>8, <2>1 DEF ParsedHas
<1>9. CASE e # 0
  <2>1. s = [t EXCEPT !.headers = TRUE, !.trav = e + 1, !.bodyStart = e + 1]
    BY <1>1, <1>2, <1>9, Zenon DEF ParsedTo
  <2>2. s.headers = TRUE /\ s.trav = e + 1 /\ s.bodyStart = e + 1
    BY <1>3, <1>5, <2>1
  <2>3. \A f \in DOMAIN u \ {"headers", "trav", "bodyStart"} : s[f] = t[f]
    BY <1>5, <2>1
  <2>4. LinePositions(r, s) /\ s.cur = c /\ s.saved = v
    BY <1>3, <1>5, <1>7, <2>3 DEF LinePositions
  <2> QED
    BY <1>1, <1>9, <2>2, <2>4 DEF ParsedHas
<1> QED
  BY <1>8, <1>9

LEMMA LinePositionsWithin ==
  ASSUME NEW r, IsRequest(r), NEW s, LinePositions(r, s),
         NEW n \in Nat, LineLength(r) <= n,
         s.trav \in 0 .. n, s.cur \in 0 .. n, s.bodyStart \in 0 .. n
  PROVE  Within(s, n)
<1>1. PICK m \in Nat, p \in Nat, k \in Nat, l \in Nat :
        m = MethodEnd(r) /\ p = PathEnd(r) /\ k = ParamEnd(r) /\ l = LineLength(r)
  BY LineOrder
<1>2. m < p /\ p <= k /\ k + 2 <= l /\ l <= n
  BY <1>1, LineOrder
<1>3. /\ m \in 0 .. n /\ p \in 0 .. n /\ p + 1 \in 0 .. n
      /\ k \in 0 .. n /\ k + 1 \in 0 .. n /\ l \in 0 .. n /\ l - 2 \in 0 .. n
  BY <1>2
<1> QED
  BY <1>1, <1>3 DEF Within, LinePositions

HeadHolds(r, n, s) ==
  /\ n < LineLength(r) => s.line = FALSE
  /\ LineLength(r) <= n => LinePositions(r, s) /\ s.line = TRUE
  /\ n < BodyStart(r) => s.headers = FALSE /\ Within(s, n)
  /\ BodyStart(r) <= n =>
       /\ s.headers = TRUE /\ s.bodyStart = BodyStart(r) /\ Within(s, BodyStart(r))
       /\ s.saved = SavedUpTo(r, Len(r.headers))

LEMMA LoopEnded ==
  ASSUME NEW r, IsRequest(r), NEW n \in Nat, n >= BodyStart(r), NEW k, LoopState(r, n, k)
  PROVE  /\ k = EndState(r)
         /\ k.cur = HeaderStart(r, Len(r.headers))
         /\ k.saved = SavedUpTo(r, Len(r.headers))
         /\ k.end = BodyStart(r) - 1
<1>1. PICK h \in Nat : h = Len(r.headers)
  BY HeaderTextsType
<1>2. PICK b \in Nat, l \in Nat : b = BodyStart(r) /\ l = LineLength(r)
  BY HeaderPlaces
<1>3. n # l
  BY <1>2, HeaderPlaces
<1>4. ASSUME NEW m \in 0 .. h - 1 PROVE ~(n <= HeaderStart(r, m + 1))
  <2>1. m + 1 \in 0 .. h
    OBVIOUS
  <2>2. HeaderStart(r, m + 1) + 2 <= b /\ HeaderStart(r, m + 1) \in Nat
    BY <1>1, <1>2, <2>1, HeaderPlaces
  <2> QED
    BY <1>2, <2>2
<1>5. n # HeaderStart(r, h) + 1
  <2>1. b = HeaderStart(r, h) + 2 /\ HeaderStart(r, h) \in Nat
    <3>1. h \in 0 .. h
      OBVIOUS
    <3> QED
      BY <1>1, <1>2, <3>1, HeaderPlaces
  <2> QED
    BY <1>2, <2>1
<1>6. k = EndState(r)
  BY <1>1, <1>2, <1>3, <1>4, <1>5 DEF LoopState
<1> QED
  BY <1>6 DEF EndState, BegunState, Begun

LEMMA HeadFacts ==
  ASSUME NEW r, IsRequest(r), NEW n \in Nat, NEW s, HeadIs(r, n, s)
  PROVE  HeadHolds(r, n, s)
<1>1. PICK l \in Nat, b \in Nat : l = LineLength(r) /\ b = BodyStart(r) /\ 2 <= l /\ l < b
  BY HeaderPlaces
<1>2. CASE n < l
  <2>1. s = LineAt(r, n)
    BY <1>1, <1>2 DEF HeadIs
  <2>2. s.line = FALSE /\ s.headers = FALSE
    BY <1>1, <1>2, <2>1, UnfinishedLine
  <2>3. Within(s, n)
    BY <1>1, <1>2, <2>1, LineWithin
  <2>4. ~(l <= n) /\ ~(b <= n) /\ n < b
    BY <1>1, <1>2
  <2> QED
    BY <1>1, <2>2, <2>3, <2>4 DEF HeadHolds
<1>3. CASE ~(n < l)
  <2>1. PICK k : LoopState(r, n, k) /\ s = ParsedTo(r, k)
    BY <1>1, <1>3 DEF HeadIs
  <2>2. ParsedHas(r, k, s)
    BY <2>1, ParsedIs
  <2>3. LinePositions(r, s) /\ s.line = TRUE
    BY <2>2 DEF ParsedHas, LinePositions
  <2>4. CASE n < b
    <3>1. PICK m : StandsIn(r, m, n, k)
      BY <1>1, <2>1, <2>4, LoopStands
    <3>2. k.end = 0 /\ k.cur \in Nat /\ k.cur <= n
      <4>1. HeaderStart(r, m) \in Nat /\ HeaderStart(r, 0) = l
        BY <1>1, <3>1, HeaderPlaces DEF StandsIn
      <4> QED
        BY <1>1, <3>1, <4>1 DEF StandsIn
    <3>3. /\ s.headers = FALSE /\ s.cur \in 0 .. n /\ s.trav \in 0 .. n
          /\ s.bodyStart \in 0 .. n
      <4>1. s.headers = FALSE /\ s.cur = k.cur /\ s.trav = l /\ s.bodyStart = 0
        BY <1>1, <2>2, <3>2 DEF ParsedHas
      <4>2. l \in 0 .. n /\ 0 \in 0 .. n
        BY <1>3
      <4> QED
        BY <3>2, <4>1, <4>2
    <3>4. Within(s, n)
      BY <1>1, <1>3, <2>3, <3>3, LinePositionsWithin
    <3>5. l <= n /\ ~(n < l) /\ ~(b <= n)
      BY <1>1, <1>3, <2>4
    <3> QED
      BY <1>1, <2>3, <3>3, <3>4, <3>5 DEF HeadHolds
  <2>5. CASE ~(n < b)
    <3>1. PICK h \in Nat : h = HeaderStart(r, Len(r.headers)) /\ b = h + 2
      <4>1. Len(r.headers) \in 0 .. Len(r.headers)
        BY HeaderTextsType
      <4> QED
        BY <1>1, <4>1, HeaderPlaces
    <3>2. k.cur = h /\ k.saved = SavedUpTo(r, Len(r.headers)) /\ k.end = b - 1
      <4>1. n >= BodyStart(r)
        BY <1>1, <2>5
      <4>2. /\ k.cur = HeaderStart(r, Len(r.headers))
            /\ k.saved = SavedUpTo(r, Len(r.headers))
            /\ k.end = BodyStart(r) - 1
        BY <2>1, <4>1, LoopEnded
      <4> QED
        BY <1>1, <3>1, <4>2
    <3>3. b - 1 # 0 /\ (b - 1) + 1 = b /\ h \in 0 .. b /\ b \in 0 .. b /\ l <= b
      BY <1>1, <3>1
    <3>4. /\ s.headers = TRUE /\ s.bodyStart = b /\ s.trav = b /\ s.cur = h
          /\ s.saved = SavedUpTo(r, Len(r.headers))
      BY <2>2, <3>2, <3>3 DEF ParsedHas
    <3>5. Within(s, b)
      BY <1>1, <2>3, <3>3, <3>4, LinePositionsWithin
    <3>6. l <= n /\ ~(n < l) /\ b <= n
      BY <1>1, <1>3, <2>5
    <3> QED
      BY <1>1, <2>3, <3>4, <3>5, <3>6 DEF HeadHolds
  <2> QED
    BY <2>4, <2>5
<1> QED
  BY <1>2, <1>3

\* The body does not move the positions.
LEMMA HeadInBody ==
  ASSUME NEW r, IsRequest(r), NEW m \in Nat, m >= BodyStart(r), NEW s, HeadIs(r, m, s),
         NEW n \in Nat, n >= BodyStart(r)
  PROVE  HeadIs(r, n, s)
<1>1. PICK l \in Nat, b \in Nat : l = LineLength(r) /\ b = BodyStart(r) /\ l < b
  BY HeaderPlaces
<1>2. ~(m < l) /\ ~(n < l)
  BY <1>1
<1>3. PICK k : LoopState(r, m, k) /\ s = ParsedTo(r, k)
  BY <1>1, <1>2 DEF HeadIs
<1>4. k = EndState(r)
  BY <1>3, LoopEnded
<1>5. LoopState(r, n, k)
  BY <1>4 DEF LoopState
<1> QED
  BY <1>1, <1>2, <1>3, <1>5 DEF HeadIs

-----------------------------------------------------------------------------
(* One burst                                                               *)

\* The bytes before position i.
Upto(r, i) == SubSeq(Text(r), 1, i)

LEMMA UptoIs ==
  ASSUME NEW r, IsRequest(r), NEW i \in 0 .. Len(Text(r))
  PROVE  /\ Upto(r, i) \in Texts /\ Len(Upto(r, i)) = i
         /\ Starts(Upto(r, i), Text(r), i)
         /\ \A k \in 1 .. i : Upto(r, i)[k] = Text(r)[k]
<1>1. PICK t \in Texts, n \in Nat : t = Text(r) /\ n = Len(t)
  BY Places, TextFacts
<1>2. PICK u : u = Upto(r, i) /\ u \in Texts /\ Starts(u, t, i)
  BY <1>1, StartsSubSeq DEF Upto
<1>3. i \in 0 .. n
  BY <1>1
<1>4. ASSUME NEW k \in 1 .. i PROVE u[k] = t[k]
  <2>1. k - 1 \in 0 .. i - 1 /\ (k - 1) + 1 = k
    BY <1>3
  <2> QED
    BY <1>2, <2>1 DEF Starts, At
<1> QED
  BY <1>1, <1>2, <1>4 DEF Starts

\* The bytes i .. j-1.
Between(r, i, j) == SubSeq(Text(r), i + 1, j)
BetweenIs(r, i, j, e) ==
  /\ e \in Texts /\ Len(e) = j - i /\ Occurs(e, Text(r), i)
  /\ \A k \in 1 .. j - i : e[k] = Text(r)[i + k]

LEMMA BurstIs ==
  ASSUME NEW r, IsRequest(r), NEW i \in Nat, NEW j \in Nat, i <= j, j <= Len(Text(r))
  PROVE  BetweenIs(r, i, j, Between(r, i, j))
<1>1. PICK e : e = Between(r, i, j)
  OBVIOUS
<1>2. PICK t \in Texts, n \in Nat : t = Text(r) /\ n = Len(t)
  BY Places, TextFacts
<1>3. \A k \in 1 .. n : t[k] \in Bytes
  BY <1>2, TextFacts
<1>4. \A k \in i + 1 .. j : t[k] \in Bytes
  BY <1>2, <1>3
<1>5. i + 1 \in Int /\ j \in Int
  OBVIOUS
<1>6. /\ e \in Seq(Bytes) /\ Len(e) = (IF i + 1 <= j THEN j - (i + 1) + 1 ELSE 0)
      /\ \A k \in 1 .. j - (i + 1) + 1 : e[k] = t[i + 1 + k - 1]
  BY <1>2, <1>4, <1>5, <1>1, SubSeqProperties DEF Between
<1>7. Len(e) = j - i /\ \A k \in 1 .. j - i : e[k] = t[i + k]
  BY <1>6
<1>8. i + Len(e) <= Len(t)
  BY <1>2, <1>7
<1> QED
  BY <1>2, <1>6, <1>7, <1>8, <1>1 DEF Texts, Occurs, BetweenIs

LEMMA UptoGrows ==
  ASSUME NEW r, IsRequest(r), NEW i \in Nat, NEW j \in Nat, i <= j, j <= Len(Text(r))
  PROVE  Upto(r, i) \o Between(r, i, j) = Upto(r, j)
<1>1. PICK t \in Texts, n \in Nat : t = Text(r) /\ n = Len(t)
  BY Places, TextFacts
<1>2. i \in 0 .. n /\ j \in 0 .. n
  BY <1>1
<1>3. PICK u, v, e : u = Upto(r, i) /\ v = Upto(r, j) /\ e = Between(r, i, j)
  OBVIOUS
<1>4. u \in Texts /\ Len(u) = i /\ \A k \in 1 .. i : u[k] = t[k]
  BY <1>1, <1>2, <1>3, UptoIs
<1>5. v \in Texts /\ Len(v) = j /\ \A k \in 1 .. j : v[k] = t[k]
  BY <1>1, <1>2, <1>3, UptoIs
<1>6. e \in Texts /\ Len(e) = j - i /\ \A k \in 1 .. j - i : e[k] = t[i + k]
  <2>1. BetweenIs(r, i, j, e)
    BY <1>3, BurstIs
  <2> QED
    BY <1>1, <2>1 DEF BetweenIs
<1>7. PICK w : w = u \o e
  OBVIOUS
<1>8. /\ w \in Texts /\ Len(w) = j
      /\ \A k \in 1 .. i : w[k] = u[k]
      /\ \A k \in 1 .. j - i : w[i + k] = e[k]
  <2>1. /\ w \in Texts /\ Len(w) = Len(u) + Len(e)
        /\ \A k \in 1 .. Len(u) : w[k] = u[k]
        /\ \A k \in 1 .. Len(e) : w[Len(u) + k] = e[k]
    BY <1>4, <1>6, <1>7, JoinedTexts
  <2> QED
    BY <1>4, <1>6, <2>1
<1>9. ASSUME NEW k \in 1 .. j PROVE w[k] = v[k]
  <2>1. CASE k <= i
    BY <1>4, <1>5, <1>8, <2>1
  <2>2. CASE ~(k <= i)
    <3>1. PICK l \in 1 .. j - i : k = i + l
      <4>1. k - i \in 1 .. j - i /\ k = i + (k - i)
        BY <2>2
      <4> QED
        BY <4>1
    <3> QED
      BY <1>5, <1>6, <1>8, <3>1
  <2> QED
    BY <2>1, <2>2
<1>10. w = v
  BY <1>5, <1>8, <1>9, SeqEqual DEF Texts
<1> QED
  BY <1>1, <1>3, <1>7, <1>10

\* What is erased and what the servlet sees.
LEMMA JoinedSub ==
  ASSUME NEW d \in Texts, NEW e \in Texts
  PROVE  /\ Sub(d \o e, Len(d), Len(d \o e)) = e
         /\ Sub(d \o e, 0, Len(d)) = d
<1>1. PICK m \in Nat, n \in Nat : m = Len(d) /\ n = Len(e)
  BY TextFacts
<1>2. PICK w : w = d \o e
  OBVIOUS
<1>3. /\ w \in Texts /\ Len(w) = m + n
      /\ \A i \in 1 .. m : w[i] = d[i]
      /\ \A i \in 1 .. n : w[m + i] = e[i]
  BY <1>1, <1>2, JoinedTexts
<1>4. Occurs(d, w, 0) /\ Occurs(e, w, m)
  BY <1>1, <1>3 DEF Occurs
<1>5. Sub(w, 0, 0 + Len(d)) = d /\ Sub(w, m, m + Len(e)) = e
  BY <1>3, <1>4, OccursSub
<1>6. 0 + Len(d) = m /\ m + Len(e) = Len(w)
  BY <1>1, <1>3
<1> QED
  BY <1>1, <1>2, <1>5, <1>6

\* The parser of the request r when it has seen the bytes before n, and what is
\* kept of the bytes before p.
ParserIs(r, n, s, b) ==
  /\ HeadIs(r, n, s)
  /\ n < BodyStart(r) => b = NewBuilder
  /\ n >= BodyStart(r) => BuilderIs(r, n, b)
DataIs(r, n, p, d, b) ==
  /\ n < BodyStart(r) => d = Upto(r, p)
  /\ n >= BodyStart(r) =>
       /\ d \in Texts /\ Begins(Upto(r, BodyStart(r)), d) /\ Len(d) <= p
       /\ ~b.done => d = Upto(r, BodyStart(r))

LEMMA ParserUnique ==
  ASSUME NEW r, IsRequest(r), NEW n \in Nat, NEW s, NEW b, ParserIs(r, n, s, b),
         NEW u, NEW c, ParserIs(r, n, u, c)
  PROVE  s = u /\ b = c
<1>1. s = u
  BY HeadUnique DEF ParserIs
<1>2. BodyStart(r) \in Nat
  BY HeaderPlaces
<1>3. CASE n < BodyStart(r)
  BY <1>1, <1>3 DEF ParserIs
<1>4. CASE n >= BodyStart(r)
  <2>1. b = c
    BY <1>4, BuilderUnique DEF ParserIs
  <2> QED
    BY <1>1, <2>1
<1> QED
  BY <1>2, <1>3, <1>4

\* What the servlet makes of the bytes a, and what is kept of them.
BodyRead(r, a, b, c, f) ==
  /\ c = Build(b, Sub(a, BodyStart(r), Len(a)))
  /\ f = IF ~c.done THEN Sub(a, 0, BodyStart(r)) ELSE a

\* The headers are complete, and the bytes e of the body have arrived at d.
LEMMA HandleBody ==
  ASSUME NEW r, IsRequest(r), NEW m \in Nat, NEW p \in Nat,
         BodyStart(r) <= m, m <= p, p <= Len(Text(r)),
         NEW d, d = Upto(r, BodyStart(r)), NEW e, e = Between(r, m, p),
         NEW b, BuilderIs(r, m, b),
         NEW a, a = d \o e, NEW c, NEW f, BodyRead(r, a, b, c, f)
  PROVE  BuilderIs(r, p, c) /\ DataIs(r, p, p, f, c)
<1>1. PICK l \in Nat : l = BodyStart(r) /\ l \in 0 .. Len(Text(r)) /\ l <= m
  <2>1. BodyStart(r) \in Nat /\ Len(Text(r)) \in Nat
    BY HeaderPlaces, Places DEF PlacesInText
  <2> QED
    BY <2>1
<1>2. d \in Texts /\ Len(d) = l
  BY <1>1, UptoIs
<1>3. e \in Texts /\ Len(e) = p - m /\ Occurs(e, Text(r), m)
  <2>1. BetweenIs(r, m, p, e)
    BY BurstIs
  <2> QED
    BY <2>1 DEF BetweenIs
<1>4. Sub(a, l, Len(a)) = e /\ Sub(a, 0, l) = d
  BY <1>2, <1>3, JoinedSub
<1>5. c = Build(b, e)
  BY <1>1, <1>4 DEF BodyRead
<1>6. BuilderIs(r, p, c)
  <2>1. p = m + Len(e)
    BY <1>3
  <2> QED
    BY <1>3, <1>5, <2>1, BuildSteps
<1>7. a \in Texts /\ Len(a) = l + (p - m) /\ Begins(d, a)
  <2>1. a \in Texts /\ Len(a) = Len(d) + Len(e)
    BY <1>2, <1>3, JoinedTexts
  <2>2. Begins(d, a)
    BY <1>2, <1>3, BeginsJoined
  <2> QED
    BY <1>2, <1>3, <2>1, <2>2
<1>8. Begins(d, d)
  BY <1>2, BeginsItself
<1>9. l <= p /\ l + (p - m) <= p /\ ~(p < l)
  BY <1>1
<1>10. f = IF ~c.done THEN d ELSE a
  BY <1>1, <1>4 DEF BodyRead
<1>11. DataIs(r, p, p, f, c)
  <2>1. CASE c.done
    BY <1>1, <1>7, <1>9, <1>10, <2>1 DEF DataIs
  <2>2. CASE ~c.done
    BY <1>1, <1>2, <1>8, <1>9, <1>10, <2>2 DEF DataIs
  <2> QED
    BY <2>1, <2>2
<1> QED
  BY <1>6, <1>11

\* One burst, from the byte m on to the byte p.
LEMMA HandleStep ==
  ASSUME NEW r, IsRequest(r), NEW m \in Nat, NEW p \in Nat, m <= p, p <= Len(Text(r)),
         NEW s, NEW b, ParserIs(r, m, s, b), NEW d, DataIs(r, m, m, d, b), ~b.done,
         NEW a, a = d \o Between(r, m, p),
         NEW h, h = Handle(a, s, b)
  PROVE  ParserIs(r, p, h.head, h.builder) /\ DataIs(r, p, p, h.data, h.builder)
<1>1. PICK l \in Nat, n \in Nat : l = BodyStart(r) /\ n = Len(Text(r))
  BY HeaderPlaces, Places DEF PlacesInText
<1>2. PICK t, c, f :
        /\ t = IF s.headers THEN s ELSE Prepare(a, s)
        /\ c = IF t.headers THEN Build(b, Sub(a, t.bodyStart, Len(a))) ELSE b
        /\ f = IF t.headers /\ ~c.done THEN Sub(a, 0, t.bodyStart) ELSE a
  OBVIOUS
<1>3. h.head = t /\ h.builder = c /\ h.data = f
  BY <1>2 DEF Handle
<1>4. CASE m < l
  <2>1. d = Upto(r, m) /\ b = NewBuilder /\ HeadIs(r, m, s)
    BY <1>1, <1>4 DEF ParserIs, DataIs
  <2>2. a = Upto(r, p)
    BY <2>1, UptoGrows
  <2>3. a \in Texts /\ Starts(a, Text(r), p)
    <3>1. p \in 0 .. Len(Text(r))
      BY <1>1
    <3> QED
      BY <2>2, <3>1, UptoIs
  <2>4. HeadIs(r, p, Prepare(a, s)) /\ s.headers = FALSE
    BY <1>1, <1>4, <2>1, <2>3, HeadSteps
  <2>5. t = Prepare(a, s) /\ HeadIs(r, p, t)
    BY <1>2, <2>4
  <2>6. HeadHolds(r, p, t)
    BY <2>5, HeadFacts
  <2>7. CASE p < l
    <3>1. t.headers = FALSE
      BY <1>1, <2>6, <2>7 DEF HeadHolds
    <3>2. c = b /\ f = a
      BY <1>2, <3>1
    <3> QED
      BY <1>1, <1>3, <2>1, <2>2, <2>5, <2>7, <3>2 DEF ParserIs, DataIs
  <2>8. CASE ~(p < l)
    <3>1. t.headers = TRUE /\ t.bodyStart = l
      BY <1>1, <2>6, <2>8 DEF HeadHolds
    <3>2. c = Build(b, Sub(a, l, Len(a))) /\ f = IF ~c.done THEN Sub(a, 0, l) ELSE a
      BY <1>2, <3>1
    <3>3. PICK u, e : u = Upto(r, l) /\ e = Between(r, l, p)
      OBVIOUS
    <3>4. l <= p /\ l <= l /\ BodyStart(r) <= l
      BY <1>1, <2>8
    <3>5. a = u \o e
      <4>1. Upto(r, l) \o Between(r, l, p) = Upto(r, p)
        BY <3>4, UptoGrows
      <4> QED
        BY <2>2, <3>3, <4>1
    <3>6. BuilderIs(r, l, b)
      <4>1. BuilderIs(r, l, NewBuilder)
        BY <1>1, BuilderAtStart
      <4> QED
        BY <2>1, <4>1
    <3>7. BuilderIs(r, p, c) /\ DataIs(r, p, p, f, c)
      <4>1. u = Upto(r, BodyStart(r)) /\ BodyRead(r, a, b, c, f)
        BY <1>1, <3>2, <3>3 DEF BodyRead
      <4> QED
        BY <3>3, <3>5, <3>6, <3>4, <4>1, HandleBody
    <3> QED
      BY <1>1, <1>3, <2>5, <2>8, <3>7 DEF ParserIs
  <2> QED
    BY <2>7, <2>8
<1>5. CASE ~(m < l)
  <2>1. BodyStart(r) <= m /\ m >= BodyStart(r) /\ p >= BodyStart(r)
    BY <1>1, <1>5
  <2>2. d = Upto(r, l) /\ BuilderIs(r, m, b) /\ HeadIs(r, m, s)
    BY <1>1, <1>5 DEF ParserIs, DataIs
  <2>3. s.headers = TRUE /\ s.bodyStart = l
    <3>1. HeadHolds(r, m, s)
      BY <2>2, HeadFacts
    <3> QED
      BY <1>1, <2>1, <3>1 DEF HeadHolds
  <2>4. /\ t = s /\ c = Build(b, Sub(a, l, Len(a)))
        /\ f = IF ~c.done THEN Sub(a, 0, l) ELSE a
    BY <1>2, <2>3
  <2>5. PICK e : e = Between(r, m, p)
    OBVIOUS
  <2>6. a = d \o e
    BY <2>5
  <2>7. BuilderIs(r, p, c) /\ DataIs(r, p, p, f, c)
    <3>1. d = Upto(r, BodyStart(r)) /\ BodyRead(r, a, b, c, f)
      BY <1>1, <2>2, <2>4 DEF BodyRead
    <3> QED
      BY <2>2, <2>5, <2>6, <2>1, <3>1, HandleBody
  <2>8. HeadIs(r, p, t)
    BY <2>2, <2>4, <2>1, HeadInBody
  <2> QED
    BY <1>1, <1>3, <1>5, <2>7, <2>8 DEF ParserIs
<1> QED
  BY <1>4, <1>5

LEMMA ParserAtStart ==
  ASSUME NEW r, IsRequest(r), NEW m, m = 0, NEW d, d = <<>>
  PROVE  ParserIs(r, m, NewHead, NewBuilder) /\ DataIs(r, m, m, d, NewBuilder)
<1>1. m < BodyStart(r) /\ BodyStart(r) \in Nat
  BY HeaderPlaces
<1>2. HeadIs(r, m, NewHead)
  BY HeadAtStart
<1>3. d = Upto(r, m)
  BY SubSeqEmpty DEF Upto
<1> QED
  BY <1>1, <1>2, <1>3 DEF ParserIs, DataIs

-----------------------------------------------------------------------------
(* The inductive invariant                                                 *)

\* The parser has seen the bytes before n of those that arrived: all of them,
\* unless the last burst was answered with an error.
Parsed(n) ==
  /\ n \in 0 .. received
  /\ ParserIs(request, n, head, builder)
  /\ DataIs(request, n, received, data, builder)
  /\ code = 0 => n = received
IInv ==
  /\ request \in Requests
  /\ received \in 0 .. Len(Text(request))
  /\ code \in {0, 400, 414}
  /\ \E n \in 0 .. received : Parsed(n)

LEMMA InitIInv == Init => IInv
<1>1. SUFFICES ASSUME Init PROVE IInv
  OBVIOUS
<1>2. request \in Requests /\ received = 0 /\ data = <<>> /\ code = 0
      /\ head = NewHead /\ builder = NewBuilder
  BY <1>1 DEF Init
<1>3. IsRequest(request)
  BY <1>2, RequestsAssumption
<1>4. Len(Text(request)) \in Nat
  BY <1>3, Places DEF PlacesInText
<1>5. ParserIs(request, received, head, builder)
      /\ DataIs(request, received, received, data, builder)
  BY <1>2, <1>3, ParserAtStart
<1>6. received \in 0 .. received /\ received \in 0 .. Len(Text(request))
  BY <1>2, <1>4
<1>7. Parsed(received)
  BY <1>5, <1>6 DEF Parsed
<1> QED
  BY <1>2, <1>6, <1>7 DEF IInv

\* A burst that is not too long for the text.
Comes(p) == /\ code = 0 /\ ~builder.done
            /\ p \in Nat /\ received <= p /\ p <= Len(Text(request))
            /\ received' = p /\ UNCHANGED request

LEMMA BurstComes ==
  ASSUME IInv, NEW n \in 1 .. BufferSize, Burst(n), UNCHANGED request
  PROVE  \E p : Comes(p) /\ Arrived(n) = data \o Between(request, received, p)
<1>1. received \in Nat /\ BufferSize \in Nat
  BY LimitAssumption DEF IInv
<1>2. PICK p : p = received + n
  OBVIOUS
<1>3. Comes(p)
  BY <1>1, <1>2 DEF Comes, Burst
<1>4. Arrived(n) = data \o Between(request, received, p)
  BY <1>2 DEF Arrived, Between
<1> QED
  BY <1>3, <1>4

LEMMA AllParsed ==
  ASSUME IInv, code = 0
  PROVE  /\ IsRequest(request) /\ received \in Nat /\ Len(Text(request)) \in Nat
         /\ ParserIs(request, received, head, builder)
         /\ DataIs(request, received, received, data, builder)
<1>1. IsRequest(request)
  BY RequestsAssumption DEF IInv
<1>2. Len(Text(request)) \in Nat
  BY <1>1, Places DEF PlacesInText
<1>3. received \in Nat
  BY <1>2 DEF IInv
<1>4. PICK n : Parsed(n)
  BY DEF IInv
<1>5. n = received
  BY <1>4 DEF Parsed
<1> QED
  BY <1>1, <1>2, <1>3, <1>4, <1>5 DEF Parsed

LEMMA ReadIInv ==
  ASSUME IInv, NEW n \in 1 .. BufferSize, Read(n)
  PROVE  IInv'
<1>1. Burst(n) /\ UNCHANGED request /\ code' = 0
  BY DEF Read, Burst
<1>2. PICK p : Comes(p) /\ Arrived(n) = data \o Between(request, received, p)
  BY <1>1, BurstComes
<1>3. /\ p \in Nat /\ received <= p /\ p <= Len(Text(request))
      /\ received' = p /\ request' = request /\ code = 0 /\ ~builder.done
  BY <1>2 DEF Comes
<1>4. PICK a, h : a = Arrived(n) /\ h = Handle(a, head, builder)
  OBVIOUS
<1>5. head' = h.head /\ builder' = h.builder /\ data' = h.data
  BY <1>4 DEF Read
<1>6. ParserIs(request, p, h.head, h.builder)
      /\ DataIs(request, p, p, h.data, h.builder)
  <2>1. a = data \o Between(request, received, p)
    BY <1>2, <1>4
  <2> QED
    BY <1>3, <1>4, <2>1, AllParsed, HandleStep
<1>7. p \in 0 .. p /\ p \in 0 .. Len(Text(request)) /\ Len(Text(request)) \in Nat
  BY <1>3, AllParsed
<1>8. Parsed(p)'
  BY <1>1, <1>3, <1>5, <1>6, <1>7 DEF Parsed
<1> QED
  BY <1>1, <1>3, <1>7, <1>8 DEF IInv

\* A burst that is answered with an error comes before the line is complete.
Refused(n) == /\ ~(head.line = TRUE) /\ data' = Arrived(n) /\ code' \in {400, 414}
              /\ head' = head /\ builder' = builder

LEMMA ErrorIInv ==
  ASSUME IInv, NEW n \in 1 .. BufferSize, Burst(n), UNCHANGED request, Refused(n)
  PROVE  IInv'
<1>1. PICK p : Comes(p) /\ Arrived(n) = data \o Between(request, received, p)
  BY BurstComes
<1>2. /\ p \in Nat /\ received <= p /\ p <= Len(Text(request))
      /\ received' = p /\ request' = request /\ code = 0
  BY <1>1 DEF Comes
<1>3. /\ IsRequest(request) /\ received \in Nat
      /\ ParserIs(request, received, head, builder)
      /\ DataIs(request, received, received, data, builder)
  BY <1>2, AllParsed
<1>4. received < BodyStart(request)
  <2>1. HeadHolds(request, received, head)
    BY <1>3, HeadFacts DEF ParserIs
  <2>2. LineLength(request) \in Nat /\ LineLength(request) < BodyStart(request)
        /\ BodyStart(request) \in Nat
    BY <1>3, HeaderPlaces
  <2>3. ~(LineLength(request) <= received)
    BY <2>1 DEF HeadHolds, Refused
  <2> QED
    BY <1>3, <2>2, <2>3
<1>5. data = Upto(request, received)
  BY <1>3, <1>4 DEF DataIs
<1>6. data' = Upto(request, p)
  <2>1. Upto(request, received) \o Between(request, received, p) = Upto(request, p)
    BY <1>2, <1>3, UptoGrows
  <2> QED
    BY <1>1, <1>5, <2>1 DEF Refused
<1>7. DataIs(request, received, p, Upto(request, p), builder)
  <2>1. BodyStart(request) \in Nat /\ ~(received >= BodyStart(request))
    BY <1>3, <1>4, HeaderPlaces
  <2> QED
    BY <1>4, <2>1 DEF DataIs
<1>8. received \in 0 .. p /\ p \in 0 .. Len(Text(request)) /\ Len(Text(request)) \in Nat
  BY <1>2, <1>3, AllParsed
<1>9. \E m \in 0 .. p : Parsed(m)'
  <2>1. PICK m : m = received
    OBVIOUS
  <2>2. m \in 0 .. p /\ ParserIs(request, m, head, builder)
        /\ DataIs(request, m, p, data', builder)
    BY <1>3, <1>6, <1>7, <1>8, <2>1
  <2>3. head' = head /\ builder' = builder /\ code' # 0 /\ code' \in {0, 400, 414}
    BY DEF Refused
  <2>4. /\ m \in 0 .. received' /\ ParserIs(request', m, head', builder')
        /\ DataIs(request', m, received', data', builder')
    BY <1>2, <2>2, <2>3
  <2> QED
    BY <2>2, <2>3, <2>4 DEF Parsed
<1> QED
  BY <1>2, <1>8, <1>9 DEF IInv, Refused

LEMMA StepIInv == IInv /\ [Next]_vars => IInv'
<1> SUFFICES ASSUME IInv, [Next]_vars PROVE IInv'
  OBVIOUS
<1>1. ASSUME NEW n \in 1 .. BufferSize, Read(n) PROVE IInv'
  BY <1>1, ReadIInv
<1>2. ASSUME NEW n \in 1 .. BufferSize, ReadTooLong(n) PROVE IInv'
  <2>1. Burst(n) /\ UNCHANGED request /\ Refused(n)
    BY <1>2 DEF ReadTooLong, Refused
  <2> QED
    BY <2>1, ErrorIInv
<1>3. ASSUME NEW n \in 1 .. BufferSize, ReadBadLine(n) PROVE IInv'
  <2>1. ~head.line
    BY <1>3 DEF ReadBadLine, BadLine
  <2>2. Burst(n) /\ UNCHANGED request /\ Refused(n)
    BY <1>3, <2>1 DEF ReadBadLine, Refused
  <2> QED
    BY <2>2, ErrorIInv
<1>4. CASE UNCHANGED vars
  BY <1>4 DEF vars, IInv, Parsed, ParserIs, DataIs
<1> QED
  BY <1>1, <1>2, <1>3, <1>4 DEF Next

\* What the parser knows is the same after every burst as if the bytes had been
\* read one by one, so it holds in every state of every request.
THEOREM ParserInvariance == Spec => []IInv
BY InitIInv, StepIInv, PTL DEF Spec

-----------------------------------------------------------------------------
(* What the invariant says of every state                                  *)

\* What is kept of the bytes begins with those that were needed so far.
Keeps(r, n, d) ==
  /\ n \in 0 .. Len(Text(r)) /\ d \in Texts /\ n <= Len(d)
  /\ Begins(Upto(r, n), d)

LEMMA DataKeeps ==
  ASSUME NEW r, IsRequest(r), NEW p \in 0 .. Len(Text(r)), NEW n \in 0 .. p,
         NEW d, NEW b, DataIs(r, n, p, d, b)
  PROVE  /\ n < BodyStart(r) => Keeps(r, n, d)
         /\ n >= BodyStart(r) => Keeps(r, BodyStart(r), d)
         /\ Len(d) <= p
<1>1. Len(Text(r)) \in Nat /\ BodyStart(r) \in Nat
  BY Places, HeaderPlaces DEF PlacesInText
<1>2. n \in Nat /\ p \in Nat /\ n <= p /\ p <= Len(Text(r)) /\ n \in 0 .. Len(Text(r))
  BY <1>1
<1>3. CASE n < BodyStart(r)
  <2>1. d = Upto(r, p) /\ d \in Texts /\ Len(d) = p
    BY <1>3, UptoIs DEF DataIs
  <2>2. Begins(Upto(r, n), d)
    <3>1. PICK t, u : t = Text(r) /\ u = Upto(r, n)
      OBVIOUS
    <3>2. Len(u) = n /\ \A k \in 1 .. n : u[k] = t[k]
      BY <1>2, <3>1, UptoIs
    <3>3. \A k \in 1 .. p : d[k] = t[k]
      BY <2>1, <3>1, UptoIs
    <3> QED
      BY <1>2, <2>1, <3>1, <3>2, <3>3 DEF Begins
  <2>3. ~(n >= BodyStart(r))
    BY <1>1, <1>2, <1>3
  <2> QED
    BY <1>2, <2>1, <2>2, <2>3 DEF Keeps
<1>4. CASE n >= BodyStart(r)
  <2>1. d \in Texts /\ Begins(Upto(r, BodyStart(r)), d) /\ Len(d) <= p
    BY <1>4 DEF DataIs
  <2>2. BodyStart(r) \in 0 .. Len(Text(r)) /\ ~(n < BodyStart(r))
    BY <1>1, <1>2, <1>4
  <2>3. Len(Upto(r, BodyStart(r))) = BodyStart(r)
    BY <2>2, UptoIs
  <2>4. BodyStart(r) <= Len(d)
    BY <2>1, <2>3 DEF Begins
  <2> QED
    BY <2>1, <2>2, <2>4 DEF Keeps
<1> QED
  BY <1>1, <1>2, <1>3, <1>4

\* So every part of them is a part of the text.
LEMMA KeepsSub ==
  ASSUME NEW r, IsRequest(r), NEW n, NEW d, Keeps(r, n, d),
         NEW i \in Nat, NEW j \in Nat, j <= n
  PROVE  Sub(d, i, j) = Sub(Text(r), i, j)
<1>1. PICK t \in Texts : t = Text(r) /\ n \in 0 .. Len(t) /\ n \in Nat
  BY Places DEF Keeps, PlacesInText
<1>2. PICK u : u = Upto(r, n) /\ u \in Texts /\ Len(u) = n /\ Starts(u, t, n)
  BY <1>1, UptoIs
<1>3. d \in Texts /\ Len(d) \in Nat /\ n <= Len(d) /\ Begins(u, d)
  BY <1>2, TextFacts DEF Keeps
<1>4. Starts(u, d, n)
  <2>1. ASSUME NEW l \in 0 .. n - 1 PROVE u[l + 1] = d[l + 1]
    <3>1. l + 1 \in 1 .. Len(u)
      BY <1>1, <1>2
    <3> QED
      BY <1>3, <3>1 DEF Begins
  <2>2. n \in 0 .. Len(d)
    BY <1>1, <1>3
  <2> QED
    BY <1>2, <2>1, <2>2 DEF Starts, At
<1>5. Sub(u, i, j) = Sub(t, i, j)
  BY <1>1, <1>2, SubStarts
<1>6. Sub(u, i, j) = Sub(d, i, j)
  BY <1>1, <1>2, <1>3, <1>4, SubStarts
<1> QED
  BY <1>1, <1>5, <1>6

LEMMA HeadWithin ==
  ASSUME NEW r, IsRequest(r), NEW p \in 0 .. Len(Text(r)), NEW n \in 0 .. p,
         NEW s, NEW d, NEW b, ParserIs(r, n, s, b), DataIs(r, n, p, d, b)
  PROVE  Within(s, Len(d)) /\ Len(d) \in Nat
<1>1. Len(Text(r)) \in Nat /\ BodyStart(r) \in Nat
  BY Places, HeaderPlaces DEF PlacesInText
<1>2. n \in Nat
  OBVIOUS
<1>3. HeadHolds(r, n, s)
  BY <1>2, HeadFacts DEF ParserIs
<1>4. CASE n < BodyStart(r)
  <2>1. Within(s, n) /\ Keeps(r, n, d)
    BY <1>3, <1>4, DataKeeps DEF HeadHolds
  <2>2. Len(d) \in Nat /\ n <= Len(d)
    BY <2>1, TextFacts DEF Keeps
  <2> QED
    BY <1>2, <2>1, <2>2, WithinGrows
<1>5. CASE ~(n < BodyStart(r))
  <2>1. n >= BodyStart(r) /\ BodyStart(r) <= n
    BY <1>1, <1>2, <1>5
  <2>2. Within(s, BodyStart(r)) /\ Keeps(r, BodyStart(r), d)
    BY <1>3, <2>1, DataKeeps DEF HeadHolds
  <2>3. Len(d) \in Nat /\ BodyStart(r) <= Len(d)
    BY <2>2, TextFacts DEF Keeps
  <2> QED
    BY <1>1, <2>2, <2>3, WithinGrows
<1> QED
  BY <1>4, <1>5

\* The parts of the line, once it is complete.
LEMMA LineIsRight ==
  ASSUME NEW r, IsRequest(r), NEW s, LinePositions(r, s),
         NEW n, NEW d, Keeps(r, n, d), LineLength(r) <= n
  PROVE  /\ Sub(d, 0, s.methodEnd) = r.method
         /\ Sub(d, s.methodEnd + 1, s.pathEnd) = r.path
         /\ Sub(d, s.paramStart, s.paramEnd) = Part(r.params)
         /\ Sub(d, s.protStart, s.protEnd) = Part(r.protocol)
<1>1. PICK m \in Nat, p \in Nat, k \in Nat, l \in Nat :
        m = MethodEnd(r) /\ p = PathEnd(r) /\ k = ParamEnd(r) /\ l = LineLength(r)
  BY LineOrder
<1>2. m < p /\ p <= k /\ k + 2 <= l
  BY <1>1, LineOrder
<1>3. LineBytesAre(Text(r), r, m, p, k, l) /\ LineParts(r)
  BY <1>1, LineFacts DEF LineBytes
<1>4. PICK t : t = Text(r)
  OBVIOUS
<1>5. n \in Nat
  BY Places DEF Keeps, PlacesInText
<1>6. PICK e \in Nat : e = l - 2
  BY <1>2
<1>7. m <= n /\ p <= n /\ k <= n /\ e <= n /\ m + 1 \in Nat /\ p + 1 \in Nat /\ k + 1 \in Nat
  BY <1>1, <1>2, <1>5, <1>6
<1>8. \A i, j \in Nat : j <= n => Sub(d, i, j) = Sub(t, i, j)
  BY <1>4, KeepsSub
<1>9. Sub(d, 0, m) = r.method /\ Sub(d, m + 1, p) = r.path
  BY <1>1, <1>3, <1>4, <1>7, <1>8 DEF LineParts
<1>10. /\ r.params # NoText => Sub(d, p + 1, k) = r.params
       /\ r.protocol # NoText => Sub(d, k + 1, e) = r.protocol
  BY <1>1, <1>3, <1>4, <1>6, <1>7, <1>8 DEF LineParts
<1>11. /\ r.params = NoText => k = p
       /\ r.protocol = NoText => e = k
  <2>1. r.params = NoText => k = p
    BY <1>3 DEF LineBytesAre
  <2>2. r.protocol = NoText => l = k + 2
    BY <1>3 DEF LineBytesAre
  <2> QED
    BY <1>6, <2>1, <2>2
<1>12. Sub(d, p, p) = <<>> /\ Sub(d, k, k) = <<>>
  BY SubEmpty
<1>13. PICK i, j : /\ i = IF r.params = NoText THEN p ELSE p + 1
                   /\ j = IF r.protocol = NoText THEN k ELSE k + 1
  OBVIOUS
<1>14. /\ s.methodEnd = m /\ s.pathEnd = p /\ s.paramEnd = k /\ s.protEnd = e
       /\ s.paramStart = i /\ s.protStart = j
  BY <1>1, <1>6, <1>13 DEF LinePositions
<1>15. Sub(d, i, k) = Part(r.params)
  BY <1>10, <1>11, <1>12, <1>13 DEF Part
<1>16. Sub(d, j, e) = Part(r.protocol)
  BY <1>10, <1>11, <1>12, <1>13 DEF Part
<1> QED
  BY <1>9, <1>14, <1>15, <1>16

LEMMA BuilderFacts ==
  ASSUME NEW r, IsRequest(r), NEW n \in Nat, NEW s, NEW b, ParserIs(r, n, s, b)
  PROVE  CountsWell(b) /\ Gives(r, b)
<1>1. BodyStart(r) \in Nat
  BY HeaderPlaces
<1>2. CASE n >= BodyStart(r)
  <2>1. BodyState(r, n, b)
    BY <1>2 DEF ParserIs, BuilderIs
  <2> QED
    BY <2>1, BodyFacts
<1>3. CASE n < BodyStart(r)
  <2>1. BuilderIs(r, BodyStart(r), NewBuilder)
    BY BuilderAtStart
  <2>2. b = NewBuilder
    BY <1>3 DEF ParserIs
  <2>3. BodyState(r, BodyStart(r), b)
    BY <2>1, <2>2 DEF BuilderIs
  <2> QED
    BY <2>3, BodyFacts
<1> QED
  BY <1>1, <1>2, <1>3

LEMMA InvFacts ==
  ASSUME IInv
  PROVE  \E n : /\ IsRequest(request) /\ Parsed(n) /\ n \in Nat
                /\ n \in 0 .. received /\ received \in 0 .. Len(Text(request))
                /\ received \in Nat /\ Len(Text(request)) \in Nat
<1>1. IsRequest(request)
  BY RequestsAssumption DEF IInv
<1>2. Len(Text(request)) \in Nat
  BY <1>1, Places DEF PlacesInText
<1>3. PICK n : Parsed(n) /\ n \in 0 .. received
  BY DEF IInv
<1> QED
  BY <1>1, <1>2, <1>3 DEF IInv

-----------------------------------------------------------------------------
(* The theorems                                                            *)

LEMMA TypeInv == IInv => TypeOK
<1> SUFFICES ASSUME IInv PROVE TypeOK
  OBVIOUS
<1>1. PICK n : /\ IsRequest(request) /\ Parsed(n) /\ n \in Nat
               /\ n \in 0 .. received /\ received \in 0 .. Len(Text(request))
               /\ received \in Nat /\ Len(Text(request)) \in Nat
  BY InvFacts
<1>2. /\ ParserIs(request, n, head, builder)
      /\ DataIs(request, n, received, data, builder)
  BY <1>1 DEF Parsed
<1>3. Within(head, Len(data)) /\ Len(data) \in Nat
  BY <1>1, <1>2, HeadWithin
<1>4. Len(data) <= received
  BY <1>1, <1>2, DataKeeps
<1>5. CountsWell(builder)
  BY <1>1, <1>2, BuilderFacts
<1>6. \A f \in {"trav", "methodEnd", "pathEnd", "paramStart", "paramEnd",
                "protStart", "protEnd", "lineEnd", "hstart", "cur", "bodyStart"} :
        head[f] \in 0 .. Len(data)
  BY <1>3 DEF Within
<1>7. Len(Digits) - 1 = 3
  BY DEF Digits
<1> QED
  BY <1>1, <1>4, <1>5, <1>6, <1>7 DEF TypeOK, CountsWell, IInv

\* No position of the head points behind the bytes that HttpHandler has, and
\* the servlet's builder never counts past the end of a block, however long the
\* request and however it is cut into bursts (HttpHandler.cpp and
\* ChunkedBodyBuilder.cpp).
THEOREM ParserTypeCorrect == Spec => []TypeOK
BY ParserInvariance, TypeInv, PTL

LEMMA SplitInv == IInv => SplitIndependent
<1> SUFFICES ASSUME IInv, code = 0
             PROVE  LET r == Handle(SubSeq(Text(request), 1, received), NewHead, NewBuilder)
                    IN head = r.head /\ builder = r.builder
  BY DEF SplitIndependent
<1>1. /\ IsRequest(request) /\ received \in Nat /\ Len(Text(request)) \in Nat
      /\ ParserIs(request, received, head, builder)
  BY AllParsed
<1>2. received <= Len(Text(request))
  BY <1>1 DEF IInv
<1>3. PICK m, d : m = 0 /\ d = <<>>
  OBVIOUS
<1>4. /\ ParserIs(request, m, NewHead, NewBuilder)
      /\ DataIs(request, m, m, d, NewBuilder)
  BY <1>1, <1>3, ParserAtStart
<1>5. ~NewBuilder.done
  BY DEF NewBuilder
<1>6. PICK a, h : /\ a = SubSeq(Text(request), 1, received)
                  /\ h = Handle(a, NewHead, NewBuilder)
  OBVIOUS
<1>7. a = d \o Between(request, m, received)
  <2>1. m \in Nat /\ m <= received
    BY <1>1, <1>3
  <2>2. Upto(request, m) \o Between(request, m, received) = Upto(request, received)
    BY <1>1, <1>2, <2>1, UptoGrows
  <2>3. Upto(request, m) = d
    BY <1>3, SubSeqEmpty DEF Upto
  <2>4. Upto(request, received) = a
    BY <1>6 DEF Upto
  <2> QED
    BY <2>2, <2>3, <2>4
<1>8. ParserIs(request, received, h.head, h.builder)
  <2>1. m \in Nat /\ m <= received
    BY <1>1, <1>3
  <2> QED
    BY <1>1, <1>2, <1>4, <1>5, <1>6, <1>7, <2>1, HandleStep
<1>9. head = h.head /\ builder = h.builder
  BY <1>1, <1>8, ParserUnique
<1> QED
  BY <1>6, <1>9

\* prepareRequestData() is called after every burst and takes up where it stopped:
\* how the socket cuts the request changes nothing of what is read.
THEOREM AnySplitIsTheSame == Spec => []SplitIndependent
BY ParserInvariance, SplitInv, PTL

LEMMA HeadInv == IInv => HeadIsRight
<1> SUFFICES ASSUME IInv PROVE HeadIsRight
  OBVIOUS
<1>1. PICK n : /\ IsRequest(request) /\ Parsed(n) /\ n \in Nat
               /\ n \in 0 .. received /\ received \in 0 .. Len(Text(request))
               /\ received \in Nat /\ Len(Text(request)) \in Nat
  BY InvFacts
<1>2. /\ ParserIs(request, n, head, builder)
      /\ DataIs(request, n, received, data, builder)
  BY <1>1 DEF Parsed
<1>3. HeadHolds(request, n, head)
  BY <1>1, <1>2, HeadFacts DEF ParserIs
<1>4. /\ LineLength(request) \in Nat /\ BodyStart(request) \in Nat
      /\ LineLength(request) < BodyStart(request)
  BY <1>1, HeaderPlaces
<1>5. ASSUME head.line
      PROVE  /\ Sub(data, 0, head.methodEnd) = request.method
             /\ Sub(data, head.methodEnd + 1, head.pathEnd) = request.path
             /\ Sub(data, head.paramStart, head.paramEnd) = Part(request.params)
             /\ Sub(data, head.protStart, head.protEnd) = Part(request.protocol)
  <2>1. LineLength(request) <= n
    BY <1>1, <1>3, <1>4, <1>5 DEF HeadHolds
  <2>2. LinePositions(request, head)
    BY <1>3, <2>1 DEF HeadHolds
  <2>3. CASE n < BodyStart(request)
    <3>1. Keeps(request, n, data)
      BY <1>1, <1>2, <2>3, DataKeeps
    <3> QED
      BY <1>1, <2>1, <2>2, <3>1, LineIsRight
  <2>4. CASE n >= BodyStart(request)
    <3>1. Keeps(request, BodyStart(request), data)
      BY <1>1, <1>2, <2>4, DataKeeps
    <3>2. LineLength(request) <= BodyStart(request)
      BY <1>4
    <3> QED
      BY <1>1, <2>2, <3>1, <3>2, LineIsRight
  <2> QED
    BY <1>1, <1>4, <2>3, <2>4
<1>6. ASSUME head.headers
      PROVE  head.saved = [i \in DOMAIN request.headers |->
               [key   |-> request.headers[i].key,
                value |-> IF request.headers[i].value = <<>>
                          THEN Blanks(request.headers[i].sep)
                          ELSE request.headers[i].value]]
  <2>1. BodyStart(request) <= n
    BY <1>1, <1>3, <1>4, <1>6 DEF HeadHolds
  <2>2. head.saved = SavedUpTo(request, Len(request.headers))
    BY <1>3, <2>1 DEF HeadHolds
  <2>3. DOMAIN request.headers = 1 .. Len(request.headers)
    BY <1>1 DEF IsRequest
  <2> QED
    BY <2>2, <2>3 DEF SavedUpTo, SavedHeader
<1> QED
  BY <1>5, <1>6 DEF HeadIsRight

\* Method, path, parameters, protocol and every saved header are those of the
\* request, however many headers there are (prepareRequestLine and
\* prepareRequestHeaders).
THEOREM HeadIsSent == Spec => []HeadIsRight
BY ParserInvariance, HeadInv, PTL

LEMMA BodyInText ==
  ASSUME NEW r, IsRequest(r)
  PROVE  BodyStart(r) <= Len(Text(r))
<1>1. PICK k : k = Len(r.chunks) /\ k \in Nat
  BY ChunkFacts
<1>2. PICK m : m = 0 /\ m \in 0 .. Len(r.chunks) /\ k \in 0 .. Len(r.chunks) /\ m <= k
  BY <1>1
<1>3. BlockStart(r, m) <= BlockStart(r, k)
  BY <1>2, BlocksGrow
<1>4. BlockStart(r, m) = BodyStart(r) /\ BodyStart(r) \in Nat
  BY <1>2, Places DEF PlacesInText
<1>5. LastStart(r) = BlockStart(r, k)
  BY <1>1 DEF LastStart
<1>6. LastStart(r) \in Nat /\ EndingStart(r) = LastStart(r) + 3
  BY EndingFacts
<1>7. Len(Text(r)) = EndingStart(r) + Len(r.ending) /\ Len(r.ending) \in Nat
  BY Places DEF PlacesInText
<1> QED
  BY <1>3, <1>4, <1>5, <1>6, <1>7

LEMMA BodyInv == IInv => BodyIsRight
<1> SUFFICES ASSUME IInv PROVE BodyIsRight
  OBVIOUS
<1>1. PICK n : /\ IsRequest(request) /\ Parsed(n) /\ n \in Nat
               /\ n \in 0 .. received /\ received \in 0 .. Len(Text(request))
               /\ received \in Nat /\ Len(Text(request)) \in Nat
  BY InvFacts
<1>2. Gives(request, builder)
  BY <1>1, BuilderFacts DEF Parsed
<1>3. Payload(request) \in Texts
  BY <1>1, PayloadGives
<1>4. builder.out \in Texts /\ Begins(builder.out, Payload(request))
      /\ (builder.done => builder.out = Payload(request))
  BY <1>2 DEF Gives
<1>5. IsPrefix(builder.out, Payload(request))
  BY <1>3, <1>4, BeginsPrefix
<1>6. ASSUME code = 0, received = Len(Text(request)), Closes(request)
      PROVE  builder.done
  <2>1. ParserIs(request, received, head, builder)
    BY <1>6, AllParsed
  <2>2. received >= BodyStart(request)
    <3>1. BodyStart(request) \in Nat
      BY <1>1, HeaderPlaces
    <3> QED
      BY <1>1, <1>6, <3>1, BodyInText
  <2>3. BodyState(request, received, builder)
    BY <2>1, <2>2 DEF ParserIs, BuilderIs
  <2> QED
    BY <1>1, <1>6, <2>3, BodyCloses
<1> QED
  BY <1>4, <1>5, <1>6 DEF BodyIsRight, Payload

\* Line, headers and body: the servlet is given the payload of the blocks in
\* order and nothing else, is told of the end only when it has all of it, and is
\* told of it when the body closes as ChunkedBodyBuilder::build expects.
THEOREM RequestIsSent == Spec => []ParsedIsSent
<1>1. IInv => ParsedIsSent
  BY HeadInv, BodyInv DEF ParsedIsSent
<1> QED
  BY <1>1, ParserInvariance, PTL

=============================================================================
