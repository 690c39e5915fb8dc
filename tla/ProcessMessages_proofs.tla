------------------------ MODULE ProcessMessages_proofs ------------------------
(***************************************************************************)
(* Proofs about ProcessMessages.  The argument: the messages sent to an    *)
(* end lie one after the other in one stream.  An end has consumed a       *)
(* prefix of it - the messages it was handed, the header it keeps and what *)
(* is in its buffer - and the wire holds what follows in the stream.  That *)
(* an answer is never older than its query is counted: the queries without *)
(* answer are those the worker has not handled and those whose answer is   *)
(* under way.                                                              *)
(***************************************************************************)
EXTENDS ProcessMessages, FiniteSetTheorems, SequenceTheorems, TLAPS

ByteOf(m, a) == [msg |-> m, at |-> a]

Size(m) == HeaderSize + m.len

\* What of the current message is no longer in the buffer.
Base(s) == IF s.msgExist THEN HeaderSize ELSE 0

\* The message that an end which was handed gt is reading.
Current(snt, gt) == snt[Len(gt) + 1]

\* b is the part of m that follows its first a bytes.
PartOf(b, m, a) == \A j \in 1 .. Len(b) : b[j] = ByteOf(m, a + j)

Holding(s, snt, gt) ==
  /\ Len(s.entries) = 1
  /\ s.entries[1].want = IF s.msgExist THEN Length(s.header) ELSE HeaderSize
  /\ Len(s.entries[1].buf) < s.entries[1].want
  /\ s.msgExist => /\ Len(gt) < Len(snt) /\ Len(s.header) = HeaderSize
                   /\ PartOf(s.header, Current(snt, gt), 0)
                   /\ Current(snt, gt).len > 0
  /\ Len(s.entries[1].buf) > 0 => Len(gt) < Len(snt)
  /\ PartOf(s.entries[1].buf, Current(snt, gt), Base(s))

\* off[i] bytes of the stream precede the message i.
Offsets(snt, off) ==
  /\ off \in [1 .. Len(snt) + 1 -> Nat]
  /\ \A i \in 1 .. Len(snt) : off[i + 1] = off[i] + Size(snt[i])
  /\ \A a, b \in 1 .. Len(snt) + 1 : a < b => off[a] < off[b]

\* The wire w is the stream after its first c bytes; all of it if whole.
Stream(w, snt, off, c, whole) ==
  /\ c + Len(w) <= off[Len(snt) + 1]
  /\ whole => c + Len(w) = off[Len(snt) + 1]
  /\ \A m \in 1 .. Len(snt), i \in 1 .. Len(w) :
       off[m] < c + i /\ c + i <= off[m + 1] => w[i] = ByteOf(snt[m], c + i - off[m])

Consumed(s, gt, off) == off[Len(gt) + 1] + Base(s) + Len(s.entries[1].buf)

Reading(s, w, snt, gt, whole) ==
  /\ Holding(s, snt, gt)
  /\ \E off : Offsets(snt, off) /\ Stream(w, snt, off, Consumed(s, gt, off), whole)

Typed(s, w, snt, gt) ==
  s \in EndState /\ w \in Seq(Byte) /\ snt \in Seq(Message) /\ gt \in Seq(Seq(Byte))

Whole(snt, gt) ==
  Len(gt) <= Len(snt) /\ \A i \in 1 .. Len(gt) : gt[i] = Bytes(snt[i])

\* One direction: the end s, its wire w, what was sent to it and what it got.
Channel(s, w, snt, gt, whole) ==
  /\ Typed(s, w, snt, gt) /\ Whole(snt, gt)
  /\ IF s.open THEN Reading(s, w, snt, gt, whole) ELSE s.entries = <<>>

Channels ==
  /\ end \in [Ends -> EndState] /\ wire \in [Ends -> Seq(Byte)]
  /\ sent \in [Ends -> Seq(Message)] /\ got \in [Ends -> Seq(Seq(Byte))]
  /\ \A e \in Ends : Channel(end[e], wire[e], sent[e], got[e],
                             end[e].open /\ end[Peer(e)].open)

\* The queries that the worker has not handled.
Queries(snt, gt) == {k \in 1 .. Len(snt) : k > Len(gt) /\ snt[k].type = "total"}
Unhandled == Queries(sent["worker"], got["worker"])

Underway == Len(sent["master"]) - Len(got["master"])

IsAnswer(m) == m.type = "total" /\ m.len = LongSize /\ m.val <= total

Counts ==
  /\ total \in Nat /\ shown \in Nat /\ asked \in Seq(Nat)
  /\ fresh = TRUE /\ shown <= total
  /\ \A j \in 1 .. Len(asked) : asked[j] <= total
  /\ \A j \in 1 .. Len(sent["master"]) : IsAnswer(sent["master"][j])
  /\ Len(asked) = Underway + Cardinality(Unhandled)
  /\ \A j \in 1 .. Underway :
       asked[j] <= sent["master"][Len(got["master"]) + j].val

IInv == Channels /\ Counts

-----------------------------------------------------------------------------
(* Bytes, messages and pieces of the stream                                *)

LEMMA BytesType ==
  ASSUME NEW m \in Message
  PROVE  /\ Bytes(m) \in Seq(Byte) /\ Len(Bytes(m)) = Size(m) /\ Size(m) \in Nat
         /\ \A j \in 1 .. Size(m) : Bytes(m)[j] = ByteOf(m, j)
<1>1. Size(m) \in Nat
  BY SizeAssumption DEF Size, Message
<1>2. \A j \in 1 .. Size(m) : ByteOf(m, j) \in Byte
  BY <1>1 DEF ByteOf, Byte
<1>3. Bytes(m) = [j \in 1 .. Size(m) |-> ByteOf(m, j)]
  BY DEF Bytes, Size, ByteOf
<1>4. Bytes(m) \in Seq(Byte)
  BY <1>1, <1>2, <1>3
<1> QED
  BY <1>1, <1>3, <1>4

LEMMA SubBytes ==
  ASSUME NEW w \in Seq(Byte), NEW k \in 0 .. Len(w)
  PROVE  /\ SubSeq(w, 1, k) \in Seq(Byte) /\ Len(SubSeq(w, 1, k)) = k
         /\ \A i \in 1 .. k : SubSeq(w, 1, k)[i] = w[i]
         /\ SubSeq(w, k + 1, Len(w)) \in Seq(Byte)
         /\ Len(SubSeq(w, k + 1, Len(w))) = Len(w) - k
         /\ \A i \in 1 .. Len(w) - k : SubSeq(w, k + 1, Len(w))[i] = w[k + i]
<1>1. SubSeq(w, 1, k) \in Seq(Byte) /\ Len(SubSeq(w, 1, k)) = k
  OBVIOUS
<1>2. SubSeq(w, k + 1, Len(w)) \in Seq(Byte)
      /\ Len(SubSeq(w, k + 1, Len(w))) = Len(w) - k
  OBVIOUS
<1>3. \A i \in 1 .. k : SubSeq(w, 1, k)[i] = w[i]
  OBVIOUS
<1>4. \A i \in 1 .. Len(w) - k : SubSeq(w, k + 1, Len(w))[i] = w[k + i]
  OBVIOUS
<1> QED
  BY <1>1, <1>2, <1>3, <1>4

LEMMA JoinBytes ==
  ASSUME NEW v \in Seq(Byte), NEW w \in Seq(Byte)
  PROVE  /\ v \o w \in Seq(Byte) /\ Len(v \o w) = Len(v) + Len(w)
         /\ Len(v) \in Nat /\ Len(w) \in Nat
         /\ \A i \in 1 .. Len(v) : (v \o w)[i] = v[i]
         /\ \A i \in 1 .. Len(w) : (v \o w)[Len(v) + i] = w[i]
  OBVIOUS

LEMMA AppendMessage ==
  ASSUME NEW S, NEW q \in Seq(S), NEW m \in S
  PROVE  /\ Append(q, m) \in Seq(S) /\ Len(q) \in Nat
         /\ Len(Append(q, m)) = Len(q) + 1
         /\ Append(q, m)[Len(q) + 1] = m
         /\ \A i \in 1 .. Len(q) : Append(q, m)[i] = q[i] /\ q[i] \in S
  OBVIOUS

LEMMA OffsetType ==
  ASSUME NEW snt \in Seq(Message), NEW off, Offsets(snt, off)
  PROVE  /\ Len(snt) \in Nat /\ off[Len(snt) + 1] \in Nat
         /\ \A i \in 1 .. Len(snt) : off[i] \in Nat /\ off[i + 1] \in Nat
<1> DEFINE L == Len(snt)
<1>1. L \in Nat /\ off \in [1 .. L + 1 -> Nat]
  BY DEF Offsets
<1> HIDE DEF L
<1>2. L + 1 \in 1 .. L + 1 /\ \A i \in 1 .. L : i \in 1 .. L + 1 /\ i + 1 \in 1 .. L + 1
  BY <1>1
<1>3. off[L + 1] \in Nat /\ \A i \in 1 .. L : off[i] \in Nat /\ off[i + 1] \in Nat
  BY <1>1, <1>2
<1> QED
  BY <1>1, <1>3 DEF L

\* The first n bytes of the wire are read.
LEMMA Advance ==
  ASSUME NEW w \in Seq(Byte), NEW snt \in Seq(Message), NEW off, NEW c \in Nat,
         NEW whole, NEW n \in 0 .. Len(w), Offsets(snt, off),
         Stream(w, snt, off, c, whole)
  PROVE  Stream(SubSeq(w, n + 1, Len(w)), snt, off, c + n, whole)
<1> DEFINE v == SubSeq(w, n + 1, Len(w))
<1>1. Len(v) = Len(w) - n /\ \A i \in 1 .. Len(v) : v[i] = w[n + i] /\ n + i \in 1 .. Len(w)
  BY SubBytes
<1> HIDE DEF v
<1>2. (c + n) + Len(v) = c + Len(w)
  BY <1>1
<1>3. ASSUME NEW m \in 1 .. Len(snt), NEW i \in 1 .. Len(v),
             off[m] < (c + n) + i, (c + n) + i <= off[m + 1]
      PROVE  v[i] = ByteOf(snt[m], (c + n) + i - off[m])
  <2>1. n + i \in 1 .. Len(w) /\ v[i] = w[n + i]
    BY <1>1
  <2>2. off[m] \in Nat /\ off[m + 1] \in Nat
    BY OffsetType
  <2>3. off[m] < c + (n + i) /\ c + (n + i) <= off[m + 1]
    BY <1>3, <2>2
  <2>4. w[n + i] = ByteOf(snt[m], c + (n + i) - off[m])
    BY <2>1, <2>3 DEF Stream
  <2> QED
    BY <2>1, <2>2, <2>4
<1>4. Stream(v, snt, off, c + n, whole)
  BY <1>2, <1>3 DEF Stream
<1> QED
  BY <1>4 DEF v

LEMMA Cut ==
  ASSUME NEW w \in Seq(Byte), NEW snt \in Seq(Message), NEW off, NEW c \in Nat,
         NEW whole, NEW k \in 0 .. Len(w), Offsets(snt, off),
         Stream(w, snt, off, c, whole)
  PROVE  Stream(SubSeq(w, 1, k), snt, off, c, FALSE)
<1> DEFINE v == SubSeq(w, 1, k)
<1>1. Len(v) = k /\ \A i \in 1 .. Len(v) : v[i] = w[i] /\ i \in 1 .. Len(w)
  BY SubBytes
<1> HIDE DEF v
<1>2. c + Len(v) <= off[Len(snt) + 1]
  <2>1. c + Len(w) <= off[Len(snt) + 1] /\ Len(w) \in Nat
    BY DEF Stream
  <2> QED
    BY <1>1, <2>1, OffsetType
<1>3. ASSUME NEW m \in 1 .. Len(snt), NEW i \in 1 .. Len(v),
             off[m] < c + i, c + i <= off[m + 1]
      PROVE  v[i] = ByteOf(snt[m], c + i - off[m])
  BY <1>1, <1>3 DEF Stream
<1>4. Stream(v, snt, off, c, FALSE)
  BY <1>2, <1>3 DEF Stream
<1> QED
  BY <1>4 DEF v

\* A message more is sent: it follows everything that is under way.
LEMMA Extend ==
  ASSUME NEW w \in Seq(Byte), NEW snt \in Seq(Message), NEW off, NEW c \in Nat,
         NEW m \in Message, Offsets(snt, off), Stream(w, snt, off, c, TRUE)
  PROVE  \E o : /\ Offsets(Append(snt, m), o)
                /\ \A i \in 1 .. Len(snt) + 1 : o[i] = off[i]
                /\ Stream(w \o Bytes(m), Append(snt, m), o, c, TRUE)
<1> DEFINE L == Len(snt)
           longer == Append(snt, m)
           v == w \o Bytes(m)
           o == [i \in 1 .. L + 2 |-> IF i = L + 2 THEN off[L + 1] + Size(m) ELSE off[i]]
<1>1. /\ L \in Nat /\ Len(longer) = L + 1 /\ longer[L + 1] = m
      /\ \A i \in 1 .. L : longer[i] = snt[i] /\ snt[i] \in Message
  BY AppendMessage
<1>2. /\ Len(w) \in Nat /\ Len(v) = Len(w) + Size(m) /\ Size(m) \in Nat \ {0}
      /\ \A i \in 1 .. Len(w) : v[i] = w[i]
      /\ \A i \in 1 .. Size(m) : v[Len(w) + i] = ByteOf(m, i)
  <2>1. /\ Bytes(m) \in Seq(Byte) /\ Len(Bytes(m)) = Size(m) /\ Size(m) \in Nat
        /\ \A j \in 1 .. Size(m) : Bytes(m)[j] = ByteOf(m, j)
    BY BytesType
  <2>2. Size(m) # 0
    BY SizeAssumption DEF Size, Message
  <2>3. /\ Len(w) \in Nat /\ Len(v) = Len(w) + Len(Bytes(m))
        /\ \A i \in 1 .. Len(w) : v[i] = w[i]
        /\ \A i \in 1 .. Len(Bytes(m)) : v[Len(w) + i] = Bytes(m)[i]
    BY <2>1, JoinBytes
  <2> HIDE DEF v
  <2> QED
    BY <2>1, <2>2, <2>3
<1>3. /\ \A i \in 1 .. L + 1 : off[i] \in Nat
      /\ c + Len(w) = off[L + 1]
  BY <1>1 DEF Offsets, Stream
<1>4. /\ o \in [1 .. L + 2 -> Nat] /\ o[L + 2] = off[L + 1] + Size(m)
      /\ \A i \in 1 .. L + 1 : o[i] = off[i] /\ i \in 1 .. L + 2
  <2>1. \A i \in 1 .. L + 2 : i # L + 2 => i \in 1 .. L + 1
    BY <1>1
  <2>2. off[L + 1] + Size(m) \in Nat
    BY <1>1, <1>2, <1>3
  <2>3. L + 2 \in 1 .. L + 2
    BY <1>1
  <2>4. \A i \in 1 .. L + 1 : i # L + 2 /\ i \in 1 .. L + 2
    BY <1>1
  <2> HIDE DEF L
  <2> QED
    BY <1>3, <2>1, <2>2, <2>3, <2>4
<1> HIDE DEF o, v, longer
<1>5. Offsets(longer, o)
  <2>1. Len(longer) + 1 = L + 2
    BY <1>1
  <2>2. ASSUME NEW i \in 1 .. Len(longer)
        PROVE  o[i + 1] = o[i] + Size(longer[i])
    <3>1. CASE i = L + 1
      BY <3>1, <1>1, <1>4
    <3>2. CASE i # L + 1
      <4>1. i \in 1 .. L /\ i \in 1 .. L + 1 /\ i + 1 \in 1 .. L + 1
        BY <3>2, <1>1
      <4>2. off[i + 1] = off[i] + Size(snt[i])
        BY <4>1 DEF Offsets
      <4> QED
        BY <4>1, <4>2, <1>1, <1>4
    <3> QED
      BY <3>1, <3>2
  <2>3. ASSUME NEW a \in 1 .. L + 2, NEW b \in 1 .. L + 2, a < b
        PROVE  o[a] < o[b]
    <3>1. a \in 1 .. L + 1
      BY <2>3, <1>1
    <3> HIDE DEF L
    <3>4. o[a] = off[a] /\ off[a] \in Nat
      BY <3>1, <1>3, <1>4
    <3> USE DEF L
    <3>2. CASE b = L + 2
      <4>1. L + 1 \in 1 .. L + 1 /\ off[L + 1] \in Nat
        BY <1>1, <1>3
      <4>2. off[a] <= off[L + 1]
        <5>1. a = L + 1 \/ a < L + 1
          BY <3>1, <1>1
        <5>2. a < L + 1 => off[a] < off[L + 1]
          BY <3>1, <4>1 DEF Offsets
        <5> QED
          BY <3>4, <4>1, <5>1, <5>2
      <4> QED
        BY <3>4, <3>2, <4>1, <4>2, <1>2, <1>4
    <3>3. CASE b # L + 2
      <4>1. b \in 1 .. L + 1
        BY <3>3, <1>1
      <4>2. off[a] < off[b]
        BY <2>3, <3>1, <4>1 DEF Offsets
      <4> QED
        BY <3>4, <4>1, <4>2, <1>4
    <3> QED
      BY <3>2, <3>3
  <2> QED
    BY <2>1, <2>2, <2>3, <1>4 DEF Offsets
<1>6. Stream(v, longer, o, c, TRUE)
  <2>1. Len(longer) + 1 = L + 2 /\ c + Len(v) = o[L + 2] /\ o[L + 2] \in Nat
    BY <1>1, <1>2, <1>3, <1>4
  <2>2. ASSUME NEW k \in 1 .. Len(longer), NEW i \in 1 .. Len(v),
               o[k] < c + i, c + i <= o[k + 1]
        PROVE  v[i] = ByteOf(longer[k], c + i - o[k])
    <3>1. CASE k = L + 1
      <4>1. o[k] = off[L + 1] /\ longer[k] = m
        BY <3>1, <1>1, <1>4
      <4>2. i - Len(w) \in 1 .. Size(m) /\ c + i - o[k] = i - Len(w)
        BY <2>2, <4>1, <1>1, <1>2, <1>3
      <4>3. v[Len(w) + (i - Len(w))] = ByteOf(m, i - Len(w))
        BY <4>2, <1>2
      <4>4. Len(w) + (i - Len(w)) = i
        BY <1>2
      <4> QED
        BY <4>1, <4>2, <4>3, <4>4
    <3>2. CASE k # L + 1
      <4>1. /\ k \in 1 .. L /\ k \in 1 .. L + 1 /\ k + 1 \in 1 .. L + 1
            /\ L + 1 \in 1 .. L + 1
        BY <3>2, <1>1
      <4>2. /\ o[k] = off[k] /\ o[k + 1] = off[k + 1] /\ longer[k] = snt[k]
            /\ off[k] \in Nat /\ off[k + 1] \in Nat /\ off[L + 1] \in Nat
        BY <4>1, <1>1, <1>3, <1>4
      <4>3. off[k + 1] <= off[L + 1]
        <5>1. k + 1 = L + 1 \/ k + 1 < L + 1
          BY <4>1, <1>1
        <5>2. k + 1 < L + 1 => off[k + 1] < off[L + 1]
          BY <4>1 DEF Offsets
        <5> QED
          BY <4>2, <5>1, <5>2
      <4>4. i \in 1 .. Len(w)
        BY <2>2, <4>2, <4>3, <1>2, <1>3
      <4>5. w[i] = ByteOf(snt[k], c + i - off[k])
        BY <2>2, <4>1, <4>2, <4>4 DEF Stream
      <4> QED
        BY <4>2, <4>4, <4>5, <1>2
    <3> QED
      BY <3>1, <3>2
  <2> QED
    BY <2>1, <2>2, <1>1, <1>2 DEF Stream
<1> QED
  BY <1>1, <1>4, <1>5, <1>6 DEF longer, v

-----------------------------------------------------------------------------
(* One end: what it holds, what it takes                                   *)

\* The request of an open end.
LEMMA FrontEntry ==
  ASSUME NEW s, NEW w, NEW snt, NEW gt, Typed(s, w, snt, gt), Holding(s, snt, gt)
  PROVE  /\ s.entries = <<s.entries[1]>> /\ Head(s.entries) = s.entries[1]
         /\ Len(s.entries) = 1 /\ Tail(s.entries) = <<>>
         /\ s.entries[1] \in Entry /\ s.entries[1].want \in Nat
         /\ s.entries[1].buf \in Seq(Byte) /\ Len(s.entries[1].buf) \in Nat
         /\ Base(s) \in Nat /\ Len(gt) \in Nat /\ Len(snt) \in Nat
<1>1. s.entries \in Seq(Entry) /\ Len(s.entries) = 1
  BY DEF Typed, Holding, EndState
<1>2. /\ s.entries = <<s.entries[1]>> /\ Head(s.entries) = s.entries[1]
      /\ Tail(s.entries) = <<>> /\ s.entries[1] \in Entry
  <2>1. \A q \in Seq(Entry) : Len(q) = 1 => /\ q = <<q[1]>> /\ Head(q) = q[1]
                                            /\ q[1] \in Entry
    OBVIOUS
  <2>2. ASSUME NEW q \in Seq(Entry), Len(q) = 1 PROVE Tail(q) = <<>>
    <3>1. q # <<>>
      BY <2>2, EmptySeq
    <3>2. Tail(q) \in Seq(Entry) /\ Len(Tail(q)) = 0
      BY <2>2, <3>1, HeadTailProperties
    <3> QED
      BY <3>2, EmptySeq
  <2> QED
    BY <1>1, <2>1, <2>2
<1>3. s.entries[1].want \in Nat /\ s.entries[1].buf \in Seq(Byte)
  BY <1>2 DEF Entry
<1>4. Base(s) \in Nat /\ Len(gt) \in Nat /\ Len(snt) \in Nat
  BY SizeAssumption DEF Base, Typed
<1> QED
  BY <1>1, <1>2, <1>3, <1>4

\* What is asked for and what is held do not exceed the message being read.
LEMMA WantFits ==
  ASSUME NEW s, NEW w, NEW snt, NEW gt, Typed(s, w, snt, gt), Holding(s, snt, gt),
         Len(gt) < Len(snt)
  PROVE  /\ Current(snt, gt) \in Message /\ Len(gt) + 1 \in 1 .. Len(snt)
         /\ s.msgExist => s.entries[1].want = Current(snt, gt).len
         /\ Base(s) + s.entries[1].want <= Size(Current(snt, gt))
<1> DEFINE m == Current(snt, gt)
<1>1. Len(gt) + 1 \in 1 .. Len(snt) /\ m \in Message
  <2>1. Len(gt) + 1 \in 1 .. Len(snt)
    BY FrontEntry
  <2> QED
    BY <2>1 DEF Typed, Current
<1> HIDE DEF m
<1>2. m.len \in Nat
  BY <1>1 DEF Message
<1>3. CASE s.msgExist
  <2>1. s.header[1] = ByteOf(m, 0 + 1)
    BY <1>3, SizeAssumption DEF Holding, PartOf, m
  <2>2. s.entries[1].want = m.len
    BY <1>3, <2>1 DEF Holding, Length, ByteOf
  <2> QED
    BY <1>1, <1>2, <1>3, <2>2, SizeAssumption DEF Base, Size, m
<1>4. CASE ~s.msgExist
  <2>1. s.entries[1].want = HeaderSize /\ Base(s) = 0
    BY <1>4 DEF Holding, Base
  <2> QED
    BY <1>1, <1>2, <1>4, <2>1, SizeAssumption DEF Size, m
<1> QED
  BY <1>3, <1>4

\* n bytes arrive: they are of the message being read, and the buffer with them
\* is a part of it.
LEMMA Take ==
  ASSUME NEW s, NEW w, NEW snt, NEW gt, NEW off, NEW whole, NEW n \in 1 .. Len(w),
         Typed(s, w, snt, gt), Whole(snt, gt), Holding(s, snt, gt),
         Offsets(snt, off), Stream(w, snt, off, Consumed(s, gt, off), whole),
         n <= s.entries[1].want - Len(s.entries[1].buf)
  PROVE  LET buf == s.entries[1].buf \o SubSeq(w, 1, n)
         IN  /\ Len(gt) < Len(snt)
             /\ buf \in Seq(Byte) /\ Len(buf) = Len(s.entries[1].buf) + n
             /\ Len(buf) <= s.entries[1].want /\ Len(buf) \in Nat \ {0}
             /\ PartOf(buf, Current(snt, gt), Base(s))
<1> DEFINE old == s.entries[1].buf
           part == SubSeq(w, 1, n)
           c == Consumed(s, gt, off)
           g == Len(gt)
           m == Current(snt, gt)
           want == s.entries[1].want
<1>1. /\ old \in Seq(Byte) /\ Len(old) \in Nat /\ Base(s) \in Nat
      /\ want \in Nat /\ g \in Nat /\ Len(snt) \in Nat /\ g <= Len(snt)
      /\ w \in Seq(Byte) /\ Len(w) \in Nat /\ n \in 0 .. Len(w)
      /\ n \in Nat \ {0} /\ n <= want - Len(old)
  <2>1. w \in Seq(Byte) /\ Len(w) \in Nat
    BY DEF Typed
  <2>2. n \in 0 .. Len(w) /\ n \in Nat \ {0}
    BY <2>1
  <2>3. g <= Len(snt)
    BY DEF Whole
  <2>4. /\ old \in Seq(Byte) /\ Len(old) \in Nat /\ Base(s) \in Nat
        /\ want \in Nat /\ g \in Nat /\ Len(snt) \in Nat
    BY FrontEntry
  <2> QED
    BY <2>1, <2>2, <2>3, <2>4
<1>2. /\ part \in Seq(Byte) /\ Len(part) = n /\ \A i \in 1 .. n : part[i] = w[i]
  BY <1>1, SubBytes
<1>3. \A i \in 1 .. Len(snt) + 1 : off[i] \in Nat
  BY <1>1 DEF Offsets
<1>4. c = off[g + 1] + Base(s) + Len(old) /\ off[g + 1] \in Nat
      /\ c + Len(w) <= off[Len(snt) + 1]
  <2>1. g + 1 \in 1 .. Len(snt) + 1
    BY <1>1
  <2>2. off[g + 1] \in Nat
    BY <2>1, <1>3
  <2> QED
    BY <2>2 DEF Consumed, Stream
<1> HIDE DEF old, part, c, g, want
<1>5. g < Len(snt)
  <2>1. CASE g = Len(snt)
    <3>1. c + Len(w) <= off[g + 1] /\ c >= off[g + 1] /\ Len(w) >= 1
      BY <2>1, <1>1, <1>4
    <3> QED
      BY <3>1, <1>1, <1>4
  <2> QED
    BY <2>1, <1>1
<1>6. /\ m \in Message /\ g + 1 \in 1 .. Len(snt) /\ snt[g + 1] = m
      /\ Base(s) + want <= Size(m) /\ Size(m) \in Nat
  BY <1>5, WantFits, BytesType DEF Current, g, want
<1>7. off[(g + 1) + 1] = off[g + 1] + Size(m) /\ off[(g + 1) + 1] \in Nat
  <2>1. (g + 1) + 1 \in 1 .. Len(snt) + 1
    BY <1>5, <1>1
  <2> QED
    BY <2>1, <1>3, <1>6 DEF Offsets
<1> HIDE DEF m
<1>8. ASSUME NEW i \in 1 .. n
      PROVE  w[i] = ByteOf(m, Base(s) + (Len(old) + i))
  <2>1. i \in 1 .. Len(w)
    BY <1>1
  <2>2. /\ off[g + 1] < c + i /\ c + i <= off[g + 1] + Size(m)
        /\ c + i - off[g + 1] = Base(s) + (Len(old) + i)
    <3> DEFINE o == off[g + 1]
               b == Base(s)
               k == Len(old)
               z == Size(m)
    <3>1. /\ o \in Nat /\ b \in Nat /\ k \in Nat /\ z \in Nat /\ want \in Nat
          /\ n \in Nat /\ n <= want - k /\ b + want <= z
          /\ c = o + b + k
      BY <1>1, <1>4, <1>6
    <3> HIDE DEF o, b, k, z
    <3>2. o < c + i /\ c + i <= o + z /\ c + i - o = b + (k + i)
      BY <3>1
    <3> QED
      BY <3>2 DEF o, b, k, z
  <2>3. w[i] = ByteOf(snt[g + 1], c + i - off[g + 1])
    BY <2>1, <2>2, <1>6, <1>7 DEF Stream, c
  <2> QED
    BY <2>2, <2>3, <1>6
<1>9. PartOf(old, m, Base(s))
  BY DEF Holding, old, m
<1>10. /\ old \o part \in Seq(Byte) /\ Len(old \o part) = Len(old) + n
       /\ \A i \in 1 .. Len(old) : (old \o part)[i] = old[i]
       /\ \A i \in 1 .. n : (old \o part)[Len(old) + i] = part[i]
  BY <1>1, <1>2, JoinBytes
<1>11. ASSUME NEW j \in 1 .. Len(old) + n
       PROVE  (old \o part)[j] = ByteOf(m, Base(s) + j)
  <2>1. CASE j \in 1 .. Len(old)
    BY <2>1, <1>9, <1>10 DEF PartOf
  <2>2. CASE j \notin 1 .. Len(old)
    <3>1. j - Len(old) \in 1 .. n /\ j = Len(old) + (j - Len(old))
      BY <2>2, <1>1
    <3> QED
      BY <3>1, <1>2, <1>8, <1>10
  <2> QED
    BY <2>1, <2>2
<1>12. PartOf(old \o part, m, Base(s))
  BY <1>10, <1>11 DEF PartOf
<1>13. Len(old) + n \in Nat \ {0} /\ Len(old) + n <= want
  BY <1>1
<1> QED
  BY <1>5, <1>10, <1>12, <1>13 DEF old, part, g, m, want

\* The sequence of requests of an open end has one element.
LEMMA OneEntry ==
  /\ \A r \in Entry : <<r>> \in Seq(Entry) /\ Len(<<r>>) = 1 /\ <<r>>[1] = r
  /\ \A q \in Seq(Entry) : Len(q) = 1 => q = <<q[1]>> /\ q[1] \in Entry
  OBVIOUS

LEMMA NewBuffer ==
  ASSUME NEW q \in Seq(Entry), Len(q) = 1, NEW b \in Seq(Byte)
  PROVE  [q EXCEPT ![1].buf = b] = <<[want |-> q[1].want, buf |-> b]>>
<1>1. DOMAIN q = {1} /\ q[1] \in Entry
  <2>1. DOMAIN q = 1 .. Len(q)
    BY LenProperties
  <2>2. 1 .. 1 = {1}
    OBVIOUS
  <2>3. q[1] \in Entry
    BY ElementOfSeq
  <2> QED
    BY <2>1, <2>2, <2>3
<1>2. [q[1] EXCEPT !.buf = b] = [want |-> q[1].want, buf |-> b]
  BY <1>1 DEF Entry
<1>3. [q EXCEPT ![1].buf = b] = [i \in {1} |-> [q[1] EXCEPT !.buf = b]]
  BY <1>1
<1>4. \A x : <<x>> = [i \in {1} |-> x]
  <2> TAKE x
  <2>1. DOMAIN <<x>> = {1} /\ <<x>>[1] = x
    <3>1. 1 .. 1 = {1}
      OBVIOUS
    <3> QED
      BY <3>1
  <2> QED
    BY <2>1
<1> QED
  BY <1>2, <1>3, <1>4

LEMMA QueueNext ==
  ASSUME NEW q \in Seq(Entry), Len(q) = 1, NEW r \in Entry
  PROVE  Append(q, r) # <<>> /\ Tail(Append(q, r)) = <<r>>
<1>1. /\ Append(q, r) \in Seq(Entry) /\ Len(Append(q, r)) = 2
      /\ Append(q, r)[1 + 1] = r
  <2>1. /\ Append(q, r) \in Seq(Entry) /\ Len(Append(q, r)) = Len(q) + 1
        /\ Append(q, r)[Len(q) + 1] = r
    BY AppendMessage
  <2>2. 1 + 1 = 2
    OBVIOUS
  <2> QED
    BY <2>1, <2>2
<1> DEFINE a == Append(q, r)
<1> HIDE DEF a
<1>2. a # <<>>
  BY <1>1, EmptySeq DEF a
<1>3. Tail(a) \in Seq(Entry) /\ Len(Tail(a)) = 1 /\ Tail(a)[1] = a[1 + 1]
  <2>1. /\ Tail(a) \in Seq(Entry) /\ Len(Tail(a)) = Len(a) - 1
        /\ \A i \in 1 .. Len(Tail(a)) : Tail(a)[i] = a[i + 1]
    BY <1>1, <1>2, HeadTailProperties DEF a
  <2> QED
    BY <2>1, <1>1 DEF a
<1>4. Tail(a) = <<r>>
  BY <1>1, <1>3, OneEntry DEF a
<1> QED
  BY <1>2, <1>4 DEF a

\* The end after it asked for k bytes and dropped the request just served.
LEMMA NextRequest ==
  ASSUME NEW s \in EndState, s.open, Len(s.entries) = 1, NEW k \in Nat
  PROVE  LET t == PopEntry(ReadEntry(s, k))
             r == [want |-> k, buf |-> <<>>]
         IN  /\ t \in EndState /\ t.open = s.open /\ t.exiting = s.exiting
             /\ t.msgExist = s.msgExist /\ t.header = s.header
             /\ Len(t.entries) = 1 /\ t.entries[1] = r
<1> DEFINE r == [want |-> k, buf |-> <<>>]
<1>1. r \in Entry
  BY EmptySeq DEF Entry
<1>2. s.entries \in Seq(Entry) /\ s.open = TRUE
  BY DEF EndState
<1> HIDE DEF r
<1>3. Append(s.entries, r) # <<>> /\ Tail(Append(s.entries, r)) = <<r>>
  BY <1>1, <1>2, QueueNext
<1>4. ReadEntry(s, k) = [s EXCEPT !.entries = Append(s.entries, r)]
  BY DEF ReadEntry, r
<1>5. PopEntry([s EXCEPT !.entries = Append(s.entries, r)]) = [s EXCEPT !.entries = <<r>>]
  <2> DEFINE a == Append(s.entries, r)
  <2> HIDE DEF a
  <2>1. a # <<>> /\ Tail(a) = <<r>>
    BY <1>3 DEF a
  <2>2. PopEntry([s EXCEPT !.entries = a]) = [s EXCEPT !.entries = <<r>>]
    BY <2>1 DEF PopEntry, EndState
  <2> QED
    BY <2>2 DEF a
<1>6. <<r>> \in Seq(Entry) /\ Len(<<r>>) = 1 /\ <<r>>[1] = r
  BY <1>1, OneEntry
<1>7. PopEntry(ReadEntry(s, k)) = [s EXCEPT !.entries = <<r>>]
  BY <1>4, <1>5
<1> HIDE DEF r
<1>8. [s EXCEPT !.entries = <<r>>] \in EndState
  BY <1>6 DEF EndState
<1>9. [s EXCEPT !.entries = <<r>>].entries = <<r>>
  BY DEF EndState
<1>10. LET t == [s EXCEPT !.entries = <<r>>]
       IN  /\ t.open = s.open /\ t.exiting = s.exiting
           /\ t.msgExist = s.msgExist /\ t.header = s.header
  BY DEF EndState
<1>11. r = [want |-> k, buf |-> <<>>]
  BY DEF r
<1> QED
  BY <1>6, <1>7, <1>8, <1>9, <1>10, <1>11

\* The stream does not notice that a part of it moved from the wire to the end.
LEMMA StillReading ==
  ASSUME NEW s, NEW w, NEW snt, NEW gt, NEW whole, NEW n \in 1 .. Len(w), NEW off,
         NEW t, NEW given,
         Typed(s, w, snt, gt), Typed(t, w, snt, given), Whole(snt, gt), Holding(s, snt, gt),
         Offsets(snt, off), Stream(w, snt, off, Consumed(s, gt, off), whole),
         Holding(t, snt, given), Consumed(t, given, off) = Consumed(s, gt, off) + n
  PROVE  Reading(t, SubSeq(w, n + 1, Len(w)), snt, given, whole)
<1>1. w \in Seq(Byte) /\ n \in 0 .. Len(w) /\ snt \in Seq(Message)
  BY DEF Typed
<1>2. Consumed(s, gt, off) \in Nat
  <2>1. Len(gt) + 1 \in 1 .. Len(snt) + 1
    BY FrontEntry DEF Whole
  <2>2. off[Len(gt) + 1] \in Nat
    BY <2>1 DEF Offsets
  <2>3. Base(s) \in Nat /\ Len(s.entries[1].buf) \in Nat
    BY FrontEntry
  <2> DEFINE o == off[Len(gt) + 1]
             k == Len(s.entries[1].buf)
  <2>4. Consumed(s, gt, off) = o + Base(s) + k
    BY DEF Consumed
  <2>5. o \in Nat /\ k \in Nat
    BY <2>2, <2>3
  <2> HIDE DEF o, k
  <2> QED
    BY <2>3, <2>4, <2>5
<1>3. Stream(SubSeq(w, n + 1, Len(w)), snt, off, Consumed(s, gt, off) + n, whole)
  BY <1>1, <1>2, Advance
<1> QED
  BY <1>3 DEF Reading

LEMMA PartArrives ==
  ASSUME NEW s, NEW w, NEW snt, NEW gt, NEW whole, NEW n \in 1 .. Len(w), s.open,
         Channel(s, w, snt, gt, whole), n < s.entries[1].want - Len(s.entries[1].buf)
  PROVE  Channel([s EXCEPT !.entries[1].buf = s.entries[1].buf \o SubSeq(w, 1, n)],
                 SubSeq(w, n + 1, Len(w)), snt, gt, whole)
<1> DEFINE buf == s.entries[1].buf \o SubSeq(w, 1, n)
           old == s.entries[1].buf
           want == s.entries[1].want
           t == [s EXCEPT !.entries[1].buf = buf]
<1>1. Typed(s, w, snt, gt) /\ Whole(snt, gt) /\ Holding(s, snt, gt)
  BY DEF Channel, Reading
<1>2. PICK off : Offsets(snt, off) /\ Stream(w, snt, off, Consumed(s, gt, off), whole)
  BY DEF Channel, Reading
<1>3. /\ Len(old) \in Nat /\ want \in Nat /\ Base(s) \in Nat /\ Len(gt) \in Nat
      /\ Len(snt) \in Nat /\ n \in Nat /\ n <= want - Len(old)
  <2>1. /\ Len(old) \in Nat /\ want \in Nat /\ Base(s) \in Nat /\ Len(gt) \in Nat
        /\ Len(snt) \in Nat /\ n \in Nat
    BY <1>1, FrontEntry DEF Typed
  <2> HIDE DEF old, want
  <2>2. n < want - Len(old)
    BY DEF old, want
  <2> QED
    BY <2>1, <2>2
<1>4. /\ Len(gt) < Len(snt) /\ buf \in Seq(Byte) /\ Len(buf) = Len(old) + n
      /\ PartOf(buf, Current(snt, gt), Base(s))
  BY <1>1, <1>2, <1>3, Take
<1> HIDE DEF buf
<1>5. /\ t \in EndState /\ t.open = s.open /\ t.msgExist = s.msgExist
      /\ t.header = s.header /\ Len(t.entries) = 1
      /\ t.entries[1] = [want |-> want, buf |-> buf]
  <2>1. s \in EndState /\ s.entries \in Seq(Entry) /\ Len(s.entries) = 1
    BY <1>1 DEF Typed, Holding, EndState
  <2>2. /\ [s.entries EXCEPT ![1].buf = buf] \in Seq(Entry)
        /\ Len([s.entries EXCEPT ![1].buf = buf]) = 1
        /\ [s.entries EXCEPT ![1].buf = buf][1] = [want |-> want, buf |-> buf]
    <3> DEFINE e == [want |-> want, buf |-> buf]
               q == [s.entries EXCEPT ![1].buf = buf]
    <3>1. e \in Entry
      BY <1>3, <1>4 DEF Entry
    <3>2. q = <<e>>
      BY <2>1, <1>4, NewBuffer
    <3> HIDE DEF e, q
    <3>3. q \in Seq(Entry) /\ Len(q) = 1 /\ q[1] = e
      BY <3>1, <3>2, OneEntry
    <3> QED
      BY <3>3 DEF e, q
  <2> QED
    BY <2>1, <2>2 DEF EndState
<1> HIDE DEF t
<1>6. Len(buf) < want
  <2>1. n < want - Len(old)
    OBVIOUS
  <2> HIDE DEF old, want
  <2> QED
    BY <2>1, <1>3, <1>4
<1>7. Base(t) = Base(s)
  BY <1>5 DEF Base
<1>8. Holding(t, snt, gt)
  <2>1. t.entries[1].want = want /\ t.entries[1].buf = buf
    BY <1>5
  <2>2. want = IF t.msgExist THEN Length(t.header) ELSE HeaderSize
    BY <1>1, <1>5 DEF Holding
  <2>3. t.msgExist => /\ Len(gt) < Len(snt) /\ Len(t.header) = HeaderSize
                      /\ PartOf(t.header, Current(snt, gt), 0)
                      /\ Current(snt, gt).len > 0
    BY <1>1, <1>5 DEF Holding
  <2> HIDE DEF want
  <2> QED
    BY <2>1, <2>2, <2>3, <1>4, <1>5, <1>6, <1>7 DEF Holding
<1>9. Consumed(t, gt, off) = Consumed(s, gt, off) + n
  <2>1. Len(gt) + 1 \in 1 .. Len(snt) + 1
    BY <1>3, <1>4
  <2>2. off[Len(gt) + 1] \in Nat
    BY <2>1, <1>2 DEF Offsets
  <2>3. Len(t.entries[1].buf) = Len(old) + n
    BY <1>4, <1>5
  <2>4. Consumed(s, gt, off) = off[Len(gt) + 1] + Base(s) + Len(old)
    BY DEF Consumed
  <2>5. Consumed(t, gt, off) = off[Len(gt) + 1] + Base(s) + (Len(old) + n)
    BY <2>3, <1>7 DEF Consumed
  <2> HIDE DEF old
  <2> QED
    BY <2>2, <2>4, <2>5, <1>3
<1>10. Typed(t, w, snt, gt)
  BY <1>1, <1>5 DEF Typed
<1>11. Reading(t, SubSeq(w, n + 1, Len(w)), snt, gt, whole)
  BY <1>1, <1>2, <1>8, <1>9, <1>10, StillReading
<1>12. SubSeq(w, n + 1, Len(w)) \in Seq(Byte)
  BY <1>1, SubBytes DEF Typed
<1>13. Channel(t, SubSeq(w, n + 1, Len(w)), snt, gt, whole)
  BY <1>1, <1>5, <1>10, <1>11, <1>12 DEF Channel, Typed
<1> QED
  BY <1>6, <1>13 DEF t, buf

\* A request is answered in full by the rest that it asks for.
LEMMA Fill ==
  ASSUME NEW s, NEW w, NEW snt, NEW gt, NEW whole, NEW n \in 1 .. Len(w),
         Typed(s, w, snt, gt), Whole(snt, gt), Reading(s, w, snt, gt, whole),
         n <= s.entries[1].want - Len(s.entries[1].buf),
         Len(s.entries[1].buf) + n >= s.entries[1].want
  PROVE  LET buf == s.entries[1].buf \o SubSeq(w, 1, n)
         IN  /\ Len(gt) < Len(snt) /\ Len(gt) \in Nat /\ Len(snt) \in Nat
             /\ Current(snt, gt) \in Message
             /\ buf \in Seq(Byte) /\ Len(buf) = s.entries[1].want
             /\ Len(buf) \in Nat \ {0} /\ PartOf(buf, Current(snt, gt), Base(s))
             /\ buf[1].msg = Current(snt, gt)
<1> DEFINE buf == s.entries[1].buf \o SubSeq(w, 1, n)
           old == s.entries[1].buf
           want == s.entries[1].want
<1>1. Typed(s, w, snt, gt) /\ Whole(snt, gt) /\ Holding(s, snt, gt)
  BY DEF Reading
<1>2. PICK off : Offsets(snt, off) /\ Stream(w, snt, off, Consumed(s, gt, off), whole)
  BY DEF Reading
<1>3. Len(old) \in Nat /\ want \in Nat /\ n <= want - Len(old)
  BY <1>1, FrontEntry
<1>4. /\ Len(gt) < Len(snt) /\ buf \in Seq(Byte) /\ Len(buf) = Len(old) + n
      /\ Len(buf) \in Nat \ {0} /\ PartOf(buf, Current(snt, gt), Base(s))
  BY <1>1, <1>2, <1>3, Take
<1>5. n <= want - Len(old) /\ Len(old) + n >= want
  OBVIOUS
<1>6. Current(snt, gt) \in Message
  BY <1>1, <1>4, WantFits
<1>7. Len(gt) \in Nat /\ Len(snt) \in Nat
  BY <1>1, FrontEntry
<1> HIDE DEF old, want, buf
<1>8. Len(buf) = want
  <2>1. n \in Nat
    BY <1>1 DEF Typed
  <2> QED
    BY <2>1, <1>3, <1>4, <1>5
<1>9. buf[1].msg = Current(snt, gt)
  <2>1. 1 \in 1 .. Len(buf)
    BY <1>4
  <2>2. buf[1] = ByteOf(Current(snt, gt), Base(s) + 1)
    BY <2>1, <1>4 DEF PartOf
  <2> QED
    BY <2>2 DEF ByteOf
<1> QED
  BY <1>4, <1>6, <1>7, <1>8, <1>9 DEF want, buf

\* The header of a message with data arrives: the data is asked for.
LEMMA HeaderArrives ==
  ASSUME NEW s, NEW w, NEW snt, NEW gt, NEW whole, NEW n \in 1 .. Len(w), s.open,
         Channel(s, w, snt, gt, whole), ~s.msgExist,
         n <= s.entries[1].want - Len(s.entries[1].buf),
         Len(s.entries[1].buf) + n >= s.entries[1].want,
         Length(s.entries[1].buf \o SubSeq(w, 1, n)) > 0
  PROVE  LET buf == s.entries[1].buf \o SubSeq(w, 1, n)
             t == PopEntry(PrepareReadMessageData(
                             [s EXCEPT !.msgExist = TRUE, !.header = buf]))
         IN  /\ Channel(t, SubSeq(w, n + 1, Len(w)), snt, gt, whole)
             /\ t.open = s.open
<1> DEFINE buf == s.entries[1].buf \o SubSeq(w, 1, n)
           m == Current(snt, gt)
           u == [s EXCEPT !.msgExist = TRUE, !.header = buf]
           t == PopEntry(PrepareReadMessageData(u))
<1>1. /\ Typed(s, w, snt, gt) /\ Whole(snt, gt) /\ Holding(s, snt, gt)
      /\ Reading(s, w, snt, gt, whole)
  BY DEF Channel, Reading
<1>2. PICK off : Offsets(snt, off) /\ Stream(w, snt, off, Consumed(s, gt, off), whole)
  BY DEF Channel, Reading
<1>3. /\ Len(gt) < Len(snt) /\ Len(gt) \in Nat /\ Len(snt) \in Nat /\ m \in Message
      /\ buf \in Seq(Byte) /\ Len(buf) = HeaderSize /\ PartOf(buf, m, 0)
      /\ buf[1].msg = m /\ s.entries[1].want = HeaderSize /\ Base(s) = 0
  <2>1. s.entries[1].want = HeaderSize /\ Base(s) = 0
    BY <1>1 DEF Holding, Base
  <2>2. /\ Len(gt) < Len(snt) /\ Len(gt) \in Nat /\ Len(snt) \in Nat /\ m \in Message
        /\ buf \in Seq(Byte) /\ Len(buf) = s.entries[1].want
        /\ PartOf(buf, m, Base(s)) /\ buf[1].msg = m
    BY <1>1, Fill
  <2> QED
    BY <2>1, <2>2
<1>14. Length(buf) > 0
  OBVIOUS
<1> HIDE DEF buf
<1>4. m.len \in Nat /\ m.len > 0 /\ Length(buf) = m.len
  BY <1>3, <1>14 DEF Message, Length
<1>5. /\ u \in EndState /\ u.open /\ Len(u.entries) = 1 /\ u.entries = s.entries
      /\ u.msgExist = TRUE /\ u.header = buf /\ u.open = s.open
  BY <1>1, <1>3 DEF Typed, EndState, Holding
<1>6. /\ t \in EndState /\ t.open = s.open /\ t.msgExist = TRUE /\ t.header = buf
      /\ Len(t.entries) = 1 /\ t.entries[1] = [want |-> m.len, buf |-> <<>>]
  <2>1. t = PopEntry(ReadEntry(u, m.len))
    BY <1>4, <1>5 DEF PrepareReadMessageData
  <2> HIDE DEF t, u, m
  <2> QED
    BY <2>1, <1>4, <1>5, NextRequest
<1> HIDE DEF t, m
<1>7. /\ t.entries[1].want = m.len /\ t.entries[1].buf = <<>>
      /\ Len(t.entries[1].buf) = 0 /\ Base(t) = HeaderSize
  BY <1>6, EmptySeq DEF Base
<1>8. Holding(t, snt, gt)
  <2>1. PartOf(t.entries[1].buf, m, Base(t))
    BY <1>7 DEF PartOf
  <2>2. t.entries[1].want = IF t.msgExist THEN Length(t.header) ELSE HeaderSize
    BY <1>4, <1>6, <1>7
  <2> QED
    BY <2>1, <2>2, <1>3, <1>4, <1>6, <1>7 DEF Holding, m
<1>9. Consumed(t, gt, off) = Consumed(s, gt, off) + n
  <2> DEFINE o == off[Len(gt) + 1]
             k == Len(s.entries[1].buf)
  <2>1. o \in Nat
    <3>1. Len(gt) + 1 \in 1 .. Len(snt) + 1
      BY <1>3
    <3> QED
      BY <3>1, <1>2 DEF Offsets
  <2>2. k \in Nat /\ n = HeaderSize - k
    <3>1. k \in Nat /\ n \in Nat
      BY <1>1, FrontEntry DEF Typed
    <3>2. n <= HeaderSize - k /\ k + n >= HeaderSize
      BY <1>3
    <3> HIDE DEF k
    <3> QED
      BY <3>1, <3>2, SizeAssumption
  <2>3. Consumed(s, gt, off) = o + 0 + k
    BY <1>3 DEF Consumed
  <2>4. Consumed(t, gt, off) = o + HeaderSize + 0
    BY <1>7 DEF Consumed
  <2> HIDE DEF o, k
  <2>5. (o + 0 + k) + (HeaderSize - k) = o + HeaderSize + 0
    BY <2>1, <2>2, SizeAssumption
  <2> QED
    BY <2>2, <2>3, <2>4, <2>5
<1>10. Typed(t, w, snt, gt)
  BY <1>1, <1>6 DEF Typed
<1>11. Reading(t, SubSeq(w, n + 1, Len(w)), snt, gt, whole)
  BY <1>1, <1>2, <1>8, <1>9, <1>10, StillReading
<1>12. SubSeq(w, n + 1, Len(w)) \in Seq(Byte)
  BY <1>1, SubBytes DEF Typed
<1>13. Channel(t, SubSeq(w, n + 1, Len(w)), snt, gt, whole)
  BY <1>1, <1>6, <1>10, <1>11, <1>12 DEF Channel, Typed
<1> QED
  BY <1>6, <1>13 DEF t, buf

\* The buffer of the end with n bytes of the wire; the message up to there.
Filled(s, w, n) == s.entries[1].buf \o SubSeq(w, 1, n)
Handed(s, w, n) == IF s.msgExist THEN s.header \o Filled(s, w, n) ELSE Filled(s, w, n)

\* With n bytes of the wire the message that an open end reads is complete.
MessageEnds(s, w, snt, gt, whole, n) ==
  /\ s.open /\ Channel(s, w, snt, gt, whole) /\ n \in 1 .. Len(w)
  /\ n <= s.entries[1].want - Len(s.entries[1].buf)
  /\ Len(s.entries[1].buf) + n >= s.entries[1].want
  /\ s.msgExist \/ Length(Filled(s, w, n)) = 0

\* The last byte of a message arrives: it is handed over as it was sent, and the
\* next header is asked for.
LEMMA MessageArrives ==
  ASSUME NEW s, NEW w, NEW snt, NEW gt, NEW whole, NEW n,
         MessageEnds(s, w, snt, gt, whole, n)
  PROVE  /\ Len(gt) < Len(snt) /\ Len(gt) \in Nat /\ Len(snt) \in Nat
         /\ Current(snt, gt) \in Message
         /\ Handed(s, w, n) \in Seq(Byte)
         /\ Handed(s, w, n) = Bytes(Current(snt, gt))
         /\ Handed(s, w, n)[1].msg = Current(snt, gt)
         /\ Filled(s, w, n)[1].msg = Current(snt, gt)
         /\ Channel(Ready(s), SubSeq(w, n + 1, Len(w)), snt,
                    Append(gt, Handed(s, w, n)), whole)
         /\ Ready(s).open = s.open
<1> DEFINE buf == s.entries[1].buf \o SubSeq(w, 1, n)
           all == IF s.msgExist THEN s.header \o buf ELSE buf
           m == Current(snt, gt)
           given == Append(gt, all)
           t == Ready(s)
           old == s.entries[1].buf
           want == s.entries[1].want
<1>0. /\ s.open /\ Channel(s, w, snt, gt, whole) /\ n \in 1 .. Len(w)
      /\ n <= s.entries[1].want - Len(s.entries[1].buf)
      /\ Len(s.entries[1].buf) + n >= s.entries[1].want
      /\ s.msgExist \/ Length(buf) = 0
  BY DEF MessageEnds, Filled
<1>1. /\ Typed(s, w, snt, gt) /\ Whole(snt, gt) /\ Holding(s, snt, gt)
      /\ Reading(s, w, snt, gt, whole)
  BY <1>0 DEF Channel, Reading
<1>2. PICK off : Offsets(snt, off) /\ Stream(w, snt, off, Consumed(s, gt, off), whole)
  BY <1>1 DEF Reading
<1>3. /\ Len(gt) < Len(snt) /\ Len(gt) \in Nat /\ Len(snt) \in Nat /\ m \in Message
      /\ buf \in Seq(Byte) /\ Len(buf) = want /\ PartOf(buf, m, Base(s))
      /\ buf[1].msg = m /\ Len(buf) \in Nat \ {0}
  BY <1>0, <1>1, Fill
<1>4. /\ m.len \in Nat /\ Size(m) \in Nat /\ Size(m) = HeaderSize + m.len
      /\ Bytes(m) \in Seq(Byte) /\ Len(Bytes(m)) = Size(m)
      /\ \A j \in 1 .. Size(m) : Bytes(m)[j] = ByteOf(m, j)
  BY <1>3, BytesType DEF Message, Size
<1>5. /\ s.msgExist => /\ s.header \in Seq(Byte) /\ Len(s.header) = HeaderSize
                        /\ PartOf(s.header, m, 0) /\ want = m.len /\ Base(s) = HeaderSize
      /\ ~s.msgExist => want = HeaderSize /\ Base(s) = 0 /\ Length(buf) = 0
  <2>1. s.header \in Seq(Byte)
    BY <1>1 DEF Typed, EndState
  <2>2. s.msgExist => want = m.len
    BY <1>1, <1>3, WantFits
  <2> QED
    BY <2>1, <2>2, <1>0, <1>1 DEF Holding, Base
<1> HIDE DEF buf, m, old, want
<1>6. all \in Seq(Byte) /\ Len(all) = Size(m) /\ PartOf(all, m, 0)
  <2>1. CASE s.msgExist
    <3>1. /\ all = s.header \o buf /\ s.header \o buf \in Seq(Byte)
          /\ Len(s.header \o buf) = Len(s.header) + Len(buf)
          /\ \A i \in 1 .. Len(s.header) : (s.header \o buf)[i] = s.header[i]
          /\ \A i \in 1 .. Len(buf) : (s.header \o buf)[Len(s.header) + i] = buf[i]
      <4>1. all = s.header \o buf
        BY <2>1
      <4>2. s.header \in Seq(Byte) /\ buf \in Seq(Byte)
        BY <2>1, <1>3, <1>5
      <4> HIDE DEF all
      <4> QED
        BY <4>1, <4>2, JoinBytes
    <3>2. /\ Len(s.header) = HeaderSize /\ Len(buf) = m.len /\ Base(s) = HeaderSize
          /\ PartOf(s.header, m, 0) /\ HeaderSize \in Nat
      BY <2>1, <1>3, <1>5, SizeAssumption
    <3> HIDE DEF all
    <3>3. ASSUME NEW j \in 1 .. Size(m) PROVE all[j] = ByteOf(m, 0 + j)
      <4>1. CASE j <= HeaderSize
        <5>1. j \in 1 .. HeaderSize
          BY <4>1, <1>4, <3>2
        <5> QED
          BY <5>1, <3>1, <3>2 DEF PartOf
      <4>2. CASE ~(j <= HeaderSize)
        <5>1. j - HeaderSize \in 1 .. m.len /\ HeaderSize + (j - HeaderSize) = 0 + j
              /\ HeaderSize + (j - HeaderSize) = j
          BY <4>2, <1>4, <3>2
        <5>2. all[HeaderSize + (j - HeaderSize)] = buf[j - HeaderSize]
          BY <5>1, <3>1, <3>2
        <5>3. buf[j - HeaderSize] = ByteOf(m, HeaderSize + (j - HeaderSize))
          BY <5>1, <3>2, <1>3 DEF PartOf
        <5> QED
          BY <5>1, <5>2, <5>3
      <4> QED
        BY <4>1, <4>2
    <3>4. Len(all) = Size(m)
      BY <3>1, <3>2, <1>4
    <3> QED
      BY <3>1, <3>3, <3>4 DEF PartOf
  <2>2. CASE ~s.msgExist
    <3>1. all = buf
      BY <2>2
    <3>2. m.len = 0
      BY <2>2, <1>3, <1>5 DEF Length
    <3>3. Len(buf) = Size(m)
      BY <2>2, <3>2, <1>3, <1>4, <1>5, SizeAssumption
    <3> HIDE DEF all
    <3> QED
      BY <2>2, <3>1, <3>3, <1>3, <1>5
  <2> QED
    BY <2>1, <2>2
<1> HIDE DEF all
<1>7. all = Bytes(m)
  <2>1. \A j \in 1 .. Len(all) : all[j] = Bytes(m)[j]
    <3> TAKE j \in 1 .. Len(all)
    <3>1. all[j] = ByteOf(m, 0 + j) /\ 0 + j = j
      BY <1>6 DEF PartOf
    <3> QED
      BY <3>1, <1>4, <1>6
  <2> QED
    BY <2>1, <1>4, <1>6, SeqEqual
<1>8. all[1].msg = m
  <2>1. 1 \in 1 .. Size(m)
    BY <1>4, SizeAssumption
  <2>2. all[1] = ByteOf(m, 1)
    BY <2>1, <1>4, <1>7
  <2> QED
    BY <2>2 DEF ByteOf
<1>9. /\ given \in Seq(Seq(Byte)) /\ Len(given) = Len(gt) + 1 /\ Whole(snt, given)
  <2>1. gt \in Seq(Seq(Byte))
    BY <1>1 DEF Typed
  <2>2. /\ given \in Seq(Seq(Byte)) /\ Len(given) = Len(gt) + 1
        /\ given[Len(gt) + 1] = all /\ \A i \in 1 .. Len(gt) : given[i] = gt[i]
    BY <2>1, <1>6, AppendMessage
  <2>3. snt[Len(gt) + 1] = m
    BY DEF m, Current
  <2> HIDE DEF given
  <2>4. ASSUME NEW i \in 1 .. Len(given) PROVE given[i] = Bytes(snt[i])
    <3>1. CASE i = Len(gt) + 1
      BY <3>1, <2>2, <2>3, <1>7
    <3>2. CASE i # Len(gt) + 1
      <4>1. i \in 1 .. Len(gt)
        BY <3>2, <2>2, <1>3
      <4> QED
        BY <4>1, <2>2, <1>1 DEF Whole
    <3> QED
      BY <3>1, <3>2
  <2>5. Len(given) <= Len(snt)
    BY <2>2, <1>3
  <2> QED
    BY <2>2, <2>4, <2>5 DEF Whole
<1>10. /\ t \in EndState /\ t.open = s.open /\ t.msgExist = FALSE
       /\ Len(t.entries) = 1 /\ t.entries[1] = [want |-> HeaderSize, buf |-> <<>>]
  <2> DEFINE u == [s EXCEPT !.msgExist = FALSE]
  <2>1. /\ u \in EndState /\ u.open /\ Len(u.entries) = 1 /\ u.open = s.open
        /\ u.msgExist = FALSE
    BY <1>0, <1>1 DEF Typed, EndState, Holding
  <2>2. t = PopEntry(ReadEntry(u, HeaderSize))
    BY DEF Ready, PrepareReadMessage
  <2> HIDE DEF t, u
  <2> QED
    BY <2>1, <2>2, SizeAssumption, NextRequest
<1> HIDE DEF t, given
<1>11. /\ t.entries[1].want = HeaderSize /\ t.entries[1].buf = <<>>
       /\ Len(t.entries[1].buf) = 0 /\ Base(t) = 0
  BY <1>10, EmptySeq DEF Base
<1>12. Holding(t, snt, given)
  BY <1>10, <1>11, SizeAssumption DEF Holding, PartOf
<1>13. Consumed(t, given, off) = Consumed(s, gt, off) + n
  <2> DEFINE o == off[Len(gt) + 1]
             k == Len(s.entries[1].buf)
  <2>1. o \in Nat /\ off[(Len(gt) + 1) + 1] = o + Size(m)
    <3>1. Len(gt) + 1 \in 1 .. Len(snt) + 1 /\ Len(gt) + 1 \in 1 .. Len(snt)
      BY <1>3
    <3>2. snt[Len(gt) + 1] = m
      BY DEF m, Current
    <3> QED
      BY <3>1, <3>2, <1>2 DEF Offsets
  <2>2. k \in Nat /\ n \in Nat /\ want = k + n
    <3>1. k \in Nat /\ n \in Nat /\ want \in Nat
      BY <1>0, <1>1, FrontEntry DEF Typed, want
    <3>2. n <= want - k /\ k + n >= want
      BY <1>0 DEF want
    <3> HIDE DEF k
    <3> QED
      BY <3>1, <3>2
  <2>3. Base(s) + want = Size(m) /\ Base(s) \in Nat
    BY <1>4, <1>5, <1>6, <1>3, SizeAssumption DEF all, Length
  <2>4. Consumed(s, gt, off) = o + Base(s) + k
    BY DEF Consumed
  <2>5. Consumed(t, given, off) = off[(Len(gt) + 1) + 1] + 0 + 0
    BY <1>9, <1>11 DEF Consumed
  <2> HIDE DEF o, k
  <2>6. (o + Base(s) + k) + n = (o + Size(m)) + 0 + 0
    BY <2>1, <2>2, <2>3, <1>4, <1>3
  <2> QED
    BY <2>1, <2>4, <2>5, <2>6
<1>14. Typed(t, w, snt, given)
  BY <1>1, <1>9, <1>10 DEF Typed
<1>15. Reading(t, SubSeq(w, n + 1, Len(w)), snt, given, whole)
  BY <1>0, <1>1, <1>2, <1>12, <1>13, <1>14, StillReading
<1>16. SubSeq(w, n + 1, Len(w)) \in Seq(Byte)
  BY <1>0, <1>1, SubBytes DEF Typed
<1>17. Channel(t, SubSeq(w, n + 1, Len(w)), snt, given, whole)
  BY <1>0, <1>9, <1>10, <1>14, <1>15, <1>16 DEF Channel, Typed
<1> QED
  BY <1>3, <1>6, <1>7, <1>8, <1>10, <1>17 DEF t, given, all, buf, m, Handed, Filled

-----------------------------------------------------------------------------
(* One channel: sending, exiting, failing                                  *)

LEMMA Longer ==
  ASSUME NEW snt \in Seq(Message), NEW gt, Len(gt) \in Nat, Whole(snt, gt),
         NEW m \in Message
  PROVE  /\ Append(snt, m) \in Seq(Message) /\ Whole(Append(snt, m), gt)
         /\ Len(Append(snt, m)) = Len(snt) + 1 /\ Len(snt) \in Nat
         /\ Len(gt) < Len(snt) => Current(Append(snt, m), gt) = Current(snt, gt)
<1>1. /\ Append(snt, m) \in Seq(Message) /\ Len(snt) \in Nat
      /\ Len(Append(snt, m)) = Len(snt) + 1
      /\ \A i \in 1 .. Len(snt) : Append(snt, m)[i] = snt[i]
  BY AppendMessage
<1> DEFINE longer == Append(snt, m)
<1> HIDE DEF longer
<1>2. \A i \in 1 .. Len(gt) : i \in 1 .. Len(snt)
  BY <1>1 DEF Whole
<1>3. Len(gt) <= Len(longer)
  BY <1>1 DEF Whole, longer
<1>4. Whole(longer, gt)
  BY <1>1, <1>2, <1>3 DEF Whole, longer
<1>5. Len(gt) < Len(snt) => Len(gt) + 1 \in 1 .. Len(snt)
  BY <1>1
<1> QED
  BY <1>1, <1>4, <1>5 DEF longer, Current

LEMMA SendClosed ==
  ASSUME NEW s, NEW w, NEW snt, NEW gt, NEW whole, NEW m \in Message, NEW some,
         Channel(s, w, snt, gt, whole), ~s.open
  PROVE  Channel(s, w \o Bytes(m), Append(snt, m), gt, some)
<1>1. Typed(s, w, snt, gt) /\ Whole(snt, gt) /\ s.entries = <<>>
  BY DEF Channel
<1>2. Append(snt, m) \in Seq(Message) /\ Whole(Append(snt, m), gt)
  BY <1>1, Longer DEF Typed
<1>3. w \o Bytes(m) \in Seq(Byte)
  BY <1>1, BytesType, JoinBytes DEF Typed
<1> QED
  BY <1>1, <1>2, <1>3 DEF Channel, Typed

LEMMA SendOpen ==
  ASSUME NEW s, NEW w, NEW snt, NEW gt, NEW m \in Message,
         Channel(s, w, snt, gt, TRUE), s.open
  PROVE  Channel(s, w \o Bytes(m), Append(snt, m), gt, TRUE)
<1> DEFINE longer == Append(snt, m)
           c(o) == Consumed(s, gt, o)
<1>1. Typed(s, w, snt, gt) /\ Whole(snt, gt) /\ Holding(s, snt, gt)
  BY DEF Channel, Reading
<1>2. PICK off : Offsets(snt, off) /\ Stream(w, snt, off, c(off), TRUE)
  BY DEF Channel, Reading
<1>3. /\ longer \in Seq(Message) /\ Whole(longer, gt) /\ Len(longer) = Len(snt) + 1
      /\ Len(snt) \in Nat /\ Len(gt) \in Nat /\ Len(gt) <= Len(snt)
      /\ Len(gt) < Len(snt) => Current(longer, gt) = Current(snt, gt)
  BY <1>1, Longer, FrontEntry DEF Typed, Whole
<1>4. w \o Bytes(m) \in Seq(Byte)
  BY <1>1, BytesType, JoinBytes DEF Typed
<1> HIDE DEF longer
<1>5. Holding(s, longer, gt)
  <2>1. Len(s.entries[1].buf) = 0 =>
          PartOf(s.entries[1].buf, Current(longer, gt), Base(s))
    BY DEF PartOf
  <2>2. Len(s.entries[1].buf) = 0 \/ Len(s.entries[1].buf) > 0
    BY <1>1, FrontEntry
  <2>3. Len(gt) < Len(snt) => Len(gt) < Len(longer)
    BY <1>3
  <2>4. CASE Len(gt) < Len(snt)
    BY <2>3, <2>4, <1>1, <1>3 DEF Holding
  <2>5. CASE ~(Len(gt) < Len(snt))
    BY <2>1, <2>2, <2>5, <1>1 DEF Holding
  <2> QED
    BY <2>4, <2>5
<1>6. c(off) \in Nat /\ Len(gt) + 1 \in 1 .. Len(snt) + 1
  <2>1. Len(gt) + 1 \in 1 .. Len(snt) + 1
    BY <1>3
  <2> DEFINE o == off[Len(gt) + 1]
             k == Len(s.entries[1].buf)
  <2>2. o \in Nat
    BY <2>1, <1>2 DEF Offsets
  <2>3. Base(s) \in Nat /\ k \in Nat
    BY <1>1, FrontEntry
  <2>4. c(off) = o + Base(s) + k
    BY DEF Consumed
  <2> HIDE DEF o, k, c
  <2> QED
    BY <2>1, <2>2, <2>3, <2>4
<1>7. PICK new : /\ Offsets(longer, new)
                 /\ \A i \in 1 .. Len(snt) + 1 : new[i] = off[i]
                 /\ Stream(w \o Bytes(m), longer, new, c(off), TRUE)
  BY <1>1, <1>2, <1>6, Extend DEF Typed, longer
<1>8. c(new) = c(off)
  BY <1>6, <1>7 DEF Consumed
<1>9. Reading(s, w \o Bytes(m), longer, gt, TRUE)
  BY <1>5, <1>7, <1>8 DEF Reading
<1>10. Channel(s, w \o Bytes(m), longer, gt, TRUE)
  BY <1>1, <1>3, <1>4, <1>9 DEF Channel, Typed
<1> QED
  BY <1>10 DEF longer

LEMMA CutWire ==
  ASSUME NEW s, NEW w, NEW snt, NEW gt, NEW whole, NEW k \in 0 .. Len(w),
         Channel(s, w, snt, gt, whole)
  PROVE  Channel(s, SubSeq(w, 1, k), snt, gt, FALSE)
<1>1. Typed(s, w, snt, gt) /\ Whole(snt, gt)
  BY DEF Channel
<1>2. SubSeq(w, 1, k) \in Seq(Byte)
  BY <1>1, SubBytes DEF Typed
<1>3. CASE s.open
  <2>1. Holding(s, snt, gt)
    BY <1>3 DEF Channel, Reading
  <2>2. PICK off : Offsets(snt, off) /\ Stream(w, snt, off, Consumed(s, gt, off), whole)
    BY <1>3 DEF Channel, Reading
  <2>3. Consumed(s, gt, off) \in Nat
    <3> DEFINE o == off[Len(gt) + 1]
               j == Len(s.entries[1].buf)
    <3>1. Len(gt) + 1 \in 1 .. Len(snt) + 1
      BY <1>1, <2>1, FrontEntry DEF Whole
    <3>2. o \in Nat
      BY <3>1, <2>2 DEF Offsets
    <3>3. Base(s) \in Nat /\ j \in Nat
      BY <1>1, <2>1, FrontEntry
    <3>4. Consumed(s, gt, off) = o + Base(s) + j
      BY DEF Consumed
    <3> HIDE DEF o, j
    <3> QED
      BY <3>2, <3>3, <3>4
  <2>4. Stream(SubSeq(w, 1, k), snt, off, Consumed(s, gt, off), FALSE)
    BY <1>1, <2>2, <2>3, Cut DEF Typed
  <2>5. Reading(s, SubSeq(w, 1, k), snt, gt, FALSE)
    BY <2>1, <2>2, <2>4 DEF Reading
  <2> QED
    BY <1>1, <1>2, <1>3, <2>5 DEF Channel, Typed
<1>4. CASE ~s.open
  BY <1>1, <1>2, <1>4 DEF Channel, Typed
<1> QED
  BY <1>3, <1>4

LEMMA NotWhole ==
  ASSUME NEW s, NEW w, NEW snt, NEW gt, NEW whole, Channel(s, w, snt, gt, whole)
  PROVE  Channel(s, w, snt, gt, FALSE)
<1>1. CASE s.open
  <2>1. Reading(s, w, snt, gt, FALSE)
    BY <1>1 DEF Channel, Reading, Stream
  <2> QED
    BY <1>1, <2>1 DEF Channel
<1>2. CASE ~s.open
  BY <1>2 DEF Channel
<1> QED
  BY <1>1, <1>2

LEMMA CloseEnd ==
  ASSUME NEW s, NEW w, NEW snt, NEW gt, NEW whole, NEW v \in Seq(Byte), NEW some,
         Channel(s, w, snt, gt, whole)
  PROVE  /\ Channel(Close(s), v, snt, gt, some) /\ Close(s).open = FALSE
         /\ Close(s).exiting = s.exiting
<1>1. Typed(s, w, snt, gt) /\ Whole(snt, gt)
  BY DEF Channel
<1>2. /\ Close(s) \in EndState /\ Close(s).open = FALSE /\ Close(s).entries = <<>>
      /\ Close(s).exiting = s.exiting
  BY <1>1, EmptySeq DEF Typed, EndState, Close
<1> QED
  BY <1>1, <1>2 DEF Channel, Typed

LEMMA SetExiting ==
  ASSUME NEW s, NEW w, NEW snt, NEW gt, NEW whole, Channel(s, w, snt, gt, whole)
  PROVE  LET t == [s EXCEPT !.exiting = TRUE]
         IN  /\ Channel(t, w, snt, gt, whole)
             /\ t.open = s.open /\ t.entries = s.entries /\ t.msgExist = s.msgExist
             /\ t.header = s.header
<1> DEFINE t == [s EXCEPT !.exiting = TRUE]
<1>1. /\ t \in EndState /\ t.open = s.open /\ t.entries = s.entries
      /\ t.msgExist = s.msgExist /\ t.header = s.header
  BY DEF Channel, Typed, EndState
<1> HIDE DEF t
<1>2. Channel(t, w, snt, gt, whole)
  BY <1>1 DEF Channel, Typed, Reading, Holding, Consumed, Base
<1> QED
  BY <1>1, <1>2 DEF t

\* The code takes back the last byte: what is left is still a part of the message.
LEMMA ErrorEnd ==
  ASSUME NEW s, NEW snt, NEW gt, NEW whole, Channel(s, <<>>, snt, gt, whole), s.open,
         s.entries[1].buf # <<>>
  PROVE  LET t == [s EXCEPT !.entries[1].buf = Front(s.entries[1].buf)]
         IN  Channel(t, <<>>, snt, gt, FALSE) /\ t.open = s.open
<1> DEFINE old == s.entries[1].buf
           want == s.entries[1].want
           buf == SubSeq(old, 1, Len(old) - 1)
           t == [s EXCEPT !.entries[1].buf = buf]
<1>1. Typed(s, <<>>, snt, gt) /\ Whole(snt, gt) /\ Holding(s, snt, gt)
  BY DEF Channel, Reading
<1>2. PICK off : Offsets(snt, off) /\ Stream(<<>>, snt, off, Consumed(s, gt, off), whole)
  BY DEF Channel, Reading
<1>3. /\ old \in Seq(Byte) /\ Len(old) \in Nat \ {0} /\ want \in Nat /\ Base(s) \in Nat
      /\ Len(gt) \in Nat /\ Len(snt) \in Nat /\ Len(old) < want /\ Len(gt) < Len(snt)
  <2>1. /\ old \in Seq(Byte) /\ want \in Nat /\ Base(s) \in Nat
        /\ Len(gt) \in Nat /\ Len(snt) \in Nat
    BY <1>1, FrontEntry
  <2>2. Len(old) \in Nat \ {0}
    BY <2>1, EmptySeq
  <2>3. Len(old) < want /\ (Len(old) > 0 => Len(gt) < Len(snt))
    BY <1>1 DEF Holding
  <2> HIDE DEF old, want
  <2> QED
    BY <2>1, <2>2, <2>3
<1>4. /\ buf \in Seq(Byte) /\ Len(buf) = Len(old) - 1
      /\ \A i \in 1 .. Len(buf) : buf[i] = old[i] /\ i \in 1 .. Len(old)
  <2>1. Len(old) - 1 \in 0 .. Len(old)
    <3> HIDE DEF old, want
    <3> QED
      BY <1>3
  <2>2. /\ buf \in Seq(Byte) /\ Len(buf) = Len(old) - 1
        /\ \A i \in 1 .. Len(old) - 1 : buf[i] = old[i]
    BY <1>3, <2>1, SubBytes
  <2> HIDE DEF buf, old
  <2> QED
    BY <2>2, <1>3
<1>5. buf = Front(old)
  BY DEF Front
<1>6. PartOf(old, Current(snt, gt), Base(s))
  BY <1>1 DEF Holding
<1> HIDE DEF buf
<1>7. /\ t \in EndState /\ t.open = s.open /\ t.msgExist = s.msgExist
      /\ t.header = s.header /\ Len(t.entries) = 1
      /\ t.entries[1] = [want |-> want, buf |-> buf]
  <2>1. s \in EndState /\ s.entries \in Seq(Entry) /\ Len(s.entries) = 1
    BY <1>1 DEF Typed, Holding, EndState
  <2>2. /\ [s.entries EXCEPT ![1].buf = buf] \in Seq(Entry)
        /\ Len([s.entries EXCEPT ![1].buf = buf]) = 1
        /\ [s.entries EXCEPT ![1].buf = buf][1] = [want |-> want, buf |-> buf]
    <3> DEFINE r == [want |-> want, buf |-> buf]
    <3>1. r \in Entry /\ buf \in Seq(Byte)
      BY <1>3, <1>4 DEF Entry
    <3>2. [s.entries EXCEPT ![1].buf = buf] = <<r>>
      BY <2>1, <3>1, NewBuffer
    <3> HIDE DEF r
    <3>3. <<r>> \in Seq(Entry) /\ Len(<<r>>) = 1 /\ <<r>>[1] = r
      BY <3>1, OneEntry
    <3>4. r = [want |-> want, buf |-> buf]
      BY DEF r
    <3> QED
      BY <3>2, <3>3, <3>4
  <2> QED
    BY <2>1, <2>2 DEF EndState
<1> HIDE DEF t
<1>8. Len(buf) < want /\ PartOf(buf, Current(snt, gt), Base(s))
  <2> HIDE DEF old, want
  <2>1. Len(buf) < want
    BY <1>3, <1>4
  <2>2. PartOf(buf, Current(snt, gt), Base(s))
    BY <1>4, <1>6 DEF PartOf
  <2> QED
    BY <2>1, <2>2
<1>9. Holding(t, snt, gt) /\ Base(t) = Base(s)
  <2>1. t.entries[1].want = want /\ t.entries[1].buf = buf /\ Base(t) = Base(s)
    BY <1>7 DEF Base
  <2>2. want = IF t.msgExist THEN Length(t.header) ELSE HeaderSize
    BY <1>1, <1>7 DEF Holding
  <2>3. t.msgExist => /\ Len(gt) < Len(snt) /\ Len(t.header) = HeaderSize
                      /\ PartOf(t.header, Current(snt, gt), 0)
                      /\ Current(snt, gt).len > 0
    BY <1>1, <1>7 DEF Holding
  <2> HIDE DEF want
  <2> QED
    BY <2>1, <2>2, <2>3, <1>3, <1>7, <1>8 DEF Holding
<1>10. Stream(<<>>, snt, off, Consumed(t, gt, off), FALSE)
  <2> DEFINE o == off[Len(gt) + 1]
             end_ == off[Len(snt) + 1]
  <2>1. o \in Nat /\ end_ \in Nat
    <3>1. Len(gt) + 1 \in 1 .. Len(snt) + 1 /\ Len(snt) + 1 \in 1 .. Len(snt) + 1
      BY <1>3
    <3> QED
      BY <3>1, <1>2 DEF Offsets
  <2>2. Len(<<>>) = 0 /\ \A i \in 1 .. Len(<<>>) : FALSE
    BY EmptySeq
  <2>3. (o + Base(s) + Len(old)) + 0 <= end_
    BY <1>2, <2>2 DEF Stream, Consumed
  <2>4. Consumed(t, gt, off) = o + Base(s) + (Len(old) - 1)
    <3>1. Len(t.entries[1].buf) = Len(old) - 1
      BY <1>4, <1>7
    <3> QED
      BY <3>1, <1>9 DEF Consumed
  <2> HIDE DEF o, end_, old
  <2>5. (o + Base(s) + (Len(old) - 1)) + 0 <= end_
    BY <2>1, <2>3, <1>3
  <2>6. Consumed(t, gt, off) + Len(<<>>) <= off[Len(snt) + 1]
    BY <2>2, <2>4, <2>5 DEF end_
  <2> QED
    BY <2>2, <2>6 DEF Stream
<1>11. Reading(t, <<>>, snt, gt, FALSE)
  BY <1>2, <1>9, <1>10 DEF Reading
<1>12. Channel(t, <<>>, snt, gt, FALSE)
  BY <1>1, <1>7, <1>11 DEF Channel, Typed
<1> QED
  BY <1>5, <1>7, <1>12 DEF t

-----------------------------------------------------------------------------
(* The queries without answer                                              *)

LEMMA QueriesFinite ==
  ASSUME NEW snt \in Seq(Message), NEW gt
  PROVE  IsFiniteSet(Queries(snt, gt)) /\ Cardinality(Queries(snt, gt)) \in Nat
<1>1. IsFiniteSet(1 .. Len(snt)) /\ Queries(snt, gt) \subseteq 1 .. Len(snt)
  <2>1. Len(snt) \in Int /\ 1 \in Int
    OBVIOUS
  <2>2. IsFiniteSet(1 .. Len(snt))
    BY <2>1, FS_Interval
  <2> QED
    BY <2>2 DEF Queries
<1>2. IsFiniteSet(Queries(snt, gt))
  BY <1>1, FS_Subset
<1> QED
  BY <1>2, FS_CardinalityType

LEMMA QueryAsked ==
  ASSUME NEW snt \in Seq(Message), NEW gt, Len(gt) \in Nat, Len(gt) <= Len(snt),
         NEW m \in Message
  PROVE  Cardinality(Queries(Append(snt, m), gt)) =
           Cardinality(Queries(snt, gt)) + (IF m.type = "total" THEN 1 ELSE 0)
<1> DEFINE L == Len(snt)
<1>1. /\ L \in Nat /\ Len(Append(snt, m)) = L + 1 /\ Append(snt, m)[L + 1] = m
      /\ \A i \in 1 .. L : Append(snt, m)[i] = snt[i]
  BY AppendMessage
<1>2. IsFiniteSet(Queries(snt, gt)) /\ Cardinality(Queries(snt, gt)) \in Nat
  BY QueriesFinite
<1>3. L + 1 \notin Queries(snt, gt) /\ L + 1 > Len(gt)
  BY <1>1 DEF Queries
<1>4. \A k : k \in 1 .. L + 1 <=> k \in 1 .. L \/ k = L + 1
  BY <1>1
<1>5. Queries(Append(snt, m), gt) =
        IF m.type = "total" THEN Queries(snt, gt) \cup {L + 1} ELSE Queries(snt, gt)
  <2>1. ASSUME NEW k
        PROVE  k \in Queries(Append(snt, m), gt) <=>
                 k \in Queries(snt, gt) \/ (k = L + 1 /\ m.type = "total")
    <3>1. CASE k = L + 1
      BY <3>1, <1>1, <1>3, <1>4 DEF Queries
    <3>2. CASE k # L + 1
      BY <3>2, <1>1, <1>4 DEF Queries
    <3> QED
      BY <3>1, <3>2
  <2> QED
    BY <2>1
<1>6. Cardinality(Queries(snt, gt) \cup {L + 1}) = Cardinality(Queries(snt, gt)) + 1
  BY <1>2, <1>3, FS_AddElement
<1> QED
  BY <1>2, <1>5, <1>6

LEMMA QueryHandled ==
  ASSUME NEW snt \in Seq(Message), NEW gt \in Seq(Seq(Byte)), NEW x \in Seq(Byte),
         Len(gt) < Len(snt)
  PROVE  /\ Cardinality(Queries(snt, Append(gt, x))) = Cardinality(Queries(snt, gt))
                - (IF Current(snt, gt).type = "total" THEN 1 ELSE 0)
         /\ Cardinality(Queries(snt, Append(gt, x))) \in Nat
         /\ Cardinality(Queries(snt, gt)) \in Nat
<1> DEFINE g == Len(gt) + 1
<1>1. Len(gt) \in Nat /\ Len(Append(gt, x)) = g /\ g \in 1 .. Len(snt) /\ Len(snt) \in Nat
  BY AppendMessage
<1>2. /\ IsFiniteSet(Queries(snt, gt)) /\ Cardinality(Queries(snt, gt)) \in Nat
      /\ Cardinality(Queries(snt, Append(gt, x))) \in Nat
  BY QueriesFinite
<1>3. Queries(snt, Append(gt, x)) = Queries(snt, gt) \ {g}
  BY <1>1 DEF Queries
<1>4. g \in Queries(snt, gt) <=> Current(snt, gt).type = "total"
  BY <1>1 DEF Queries, Current
<1>5. Cardinality(Queries(snt, gt) \ {g}) =
        IF g \in Queries(snt, gt) THEN Cardinality(Queries(snt, gt)) - 1
        ELSE Cardinality(Queries(snt, gt))
  BY <1>2, FS_RemoveElement
<1> HIDE DEF g
<1> QED
  BY <1>2, <1>3, <1>4, <1>5

-----------------------------------------------------------------------------
(* The two channels                                                        *)

BothOpen == end["master"].open /\ end["worker"].open

ChannelOf(e) == Channel(end[e], wire[e], sent[e], got[e], BothOpen)

FieldTypes ==
  /\ end \in [Ends -> EndState] /\ wire \in [Ends -> Seq(Byte)]
  /\ sent \in [Ends -> Seq(Message)] /\ got \in [Ends -> Seq(Seq(Byte))]

LEMMA PeerFacts ==
  \A e \in Ends : /\ Peer(e) \in Ends /\ Peer(e) # e /\ Peer(Peer(e)) = e
                  /\ \A x \in Ends : x = e \/ x = Peer(e)
  BY DEF Ends, Peer

LEMMA ChannelsAre ==
  Channels <=> FieldTypes /\ ChannelOf("master") /\ ChannelOf("worker")
<1>1. ASSUME NEW e \in Ends
      PROVE  (end[e].open /\ end[Peer(e)].open) = BothOpen
  BY DEF Ends, Peer, BothOpen
<1>2. (\A e \in Ends : Channel(end[e], wire[e], sent[e], got[e],
                              end[e].open /\ end[Peer(e)].open))
      <=> (\A e \in Ends : ChannelOf(e))
  BY <1>1 DEF ChannelOf
<1>3. (\A e \in Ends : ChannelOf(e)) <=> ChannelOf("master") /\ ChannelOf("worker")
  BY DEF Ends
<1> QED
  BY <1>2, <1>3 DEF Channels, FieldTypes

\* After a step: what is to be shown of the two channels.
LEMMA ChannelsNext ==
  ASSUME FieldTypes', NEW e \in Ends, ChannelOf(e)', ChannelOf(Peer(e))'
  PROVE  Channels'
<1>1. ChannelOf("master")' /\ ChannelOf("worker")'
  BY DEF Ends, Peer
<1> QED
  BY <1>1, ChannelsAre, PTL

LEMMA OpenIsBoolean ==
  ASSUME FieldTypes, NEW e \in Ends
  PROVE  end[e].open \in BOOLEAN /\ BothOpen \in BOOLEAN
  BY DEF FieldTypes, EndState, BothOpen, Ends

LEMMA SendStep ==
  ASSUME Channels, NEW m \in Message, SendMessage(m),
         \A e \in Ends : end'[e].open = end[e].open
  PROVE  /\ wire' \in [Ends -> Seq(Byte)] /\ sent' \in [Ends -> Seq(Message)]
         /\ sent'["worker"] = Append(sent["worker"], m)
         /\ sent'["master"] = sent["master"] /\ wire'["master"] = wire["master"]
         /\ BothOpen = TRUE /\ BothOpen' = TRUE
         /\ Channel(end["worker"], wire'["worker"], sent'["worker"], got["worker"], TRUE)
<1>1. FieldTypes /\ ChannelOf("worker")
  BY ChannelsAre
<1>2. "worker" \in Ends /\ "master" \in Ends
  BY DEF Ends
<1>3. BothOpen = TRUE /\ BothOpen' = TRUE
  BY <1>1, <1>2 DEF SendMessage, BothOpen, FieldTypes, EndState
<1>4. /\ wire' = [wire EXCEPT !["worker"] = wire["worker"] \o Bytes(m)]
      /\ sent' = [sent EXCEPT !["worker"] = Append(sent["worker"], m)]
  BY DEF SendMessage
<1>5. wire["worker"] \o Bytes(m) \in Seq(Byte)
  BY <1>1, <1>2, BytesType, JoinBytes DEF FieldTypes
<1>6. Append(sent["worker"], m) \in Seq(Message)
  BY <1>1, <1>2, AppendMessage DEF FieldTypes
<1>7. /\ wire' \in [Ends -> Seq(Byte)] /\ sent' \in [Ends -> Seq(Message)]
      /\ sent'["worker"] = Append(sent["worker"], m)
      /\ wire'["worker"] = wire["worker"] \o Bytes(m)
      /\ sent'["master"] = sent["master"] /\ wire'["master"] = wire["master"]
  BY <1>1, <1>2, <1>4, <1>5, <1>6 DEF FieldTypes
<1>8. Channel(end["worker"], wire["worker"], sent["worker"], got["worker"], TRUE)
  BY <1>1, <1>3 DEF ChannelOf
<1>9. end["worker"].open
  BY DEF SendMessage
<1>10. Channel(end["worker"], wire["worker"] \o Bytes(m), Append(sent["worker"], m),
               got["worker"], TRUE)
  BY <1>8, <1>9, SendOpen
<1> QED
  BY <1>3, <1>7, <1>10

\* n bytes arrive: the assumptions of PartArrives, HeaderArrives, MessageArrives.
LEMMA ArriveStep ==
  ASSUME Channels, NEW e \in Ends, NEW n \in 1 .. MaxBytes, Arrives(e, n)
  PROVE  LET s == end[e]
         IN  /\ ChannelOf(e) /\ s.open /\ n \in 1 .. Len(wire[e])
             /\ Buffer(e, n) = s.entries[1].buf \o SubSeq(wire[e], 1, n)
             /\ n <= s.entries[1].want - Len(s.entries[1].buf)
             /\ Full(e, n) <=> Len(s.entries[1].buf) + n >= s.entries[1].want
             /\ ~Full(e, n) => n < s.entries[1].want - Len(s.entries[1].buf)
             /\ Taken(e, n) \in [Ends -> Seq(Byte)]
             /\ Taken(e, n)[e] = SubSeq(wire[e], n + 1, Len(wire[e]))
             /\ Taken(e, n)[Peer(e)] = wire[Peer(e)]
<1> DEFINE s == end[e]
           old == s.entries[1].buf
           want == s.entries[1].want
<1>1. FieldTypes /\ ChannelOf(e)
  BY ChannelsAre DEF Ends
<1>2. s.open
  BY DEF Arrives
<1>3. Typed(s, wire[e], sent[e], got[e]) /\ Holding(s, sent[e], got[e])
  BY <1>1, <1>2 DEF ChannelOf, Channel, Reading
<1>4. /\ Head(s.entries) = s.entries[1] /\ want \in Nat /\ old \in Seq(Byte)
      /\ Len(old) \in Nat
  BY <1>3, FrontEntry
<1>5. wire[e] \in Seq(Byte) /\ Len(wire[e]) \in Nat /\ n \in Nat /\ n >= 1
  BY <1>3, SizeAssumption DEF Typed, MaxBytes
<1>6. /\ Front1(e) = s.entries[1] /\ n <= want - Len(old) /\ n <= Len(wire[e])
  BY <1>4 DEF Arrives, Front1
<1>7. n \in 1 .. Len(wire[e]) /\ n \in 0 .. Len(wire[e])
  BY <1>5, <1>6
<1>8. Buffer(e, n) = old \o SubSeq(wire[e], 1, n)
  BY <1>6 DEF Buffer
<1>9. Len(Buffer(e, n)) = Len(old) + n
  <2>1. SubSeq(wire[e], 1, n) \in Seq(Byte) /\ Len(SubSeq(wire[e], 1, n)) = n
    BY <1>5, <1>7, SubBytes
  <2> HIDE DEF old
  <2> QED
    BY <2>1, <1>4, <1>8, JoinBytes
<1> HIDE DEF old, want
<1>10. /\ Full(e, n) <=> Len(old) + n >= want
       /\ ~Full(e, n) => n < want - Len(old)
  <2>1. Full(e, n) <=> Len(old) + n >= want
    BY <1>6, <1>9 DEF Full, want
  <2>2. ~(Len(old) + n >= want) => n < want - Len(old)
    BY <1>4, <1>5
  <2> QED
    BY <2>1, <2>2
<1>11. SubSeq(wire[e], n + 1, Len(wire[e])) \in Seq(Byte)
  BY <1>5, <1>7, SubBytes
<1>12. /\ Taken(e, n) \in [Ends -> Seq(Byte)]
       /\ Taken(e, n)[e] = SubSeq(wire[e], n + 1, Len(wire[e]))
       /\ Taken(e, n)[Peer(e)] = wire[Peer(e)]
  BY <1>1, <1>11, PeerFacts DEF Taken, FieldTypes
<1> QED
  BY <1>1, <1>2, <1>6, <1>7, <1>8, <1>10, <1>12 DEF old, want

\* A step of one end that stays as open as it was.
LEMMA OneEnd ==
  ASSUME Channels, NEW e \in Ends, NEW t, NEW v, NEW g,
         t.open = end[e].open, Channel(t, v, sent[e], g, BothOpen),
         end' = [end EXCEPT ![e] = t], wire' = [wire EXCEPT ![e] = v],
         got' = [got EXCEPT ![e] = g], sent' = sent
  PROVE  Channels'
<1>1. FieldTypes /\ ChannelOf(Peer(e)) /\ Peer(e) \in Ends /\ Peer(e) # e
  BY ChannelsAre, PeerFacts DEF Ends
<1>2. t \in EndState /\ v \in Seq(Byte) /\ g \in Seq(Seq(Byte))
  BY DEF Channel, Typed
<1>3. FieldTypes'
  BY <1>1, <1>2 DEF FieldTypes
<1>4. /\ end'[e] = t /\ wire'[e] = v /\ got'[e] = g
      /\ end'[Peer(e)] = end[Peer(e)] /\ wire'[Peer(e)] = wire[Peer(e)]
      /\ got'[Peer(e)] = got[Peer(e)]
  BY <1>1 DEF FieldTypes
<1>5. BothOpen' = BothOpen
  BY <1>4 DEF BothOpen, Ends, Peer
<1>6. ChannelOf(e)' /\ ChannelOf(Peer(e))'
  BY <1>1, <1>4, <1>5 DEF ChannelOf
<1> QED
  BY <1>3, <1>6, ChannelsNext

LEMMA ReceivePartChannels ==
  ASSUME Channels, NEW e \in Ends, NEW n \in 1 .. MaxBytes, ReceivePart(e, n)
  PROVE  Channels'
<1> DEFINE t == [end[e] EXCEPT !.entries[1].buf = Buffer(e, n)]
           v == SubSeq(wire[e], n + 1, Len(wire[e]))
<1>1. Arrives(e, n) /\ ~Full(e, n)
  BY DEF ReceivePart
<1>2. /\ end' = [end EXCEPT ![e] = t] /\ wire' = [wire EXCEPT ![e] = v]
      /\ got' = [got EXCEPT ![e] = got[e]] /\ sent' = sent
  <2>1. FieldTypes
    BY ChannelsAre
  <2> QED
    BY <2>1 DEF ReceivePart, Taken, FieldTypes
<1>3. /\ ChannelOf(e) /\ end[e].open /\ n \in 1 .. Len(wire[e])
      /\ Buffer(e, n) = end[e].entries[1].buf \o SubSeq(wire[e], 1, n)
      /\ n < end[e].entries[1].want - Len(end[e].entries[1].buf)
  BY <1>1, ArriveStep
<1>4. Channel(t, v, sent[e], got[e], BothOpen)
  BY <1>3, PartArrives DEF ChannelOf
<1>5. t.open = end[e].open
  BY <1>3 DEF ChannelOf, Channel, Typed, EndState
<1> HIDE DEF t, v
<1> QED
  BY <1>2, <1>4, <1>5, OneEnd

LEMMA ReceiveHeaderChannels ==
  ASSUME Channels, NEW e \in Ends, NEW n \in 1 .. MaxBytes, ReceiveHeader(e, n)
  PROVE  Channels'
<1> DEFINE buf == Buffer(e, n)
           u == [end[e] EXCEPT !.msgExist = TRUE, !.header = buf]
           t == PopEntry(PrepareReadMessageData(u))
           v == SubSeq(wire[e], n + 1, Len(wire[e]))
<1>1. Arrives(e, n) /\ Full(e, n) /\ ~end[e].msgExist /\ Length(buf) > 0
  BY DEF ReceiveHeader
<1>2. /\ end' = [end EXCEPT ![e] = t] /\ wire' = [wire EXCEPT ![e] = v]
      /\ got' = [got EXCEPT ![e] = got[e]] /\ sent' = sent
  <2>1. FieldTypes
    BY ChannelsAre
  <2> QED
    BY <2>1 DEF ReceiveHeader, Taken, FieldTypes
<1>3. /\ ChannelOf(e) /\ end[e].open /\ n \in 1 .. Len(wire[e])
      /\ buf = end[e].entries[1].buf \o SubSeq(wire[e], 1, n)
      /\ n <= end[e].entries[1].want - Len(end[e].entries[1].buf)
      /\ Len(end[e].entries[1].buf) + n >= end[e].entries[1].want
  BY <1>1, ArriveStep
<1>4. Channel(t, v, sent[e], got[e], BothOpen) /\ t.open = end[e].open
  <2> HIDE DEF buf
  <2> QED
    BY <1>1, <1>3, HeaderArrives DEF ChannelOf
<1> HIDE DEF t, v
<1> QED
  BY <1>2, <1>4, OneEnd

\* A message is complete, for the end as it was or set to exit.
LEMMA CompleteStep ==
  ASSUME Channels, NEW e \in Ends, NEW n \in 1 .. MaxBytes, NEW type,
         Complete(e, n, type), NEW s, s \in {end[e], [end[e] EXCEPT !.exiting = TRUE]}
  PROVE  LET m == Current(sent[e], got[e])
             all == Received(e, n)
         IN  /\ Len(got[e]) < Len(sent[e]) /\ Len(got[e]) \in Nat /\ Len(sent[e]) \in Nat
             /\ m \in Message /\ m.type = type
             /\ all \in Seq(Byte) /\ all[1].msg = m /\ Buffer(e, n)[1].msg = m
             /\ got' = [got EXCEPT ![e] = Append(got[e], all)]
             /\ Channel(Ready(s), SubSeq(wire[e], n + 1, Len(wire[e])), sent[e],
                        Append(got[e], all), BothOpen)
             /\ Ready(s).open = end[e].open /\ end[e].open = TRUE
<1> DEFINE buf == Filled(end[e], wire[e], n)
           all == Handed(end[e], wire[e], n)
           m == Current(sent[e], got[e])
<1>1. Arrives(e, n) /\ Full(e, n) /\ (end[e].msgExist \/ Length(Buffer(e, n)) = 0)
      /\ Received(e, n)[1].msg.type = type
  BY DEF Complete
<1>2. /\ ChannelOf(e) /\ end[e].open /\ n \in 1 .. Len(wire[e])
      /\ Buffer(e, n) = buf
      /\ n <= end[e].entries[1].want - Len(end[e].entries[1].buf)
      /\ Len(end[e].entries[1].buf) + n >= end[e].entries[1].want
  BY <1>1, ArriveStep DEF Filled
<1>3. Received(e, n) = all
  BY <1>2 DEF Received, Handed
<1>4. /\ Channel(s, wire[e], sent[e], got[e], BothOpen)
      /\ s.open = end[e].open /\ s.entries = end[e].entries
      /\ s.msgExist = end[e].msgExist /\ s.header = end[e].header
  <2>1. CASE s = end[e]
    BY <2>1, <1>2 DEF ChannelOf
  <2>2. CASE s = [end[e] EXCEPT !.exiting = TRUE]
    BY <2>2, <1>2, SetExiting DEF ChannelOf
  <2> QED
    BY <2>1, <2>2
<1> DEFINE buf2 == Filled(s, wire[e], n)
           all2 == Handed(s, wire[e], n)
<1>5. buf2 = buf /\ all2 = all
  BY <1>4 DEF Filled, Handed
<1>6. s.msgExist \/ Length(buf2) = 0
  BY <1>1, <1>2, <1>4, <1>5
<1>7. /\ s.open /\ n <= s.entries[1].want - Len(s.entries[1].buf)
      /\ Len(s.entries[1].buf) + n >= s.entries[1].want
  BY <1>2, <1>4
<1>8. /\ Len(got[e]) < Len(sent[e]) /\ Len(got[e]) \in Nat /\ Len(sent[e]) \in Nat
      /\ m \in Message /\ all2 \in Seq(Byte)
      /\ all2[1].msg = m /\ buf2[1].msg = m
      /\ Channel(Ready(s), SubSeq(wire[e], n + 1, Len(wire[e])), sent[e],
                 Append(got[e], all2), BothOpen)
      /\ Ready(s).open = s.open
  <2>1. Channel(s, wire[e], sent[e], got[e], BothOpen) /\ n \in 1 .. Len(wire[e])
    BY <1>2, <1>4
  <2>2. MessageEnds(s, wire[e], sent[e], got[e], BothOpen, n)
    BY <2>1, <1>6, <1>7 DEF MessageEnds
  <2> HIDE DEF buf, all
  <2> QED
    BY <2>2, MessageArrives
<1>9. end[e].open = TRUE
  BY <1>2 DEF ChannelOf, Channel, Typed, EndState
<1> HIDE DEF buf, all, buf2, all2, m
<1>10. m.type = type
  BY <1>1, <1>3, <1>5, <1>8
<1>11. got' = [got EXCEPT ![e] = Append(got[e], Received(e, n))]
  BY DEF Complete
<1> QED
  BY <1>2, <1>3, <1>4, <1>5, <1>8, <1>9, <1>10, <1>11 DEF m

LEMMA HandedOver ==
  ASSUME Channels, NEW e \in Ends, NEW n \in 1 .. MaxBytes, NEW type,
         Complete(e, n, type), NEW s, s \in {end[e], [end[e] EXCEPT !.exiting = TRUE]},
         end' = [end EXCEPT ![e] = Ready(s)], wire' = Taken(e, n), sent' = sent
  PROVE  Channels'
<1> DEFINE v == SubSeq(wire[e], n + 1, Len(wire[e]))
           g == Append(got[e], Received(e, n))
           t == Ready(s)
<1>1. /\ got' = [got EXCEPT ![e] = g] /\ Channel(t, v, sent[e], g, BothOpen)
      /\ t.open = end[e].open
  BY CompleteStep
<1>2. wire' = [wire EXCEPT ![e] = v]
  BY DEF Taken
<1>3. end' = [end EXCEPT ![e] = t]
  OBVIOUS
<1> HIDE DEF v, g, t
<1> QED
  BY <1>1, <1>2, <1>3, OneEnd

LEMMA ReceiveQueryChannels ==
  ASSUME Channels, total \in Nat, NEW n \in 1 .. MaxBytes, ReceiveQuery(n)
  PROVE  /\ Channels' /\ sent'["worker"] = sent["worker"] /\ got'["master"] = got["master"]
         /\ sent'["master"] = Append(sent["master"], Msg("total", LongSize, total))
<1> DEFINE v == SubSeq(wire["worker"], n + 1, Len(wire["worker"]))
           g == Append(got["worker"], Received("worker", n))
           t == Ready(end["worker"])
           m == Msg("total", LongSize, total)
           more == wire["master"] \o Bytes(m)
           longer == Append(sent["master"], m)
<1>1. /\ FieldTypes /\ ChannelOf("master") /\ ChannelOf("worker")
      /\ "worker" \in Ends /\ "master" \in Ends
      /\ Peer("worker") = "master" /\ Peer("master") = "worker"
  BY ChannelsAre DEF Ends, Peer
<1>2. Complete("worker", n, "total")
  BY DEF ReceiveQuery
<1>3. /\ got' = [got EXCEPT !["worker"] = g] /\ t.open = end["worker"].open
      /\ Channel(t, v, sent["worker"], g, BothOpen) /\ end["worker"].open = TRUE
  BY <1>1, <1>2, CompleteStep
<1>4. /\ wire' = [Taken("worker", n) EXCEPT !["master"] = Taken("worker", n)["master"] \o Bytes(m)]
      /\ sent' = [sent EXCEPT !["master"] = longer]
      /\ end' = [end EXCEPT !["worker"] = t]
  BY DEF ReceiveQuery
<1>5. /\ Taken("worker", n) \in [Ends -> Seq(Byte)] /\ Taken("worker", n)["worker"] = v
      /\ Taken("worker", n)["master"] = wire["master"]
  BY <1>1, <1>2, ArriveStep DEF Complete
<1>6. m \in Message
  BY SizeAssumption DEF Msg, Message
<1> HIDE DEF m, t, v, g
<1>7. more \in Seq(Byte) /\ longer \in Seq(Message)
  BY <1>1, <1>6, BytesType, JoinBytes, AppendMessage DEF FieldTypes
<1>8. Channel(end["master"], more, longer, got["master"], BothOpen)
  <2>1. CASE end["master"].open
    <3>1. BothOpen = TRUE
      BY <2>1, <1>3 DEF BothOpen
    <3> QED
      BY <2>1, <3>1, <1>1, <1>6, SendOpen DEF ChannelOf
  <2>2. CASE ~end["master"].open
    BY <2>2, <1>1, <1>6, SendClosed DEF ChannelOf
  <2> QED
    BY <2>1, <2>2
<1> HIDE DEF more, longer
<1>9. t \in EndState /\ v \in Seq(Byte) /\ g \in Seq(Seq(Byte))
  BY <1>3 DEF Channel, Typed
<1>10. /\ end'["worker"] = t /\ end'["master"] = end["master"]
       /\ got'["worker"] = g /\ got'["master"] = got["master"]
       /\ sent'["worker"] = sent["worker"] /\ sent'["master"] = longer
  BY <1>1, <1>3, <1>4 DEF FieldTypes
<1>11. wire'["worker"] = v /\ wire'["master"] = more /\ wire' \in [Ends -> Seq(Byte)]
  BY <1>1, <1>4, <1>5, <1>7 DEF more
<1>12. FieldTypes'
  BY <1>1, <1>3, <1>4, <1>7, <1>9, <1>11 DEF FieldTypes
<1>13. BothOpen' = BothOpen
  BY <1>3, <1>10 DEF BothOpen
<1>14. ChannelOf("worker")' /\ ChannelOf("master")'
  BY <1>3, <1>8, <1>10, <1>11, <1>13 DEF ChannelOf
<1>15. Channels'
  BY <1>1, <1>12, <1>14, ChannelsNext
<1> QED
  BY <1>10, <1>15 DEF longer, m

\* An end is gone, its output cut.
LEMMA GoneChannels ==
  ASSUME Channels, NEW e \in Ends, NEW k \in 0 .. Len(wire[Peer(e)]), Gone(e, k),
         sent' = sent, got' = got
  PROVE  Channels'
<1> DEFINE t == Close(end[e])
           v == SubSeq(wire[Peer(e)], 1, k)
<1>1. /\ FieldTypes /\ ChannelOf(e) /\ ChannelOf(Peer(e))
      /\ Peer(e) \in Ends /\ Peer(e) # e
  BY ChannelsAre, PeerFacts DEF Ends
<1>2. end' = [end EXCEPT ![e] = t] /\ wire' = [wire EXCEPT ![Peer(e)] = v]
  BY DEF Gone
<1>3. Channel(t, wire[e], sent[e], got[e], FALSE) /\ t.open = FALSE
  <2>1. wire[e] \in Seq(Byte)
    BY <1>1 DEF FieldTypes
  <2> QED
    BY <2>1, <1>1, CloseEnd DEF ChannelOf
<1>4. Channel(end[Peer(e)], v, sent[Peer(e)], got[Peer(e)], FALSE)
  BY <1>1, CutWire DEF ChannelOf
<1> HIDE DEF t, v
<1>5. t \in EndState /\ v \in Seq(Byte)
  BY <1>3, <1>4 DEF Channel, Typed
<1>6. /\ FieldTypes' /\ end'[e] = t /\ wire'[e] = wire[e]
      /\ end'[Peer(e)] = end[Peer(e)] /\ wire'[Peer(e)] = v
  BY <1>1, <1>2, <1>5 DEF FieldTypes
<1>7. BothOpen' = FALSE
  BY <1>3, <1>6 DEF BothOpen, Ends, Peer
<1>8. ChannelOf(e)' /\ ChannelOf(Peer(e))'
  BY <1>3, <1>4, <1>6, <1>7 DEF ChannelOf
<1> QED
  BY <1>6, <1>8, ChannelsNext

LEMMA ReceiveErrorChannels ==
  ASSUME Channels, NEW e \in Ends, ReceiveError(e)
  PROVE  Channels'
<1>1. /\ FieldTypes /\ ChannelOf(e) /\ ChannelOf(Peer(e))
      /\ Peer(e) \in Ends /\ Peer(e) # e
  BY ChannelsAre, PeerFacts DEF Ends
<1>2. /\ end[e].open /\ ~end[Peer(e)].open /\ wire[e] = <<>>
      /\ wire' = [wire EXCEPT ![Peer(e)] = <<>>] /\ sent' = sent /\ got' = got
  BY DEF ReceiveError, Alone
<1>3. /\ wire' \in [Ends -> Seq(Byte)] /\ wire'[e] = <<>> /\ wire'[Peer(e)] = <<>>
  BY <1>1, <1>2, EmptySeq DEF FieldTypes
<1>4. Channel(end[Peer(e)], <<>>, sent[Peer(e)], got[Peer(e)], FALSE)
  BY <1>1, <1>2, EmptySeq DEF ChannelOf, Channel, Typed
<1>5. Channel(end[e], <<>>, sent[e], got[e], BothOpen)
  BY <1>1, <1>2 DEF ChannelOf
<1>6. Front1(e) = end[e].entries[1]
  <2>1. Typed(end[e], wire[e], sent[e], got[e]) /\ Holding(end[e], sent[e], got[e])
    BY <1>1, <1>2 DEF ChannelOf, Channel, Reading
  <2> QED
    BY <2>1, FrontEntry DEF Front1
<1>7. PICK t : /\ Channel(t, <<>>, sent[e], got[e], FALSE)
               /\ end' = [end EXCEPT ![e] = t]
  <2>1. CASE Front1(e).buf # <<>>
    <3>1. end[e].entries[1].buf # <<>>
      BY <2>1, <1>6
    <3> DEFINE t == [end[e] EXCEPT !.entries[1].buf = Front(end[e].entries[1].buf)]
    <3>2. Channel(t, <<>>, sent[e], got[e], FALSE)
      BY <3>1, <1>2, <1>5, ErrorEnd
    <3>3. end' = [end EXCEPT ![e] = t]
      BY <2>1, <1>6 DEF ReceiveError
    <3> QED
      BY <3>2, <3>3
  <2>2. CASE Front1(e).buf = <<>>
    <3>1. Channel(Close(end[e]), <<>>, sent[e], got[e], FALSE)
      BY <1>5, EmptySeq, CloseEnd
    <3>2. end' = [end EXCEPT ![e] = Close(end[e])]
      BY <2>2 DEF ReceiveError
    <3> QED
      BY <3>1, <3>2
  <2> QED
    BY <2>1, <2>2
<1>8. t \in EndState
  BY <1>7 DEF Channel, Typed
<1>9. FieldTypes' /\ end'[e] = t /\ end'[Peer(e)] = end[Peer(e)]
  BY <1>1, <1>2, <1>3, <1>7, <1>8 DEF FieldTypes
<1>10. BothOpen' = FALSE
  <2>1. end[Peer(e)].open = FALSE
    BY <1>1, <1>2 DEF FieldTypes, EndState
  <2>2. end'["master"].open = FALSE \/ end'["worker"].open = FALSE
    BY <2>1, <1>9 DEF Ends, Peer
  <2> QED
    BY <2>2 DEF BothOpen
<1>11. ChannelOf(e)' /\ ChannelOf(Peer(e))'
  BY <1>2, <1>3, <1>4, <1>7, <1>9, <1>10 DEF ChannelOf
<1> QED
  BY <1>9, <1>11, ChannelsNext

LEMMA ReceiveExitChannels ==
  ASSUME Channels, NEW n \in 1 .. MaxBytes, ReceiveExit(n)
  PROVE  Channels'
<1> DEFINE e == "worker"
           v == SubSeq(wire[e], n + 1, Len(wire[e]))
           g == Append(got[e], Received(e, n))
           s == [end[e] EXCEPT !.exiting = TRUE]
<1>1. /\ FieldTypes /\ ChannelOf("master") /\ ChannelOf(e)
      /\ e \in Ends /\ "master" \in Ends /\ Peer(e) = "master"
  BY ChannelsAre DEF Ends, Peer
<1>2. Complete(e, n, "exit") /\ sent' = sent
  BY DEF ReceiveExit
<1>3. /\ got' = [got EXCEPT ![e] = g] /\ Channel(Ready(s), v, sent[e], g, BothOpen)
  BY <1>1, <1>2, CompleteStep
<1>4. CASE end' = [end EXCEPT ![e] = Ready(s)] /\ wire' = Taken(e, n)
  BY <1>1, <1>2, <1>4, HandedOver
<1>5. ASSUME NEW k \in 0 .. Len(wire["master"]),
             end' = [end EXCEPT ![e] = Close(end[e])],
             wire' = [Taken(e, n) EXCEPT !["master"] = SubSeq(Taken(e, n)["master"], 1, k)]
      PROVE  Channels'
  <2> DEFINE t == Close(end[e])
             u == SubSeq(wire["master"], 1, k)
  <2>1. /\ Taken(e, n) \in [Ends -> Seq(Byte)] /\ Taken(e, n)[e] = v
        /\ Taken(e, n)["master"] = wire["master"]
    BY <1>1, <1>2, ArriveStep DEF Complete
  <2>2. Channel(end["master"], u, sent["master"], got["master"], FALSE)
    BY <1>1, CutWire DEF ChannelOf
  <2>3. t \in EndState /\ t.open = FALSE /\ t.entries = <<>>
    BY <1>1, EmptySeq DEF FieldTypes, EndState, Close
  <2> HIDE DEF t, u, v, g
  <2>4. Channel(t, v, sent[e], g, FALSE)
    BY <2>3, <1>3 DEF Channel, Typed
  <2>5. v \in Seq(Byte) /\ u \in Seq(Byte) /\ g \in Seq(Seq(Byte))
    BY <2>2, <2>4 DEF Channel, Typed
  <2>6. /\ wire' \in [Ends -> Seq(Byte)] /\ wire'[e] = v /\ wire'["master"] = u
    BY <1>1, <1>5, <2>1, <2>5 DEF u
  <2>7. /\ FieldTypes' /\ end'[e] = t /\ end'["master"] = end["master"]
        /\ got'[e] = g /\ got'["master"] = got["master"]
    BY <1>1, <1>2, <1>3, <1>5, <2>3, <2>5, <2>6 DEF FieldTypes, t
  <2>8. BothOpen' = FALSE
    BY <2>3, <2>7 DEF BothOpen
  <2>9. ChannelOf(e)' /\ ChannelOf("master")'
    BY <1>2, <2>2, <2>4, <2>6, <2>7, <2>8 DEF ChannelOf
  <2> QED
    BY <1>1, <2>7, <2>9, ChannelsNext
<1> QED
  BY <1>4, <1>5 DEF ReceiveExit

-----------------------------------------------------------------------------
(* Queries and answers                                                     *)

LEMMA CountTypes ==
  ASSUME Channels, Counts
  PROVE  /\ sent["worker"] \in Seq(Message) /\ sent["master"] \in Seq(Message)
         /\ got["worker"] \in Seq(Seq(Byte)) /\ got["master"] \in Seq(Seq(Byte))
         /\ Len(got["worker"]) \in Nat /\ Len(got["worker"]) <= Len(sent["worker"])
         /\ Len(got["master"]) \in Nat /\ Len(got["master"]) <= Len(sent["master"])
         /\ Len(sent["master"]) \in Nat /\ Underway \in Nat
         /\ Cardinality(Unhandled) \in Nat
         /\ Len(asked) \in Nat /\ Underway <= Len(asked)
<1>1. /\ FieldTypes /\ "master" \in Ends /\ "worker" \in Ends
      /\ ChannelOf("master") /\ ChannelOf("worker")
  BY ChannelsAre DEF Ends
<1>2. /\ sent["worker"] \in Seq(Message) /\ sent["master"] \in Seq(Message)
      /\ got["worker"] \in Seq(Seq(Byte)) /\ got["master"] \in Seq(Seq(Byte))
  BY <1>1 DEF FieldTypes
<1>3. /\ Len(got["worker"]) <= Len(sent["worker"])
      /\ Len(got["master"]) <= Len(sent["master"])
  BY <1>1 DEF ChannelOf, Channel, Whole
<1>4. /\ Len(got["worker"]) \in Nat /\ Len(got["master"]) \in Nat
      /\ Len(sent["master"]) \in Nat
  BY <1>2
<1>5. Underway \in Nat
  BY <1>3, <1>4 DEF Underway
<1>6. Cardinality(Unhandled) \in Nat
  BY <1>2, QueriesFinite DEF Unhandled
<1>7. Len(asked) \in Nat /\ Len(asked) = Underway + Cardinality(Unhandled)
  BY DEF Counts
<1>8. Underway <= Len(asked)
  BY <1>5, <1>6, <1>7
<1> QED
  BY <1>2, <1>3, <1>4, <1>5, <1>6, <1>7, <1>8

\* A step that is not about queries, or sends another message to the worker.
LEMMA CountsKept ==
  ASSUME Channels, Counts, got' = got, sent'["master"] = sent["master"],
         UNCHANGED <<total, shown, asked, fresh>>,
         \/ sent'["worker"] = sent["worker"]
         \/ \E m \in Message : /\ m.type # "total"
                              /\ sent'["worker"] = Append(sent["worker"], m)
  PROVE  Counts'
<1>1. Underway' = Underway /\ \A m : IsAnswer(m)' <=> IsAnswer(m)
  BY DEF Underway, IsAnswer
<1>2. Cardinality(Unhandled)' = Cardinality(Unhandled)
  <2>1. CASE sent'["worker"] = sent["worker"]
    BY <2>1 DEF Unhandled, Queries
  <2>2. ASSUME NEW m \in Message, m.type # "total",
               sent'["worker"] = Append(sent["worker"], m)
        PROVE  Cardinality(Unhandled)' = Cardinality(Unhandled)
    <3>1. Unhandled' = Queries(Append(sent["worker"], m), got["worker"])
      BY <2>2 DEF Unhandled, Queries
    <3>2. Cardinality(Queries(Append(sent["worker"], m), got["worker"])) =
            Cardinality(Unhandled) + 0
      BY <2>2, CountTypes, QueryAsked DEF Unhandled
    <3> QED
      BY <3>1, <3>2, CountTypes
  <2> QED
    BY <2>1, <2>2
<1> QED
  BY <1>1, <1>2 DEF Counts

LEMMA QuerySent ==
  ASSUME Channels, Counts, got' = got, sent'["master"] = sent["master"],
         UNCHANGED <<total, shown, fresh>>, asked' = Append(asked, total),
         sent'["worker"] = Append(sent["worker"], Msg("total", 0, 0))
  PROVE  Counts'
<1> DEFINE m == Msg("total", 0, 0)
<1>1. Underway' = Underway /\ (\A x : IsAnswer(x)' <=> IsAnswer(x))
  BY DEF Underway, IsAnswer
<1>2. Cardinality(Unhandled)' = Cardinality(Unhandled) + 1
  <2>1. m \in Message /\ m.type = "total"
    BY DEF Msg, Message
  <2>2. Unhandled' = Queries(Append(sent["worker"], m), got["worker"])
    BY DEF Unhandled, Queries
  <2> HIDE DEF m
  <2> QED
    BY <2>1, <2>2, CountTypes, QueryAsked DEF Unhandled
<1>3. /\ asked \in Seq(Nat) /\ total \in Nat /\ Len(asked) \in Nat
      /\ Underway \in Nat /\ Underway <= Len(asked) /\ Cardinality(Unhandled) \in Nat
  BY CountTypes DEF Counts
<1>4. /\ asked' \in Seq(Nat) /\ Len(asked') = Len(asked) + 1
      /\ asked'[Len(asked) + 1] = total
      /\ \A i \in 1 .. Len(asked) : asked'[i] = asked[i]
  BY <1>3, AppendMessage
<1>5. \A j \in 1 .. Len(asked') : asked'[j] <= total'
  <2> TAKE j \in 1 .. Len(asked')
  <2>1. CASE j = Len(asked) + 1
    BY <2>1, <1>3, <1>4
  <2>2. CASE j # Len(asked) + 1
    <3>1. j \in 1 .. Len(asked)
      BY <2>2, <1>3, <1>4
    <3>2. asked[j] <= total
      BY <3>1 DEF Counts
    <3> QED
      BY <3>1, <3>2, <1>4
  <2> QED
    BY <2>1, <2>2
<1>6. Len(asked') = Underway' + Cardinality(Unhandled)'
  BY <1>1, <1>2, <1>3, <1>4 DEF Counts
<1>7. \A j \in 1 .. Underway' : asked'[j] <= sent'["master"][Len(got'["master"]) + j].val
  <2> TAKE j \in 1 .. Underway'
  <2>1. j \in 1 .. Underway /\ j \in 1 .. Len(asked)
    BY <1>1, <1>3
  <2>2. asked[j] <= sent["master"][Len(got["master"]) + j].val
    BY <2>1 DEF Counts
  <2> QED
    BY <2>1, <2>2, <1>4
<1>8. (\A j \in 1 .. Len(sent["master"]) : IsAnswer(sent["master"][j]))'
  BY DEF Counts, IsAnswer
<1> QED
  BY <1>4, <1>5, <1>6, <1>7, <1>8 DEF Counts

LEMMA RequestCounted ==
  ASSUME Channels, Counts, got' = got, sent' = sent,
         UNCHANGED <<shown, asked, fresh>>, total' = total + 1
  PROVE  Counts'
<1>1. Underway' = Underway /\ Unhandled' = Unhandled
  BY DEF Underway, Unhandled, Queries
<1>2. total \in Nat /\ total' \in Nat /\ shown \in Nat /\ shown <= total
  BY DEF Counts
<1>3. shown' <= total'
  BY <1>2
<1>4. \A j \in 1 .. Len(asked) : asked[j] <= total'
  <2> TAKE j \in 1 .. Len(asked)
  <2>1. asked[j] \in Nat /\ asked[j] <= total
    BY DEF Counts
  <2> QED
    BY <2>1, <1>2
<1>5. \A j \in 1 .. Len(sent["master"]) : IsAnswer(sent["master"][j])'
  <2> TAKE j \in 1 .. Len(sent["master"])
  <2>1. sent["master"][j] \in Message /\ IsAnswer(sent["master"][j])
    BY CountTypes DEF Counts
  <2>2. sent["master"][j].val \in Nat
    BY <2>1 DEF Message
  <2> QED
    BY <2>1, <2>2, <1>2 DEF IsAnswer
<1> QED
  BY <1>1, <1>2, <1>3, <1>4, <1>5 DEF Counts

\* The worker handled a message that is no query.
LEMMA OtherHandled ==
  ASSUME Channels, Counts, sent' = sent, NEW x \in Seq(Byte),
         UNCHANGED <<total, shown, asked, fresh>>,
         Len(got["worker"]) < Len(sent["worker"]),
         Current(sent["worker"], got["worker"]).type # "total",
         got' = [got EXCEPT !["worker"] = Append(got["worker"], x)]
  PROVE  Counts'
<1>1. got'["master"] = got["master"] /\ got'["worker"] = Append(got["worker"], x)
  BY DEF Channels, Ends
<1>2. Underway' = Underway
  BY <1>1 DEF Underway
<1>3. Unhandled' = Queries(sent["worker"], Append(got["worker"], x))
  BY <1>1 DEF Unhandled, Queries
<1>4. Cardinality(Unhandled') = Cardinality(Unhandled)
  <2>1. /\ Cardinality(Queries(sent["worker"], Append(got["worker"], x))) =
             Cardinality(Unhandled) - 0
    BY CountTypes, QueryHandled DEF Unhandled
  <2> QED
    BY <2>1, <1>3, CountTypes
<1> QED
  BY <1>1, <1>2, <1>4 DEF Counts, IsAnswer

\* The worker answered a query.
LEMMA QueryAnswered ==
  ASSUME Channels, Counts, NEW x \in Seq(Byte),
         UNCHANGED <<total, shown, asked, fresh>>,
         Len(got["worker"]) < Len(sent["worker"]),
         Current(sent["worker"], got["worker"]).type = "total",
         got' = [got EXCEPT !["worker"] = Append(got["worker"], x)],
         sent'["worker"] = sent["worker"],
         sent'["master"] = Append(sent["master"], Msg("total", LongSize, total))
  PROVE  Counts'
<1> DEFINE m == Msg("total", LongSize, total)
           L == Len(sent["master"])
           u == Underway
           c == Cardinality(Unhandled)
<1>1. got'["master"] = got["master"] /\ got'["worker"] = Append(got["worker"], x)
  BY DEF Channels, Ends
<1>2. total \in Nat /\ m \in Message /\ m.val = total /\ IsAnswer(m)
  BY SizeAssumption DEF Counts, Msg, Message, IsAnswer
<1> HIDE DEF m
<1>3. /\ L \in Nat /\ Len(sent'["master"]) = L + 1 /\ sent'["master"][L + 1] = m
      /\ \A i \in 1 .. L : sent'["master"][i] = sent["master"][i]
  BY <1>2, CountTypes, AppendMessage DEF m
<1>4. u \in Nat /\ u = L - Len(got["master"]) /\ Len(got["master"]) \in Nat
  BY CountTypes DEF Underway
<1>5. Underway' = u + 1
  <2>1. Underway' = (L + 1) - Len(got["master"])
    BY <1>1, <1>3 DEF Underway
  <2> HIDE DEF L, u
  <2> QED
    BY <2>1, <1>3, <1>4
<1>6. Cardinality(Unhandled') = c - 1 /\ c - 1 \in Nat /\ c \in Nat
  <2>1. Unhandled' = Queries(sent["worker"], Append(got["worker"], x))
    BY <1>1 DEF Unhandled, Queries
  <2>2. /\ Cardinality(Queries(sent["worker"], Append(got["worker"], x))) = c - 1
        /\ Cardinality(Queries(sent["worker"], Append(got["worker"], x))) \in Nat
        /\ c \in Nat
    BY CountTypes, QueryHandled DEF Unhandled
  <2> QED
    BY <2>1, <2>2
<1>7. Len(asked) = u + c /\ asked \in Seq(Nat)
  BY DEF Counts
<1> HIDE DEF L, u, c
<1>8. Len(asked) = Underway' + Cardinality(Unhandled')
  BY <1>4, <1>5, <1>6, <1>7
<1>9. ASSUME NEW j \in 1 .. Underway'
      PROVE  asked[j] <= sent'["master"][Len(got["master"]) + j].val
  <2>1. CASE j = u + 1
    <3>1. Len(got["master"]) + j = L + 1 /\ j \in 1 .. Len(asked)
      <4> DEFINE k == Len(got["master"])
                 z == Len(asked)
      <4>1. k \in Nat /\ u = L - k /\ L \in Nat /\ u \in Nat /\ z = u + c
            /\ c - 1 \in Nat /\ c \in Nat
        BY <1>3, <1>4, <1>6, <1>7
      <4> HIDE DEF k, z
      <4>2. k + j = L + 1 /\ j \in 1 .. z
        BY <2>1, <4>1
      <4> QED
        BY <4>2 DEF k, z
    <3>2. asked[j] <= total
      BY <3>1 DEF Counts
    <3> QED
      BY <3>1, <3>2, <1>2, <1>3
  <2>2. CASE j # u + 1
    <3>1. j \in 1 .. u /\ Len(got["master"]) + j \in 1 .. L
      <4> DEFINE k == Len(got["master"])
      <4>1. k \in Nat /\ u = L - k /\ L \in Nat /\ u \in Nat
        BY <1>3, <1>4
      <4>2. j \in 1 .. u + 1
        BY <1>5
      <4> HIDE DEF k
      <4>3. j \in 1 .. u /\ k + j \in 1 .. L
        BY <2>2, <4>1, <4>2
      <4> QED
        BY <4>3 DEF k
    <3>2. asked[j] <= sent["master"][Len(got["master"]) + j].val
      BY <3>1 DEF Counts, u
    <3> QED
      BY <3>1, <3>2, <1>3
  <2> QED
    BY <2>1, <2>2
<1>10. ASSUME NEW j \in 1 .. Len(sent'["master"])
       PROVE  sent'["master"][j].type = "total" /\ sent'["master"][j].len = LongSize
              /\ sent'["master"][j].val <= total
  <2>1. CASE j = L + 1
    BY <2>1, <1>2, <1>3 DEF IsAnswer
  <2>2. CASE j # L + 1
    <3>1. j \in 1 .. L
      BY <2>2, <1>3
    <3>2. IsAnswer(sent["master"][j])
      BY <3>1 DEF Counts, L
    <3> QED
      BY <3>1, <3>2, <1>3 DEF IsAnswer
  <2> QED
    BY <2>1, <2>2
<1>11. (\A j \in 1 .. Len(sent["master"]) : IsAnswer(sent["master"][j]))'
  BY <1>10 DEF IsAnswer
<1> QED
  BY <1>1, <1>8, <1>9, <1>11 DEF Counts

\* The master got the answer to its oldest query.
LEMMA AnswerCounted ==
  ASSUME Channels, Counts, NEW x \in Seq(Byte), sent' = sent, total' = total,
         Len(got["master"]) < Len(sent["master"]),
         got' = [got EXCEPT !["master"] = Append(got["master"], x)],
         shown' = Current(sent["master"], got["master"]).val,
         fresh' = (fresh /\ shown' >= Head(asked)), asked' = Tail(asked)
  PROVE  Counts'
<1> DEFINE g == Len(got["master"])
           u == Underway
           c == Cardinality(Unhandled)
           m == Current(sent["master"], got["master"])
<1>1. /\ got'["worker"] = got["worker"] /\ got'["master"] = Append(got["master"], x)
      /\ Len(got'["master"]) = g + 1
  <2>1. got'["worker"] = got["worker"] /\ got'["master"] = Append(got["master"], x)
    BY DEF Channels, Ends
  <2> QED
    BY <2>1, CountTypes, AppendMessage
<1>2. /\ g \in Nat /\ u \in Nat /\ c \in Nat /\ u = Len(sent["master"]) - g
      /\ Len(sent["master"]) \in Nat /\ u <= Len(asked) /\ Len(asked) \in Nat
      /\ asked \in Seq(Nat) /\ Len(asked) = u + c
  BY CountTypes DEF Underway, Counts
<1>3. g < Len(sent["master"])
  OBVIOUS
<1>4. Underway' = Len(sent["master"]) - (g + 1) /\ Unhandled' = Unhandled
  BY <1>1 DEF Underway, Unhandled, Queries
<1> HIDE DEF g, u, c, m
<1>5. Underway' = u - 1 /\ u >= 1
  BY <1>2, <1>3, <1>4
<1>6. g + 1 \in 1 .. Len(sent["master"]) /\ m = sent["master"][g + 1]
  BY <1>2, <1>3 DEF m, g, Current
<1>7. IsAnswer(m) /\ m \in Message /\ m.val \in Nat
  <2>1. IsAnswer(m) /\ m \in Message
    BY <1>6, CountTypes DEF Counts
  <2> QED
    BY <2>1 DEF Message
<1>8. /\ asked # <<>> /\ Head(asked) = asked[1] /\ asked' \in Seq(Nat)
      /\ Len(asked') = Len(asked) - 1
      /\ \A i \in 1 .. Len(asked) - 1 : asked'[i] = asked[i + 1]
  <2>1. asked # <<>>
    BY <1>2, <1>5, EmptySeq
  <2>2. Head(asked) = asked[1]
    BY <1>2, <2>1
  <2> QED
    BY <2>1, <2>2, <1>2, HeadTailProperties
<1>9. fresh' = TRUE
  <2>1. 1 \in 1 .. u
    BY <1>2, <1>5
  <2>2. asked[1] <= sent["master"][g + 1].val
    BY <2>1 DEF Counts, u, g
  <2>3. asked[1] \in Nat
    <3>1. 1 \in 1 .. Len(asked)
      BY <1>2, <1>5
    <3> QED
      BY <1>2, <3>1, ElementOfSeq
  <2>4. shown' = m.val
    BY DEF m
  <2>5. shown' >= Head(asked)
    BY <2>2, <2>3, <2>4, <1>6, <1>7, <1>8
  <2>6. fresh = TRUE
    BY DEF Counts
  <2> QED
    BY <2>5, <2>6
<1>10. shown' \in Nat /\ total' \in Nat /\ shown' <= total'
  BY <1>7 DEF IsAnswer, Counts, m
<1>11. Len(asked') = Underway' + Cardinality(Unhandled')
  BY <1>2, <1>4, <1>5, <1>8 DEF c
<1>12. \A j \in 1 .. Len(asked') : asked'[j] <= total'
  <2> TAKE j \in 1 .. Len(asked')
  <2>1. j + 1 \in 1 .. Len(asked) /\ asked'[j] = asked[j + 1]
    BY <1>2, <1>8
  <2> QED
    BY <2>1 DEF Counts
<1>13. \A j \in 1 .. Underway' :
          asked'[j] <= sent'["master"][Len(got'["master"]) + j].val
  <2> TAKE j \in 1 .. Underway'
  <2>1. j + 1 \in 1 .. u /\ asked'[j] = asked[j + 1]
    <3>1. j \in 1 .. u - 1
      BY <1>5
    <3>2. j + 1 \in 1 .. u /\ j \in 1 .. Len(asked) - 1
      BY <3>1, <1>2
    <3> QED
      BY <3>2, <1>8
  <2>2. (g + 1) + j = g + (j + 1)
    BY <1>2, <1>5
  <2>3. asked[j + 1] <= sent["master"][g + (j + 1)].val
    BY <2>1 DEF Counts, u, g
  <2>4. Len(got'["master"]) + j = g + (j + 1)
    BY <2>2, <1>1 DEF g
  <2> QED
    BY <2>1, <2>3, <2>4
<1>14. (\A j \in 1 .. Len(sent["master"]) : IsAnswer(sent["master"][j]))'
  BY DEF Counts, IsAnswer
<1> QED
  BY <1>8, <1>9, <1>10, <1>11, <1>12, <1>13, <1>14 DEF Counts

-----------------------------------------------------------------------------
(* Every step keeps the invariant                                          *)

LEMMA SentChannels ==
  ASSUME Channels, NEW m \in Message, SendMessage(m), got' = got,
         end' = end \/ end' = [end EXCEPT !["master"].exiting = TRUE]
  PROVE  Channels' /\ sent'["worker"] = Append(sent["worker"], m)
         /\ sent'["master"] = sent["master"]
<1>1. /\ FieldTypes /\ ChannelOf("master") /\ "master" \in Ends /\ "worker" \in Ends
      /\ Peer("master") = "worker"
  BY ChannelsAre DEF Ends, Peer
<1>2. /\ Channel(end'["master"], wire["master"], sent["master"], got["master"], BothOpen)
      /\ end' \in [Ends -> EndState] /\ end'["worker"] = end["worker"]
      /\ end'["master"].open = end["master"].open
  <2>1. CASE end' = end
    BY <2>1, <1>1 DEF ChannelOf, FieldTypes
  <2>2. CASE end' = [end EXCEPT !["master"].exiting = TRUE]
    <3> DEFINE t == [end["master"] EXCEPT !.exiting = TRUE]
    <3>1. /\ Channel(t, wire["master"], sent["master"], got["master"], BothOpen)
          /\ t.open = end["master"].open
      BY <1>1, SetExiting DEF ChannelOf
    <3>2. end' = [end EXCEPT !["master"] = t]
      BY <2>2
    <3>3. t \in EndState
      BY <3>1 DEF Channel, Typed
    <3> HIDE DEF t
    <3> QED
      BY <1>1, <3>1, <3>2, <3>3 DEF FieldTypes
  <2> QED
    BY <2>1, <2>2
<1>3. \A e \in Ends : end'[e].open = end[e].open
  BY <1>2 DEF Ends
<1>4. /\ wire' \in [Ends -> Seq(Byte)] /\ sent' \in [Ends -> Seq(Message)]
      /\ sent'["worker"] = Append(sent["worker"], m)
      /\ sent'["master"] = sent["master"] /\ wire'["master"] = wire["master"]
      /\ BothOpen = TRUE /\ BothOpen' = TRUE
      /\ Channel(end["worker"], wire'["worker"], sent'["worker"], got["worker"], TRUE)
  BY <1>3, SendStep
<1>5. FieldTypes'
  BY <1>1, <1>2, <1>4 DEF FieldTypes
<1>6. ChannelOf("worker")' /\ ChannelOf("master")'
  BY <1>2, <1>4 DEF ChannelOf
<1> QED
  BY <1>1, <1>4, <1>5, <1>6, ChannelsNext

LEMMA InitInv == Init => IInv
<1> SUFFICES ASSUME Init PROVE IInv
  OBVIOUS
<1> DEFINE s == [open |-> TRUE, exiting |-> FALSE, msgExist |-> FALSE, header |-> <<>>,
                 entries |-> <<[want |-> HeaderSize, buf |-> <<>>]>>]
           r == [want |-> HeaderSize, buf |-> <<>>]
<1>1. <<>> \in Seq(Byte) /\ <<>> \in Seq(Message) /\ <<>> \in Seq(Seq(Byte))
      /\ <<>> \in Seq(Nat) /\ <<>> \in Seq(Entry) /\ Len(<<>>) = 0
  BY EmptySeq
<1>2. r \in Entry /\ <<r>> \in Seq(Entry) /\ Len(<<r>>) = 1 /\ <<r>>[1] = r
  <2>1. r \in Entry
    BY <1>1, SizeAssumption DEF Entry
  <2> QED
    BY <2>1, OneEntry
<1>3. Started = s
  <2>1. Append(<<>>, r) = <<r>>
    OBVIOUS
  <2> QED
    BY <2>1 DEF Started, PrepareReadMessage, ReadEntry
<1>4. /\ s \in EndState /\ s.open = TRUE /\ s.msgExist = FALSE
      /\ Len(s.entries) = 1 /\ s.entries[1] = r
  BY <1>1, <1>2 DEF EndState
<1> HIDE DEF s
<1>5. Holding(s, <<>>, <<>>)
  BY <1>1, <1>4, SizeAssumption DEF Holding, PartOf
<1> DEFINE off == [i \in 1 .. 0 + 1 |-> 0]
<1>6. Offsets(<<>>, off)
  BY <1>1 DEF Offsets
<1>7. Consumed(s, <<>>, off) = 0
  BY <1>1, <1>4 DEF Consumed, Base
<1>8. Stream(<<>>, <<>>, off, 0, TRUE)
  BY <1>1 DEF Stream
<1>9. Reading(s, <<>>, <<>>, <<>>, TRUE)
  BY <1>5, <1>6, <1>7, <1>8 DEF Reading
<1>10. Channel(s, <<>>, <<>>, <<>>, TRUE)
  <2>1. Typed(s, <<>>, <<>>, <<>>)
    BY <1>1, <1>4 DEF Typed
  <2>2. Whole(<<>>, <<>>)
    BY <1>1 DEF Whole
  <2> QED
    BY <1>4, <1>9, <2>1, <2>2 DEF Channel
<1>11. /\ end = [e \in Ends |-> s] /\ wire = [e \in Ends |-> <<>>]
       /\ sent = [e \in Ends |-> <<>>] /\ got = [e \in Ends |-> <<>>]
       /\ total = 0 /\ shown = 0 /\ asked = <<>> /\ fresh = TRUE
  BY <1>3 DEF Init
<1>12. FieldTypes
  BY <1>1, <1>4, <1>11 DEF FieldTypes
<1>13. BothOpen = TRUE
  BY <1>4, <1>11 DEF BothOpen, Ends
<1>14. ChannelOf("master") /\ ChannelOf("worker")
  BY <1>10, <1>11, <1>13 DEF ChannelOf, Ends
<1>15. Channels
  BY <1>12, <1>14, ChannelsAre
<1>16. sent["worker"] = <<>> /\ sent["master"] = <<>> /\ got["master"] = <<>>
  BY <1>11 DEF Ends
<1>17. Cardinality(Unhandled) = 0
  <2>1. Unhandled = {}
    BY <1>1, <1>16 DEF Unhandled, Queries
  <2> QED
    BY <2>1, FS_EmptySet
<1>18. Underway = 0
  BY <1>1, <1>16 DEF Underway
<1>19. Counts
  BY <1>1, <1>11, <1>16, <1>17, <1>18 DEF Counts
<1> QED
  BY <1>15, <1>19 DEF IInv

LEMMA AskInv == IInv /\ QueryTotalRequestCount => IInv'
<1> SUFFICES ASSUME IInv, QueryTotalRequestCount PROVE IInv'
  OBVIOUS
<1> DEFINE m == Msg("total", 0, 0)
<1>1. m \in Message
  BY DEF Msg, Message
<1>2. /\ SendMessage(m) /\ got' = got /\ end' = end /\ asked' = Append(asked, total)
      /\ UNCHANGED <<total, shown, fresh>>
  BY DEF QueryTotalRequestCount
<1> HIDE DEF m
<1>3. /\ Channels' /\ sent'["worker"] = Append(sent["worker"], m)
      /\ sent'["master"] = sent["master"]
  BY <1>1, <1>2, SentChannels DEF IInv
<1>4. Counts'
  BY <1>2, <1>3, QuerySent DEF IInv, m
<1> QED
  BY <1>3, <1>4 DEF IInv

\* The master sent a message that asks for nothing.
LEMMA OtherSent ==
  ASSUME IInv, NEW m \in Message, m.type # "total", SendMessage(m), got' = got,
         UNCHANGED <<total, shown, asked, fresh>>,
         end' = end \/ end' = [end EXCEPT !["master"].exiting = TRUE]
  PROVE  IInv'
<1>1. Channels /\ Counts
  BY DEF IInv
<1>2. /\ Channels' /\ sent'["worker"] = Append(sent["worker"], m)
      /\ sent'["master"] = sent["master"]
  BY <1>1, SentChannels
<1>3. \E x \in Message : x.type # "total" /\ sent'["worker"] = Append(sent["worker"], x)
  BY <1>2
<1>4. Counts'
  BY <1>1, <1>2, <1>3, CountsKept
<1> QED
  BY <1>2, <1>4 DEF IInv

LEMMA SendInv ==
  ASSUME IInv, (\E n \in UserSizes : SendUserMessage(n)) \/ NotifyClose
  PROVE  IInv'
<1>1. ASSUME NEW n \in UserSizes, SendUserMessage(n) PROVE IInv'
  <2> DEFINE m == Msg("user", n, 0)
  <2>1. m \in Message /\ m.type # "total"
    BY SizeAssumption DEF Msg, Message
  <2>2. SendMessage(m) /\ got' = got /\ end' = end /\ UNCHANGED <<total, shown, asked, fresh>>
    BY <1>1 DEF SendUserMessage
  <2> HIDE DEF m
  <2> QED
    BY <2>1, <2>2, OtherSent
<1>2. CASE NotifyClose
  <2> DEFINE m == Msg("exit", 0, 0)
  <2>1. m \in Message /\ m.type # "total"
    BY DEF Msg, Message
  <2>2. /\ SendMessage(m) /\ got' = got /\ UNCHANGED <<total, shown, asked, fresh>>
        /\ end' = [end EXCEPT !["master"].exiting = TRUE]
    BY <1>2 DEF NotifyClose
  <2> HIDE DEF m
  <2> QED
    BY <2>1, <2>2, OtherSent
<1> QED
  BY <1>1, <1>2

LEMMA ReceiveQueryInv ==
  ASSUME IInv, NEW n \in 1 .. MaxBytes, ReceiveQuery(n)
  PROVE  IInv'
<1>1. Complete("worker", n, "total") /\ UNCHANGED <<total, shown, asked, fresh>>
  BY DEF ReceiveQuery
<1>2. /\ Channels' /\ sent'["worker"] = sent["worker"]
      /\ sent'["master"] = Append(sent["master"], Msg("total", LongSize, total))
  BY ReceiveQueryChannels DEF IInv, Counts
<1>3. /\ Len(got["worker"]) < Len(sent["worker"])
      /\ Current(sent["worker"], got["worker"]).type = "total"
      /\ Received("worker", n) \in Seq(Byte)
      /\ got' = [got EXCEPT !["worker"] = Append(got["worker"], Received("worker", n))]
  BY <1>1, CompleteStep DEF IInv, Ends
<1>4. Counts'
  BY <1>1, <1>2, <1>3, QueryAnswered DEF IInv
<1> QED
  BY <1>2, <1>4 DEF IInv

LEMMA ReceiveOtherInv ==
  ASSUME IInv, NEW n \in 1 .. MaxBytes, ReceiveUser(n) \/ ReceiveExit(n)
  PROVE  IInv'
<1>1. PICK type : Complete("worker", n, type) /\ type # "total"
  BY DEF ReceiveUser, ReceiveExit
<1>2. UNCHANGED <<sent, total, shown, asked, fresh>>
  BY DEF ReceiveUser, ReceiveExit
<1>3. Channels'
  <2>1. CASE ReceiveUser(n)
    BY <2>1, HandedOver DEF ReceiveUser, IInv, Ends
  <2>2. CASE ReceiveExit(n)
    BY <2>2, ReceiveExitChannels DEF IInv
  <2> QED
    BY <2>1, <2>2
<1>4. /\ Len(got["worker"]) < Len(sent["worker"])
      /\ Current(sent["worker"], got["worker"]).type = type
      /\ Received("worker", n) \in Seq(Byte)
      /\ got' = [got EXCEPT !["worker"] = Append(got["worker"], Received("worker", n))]
  BY <1>1, CompleteStep DEF IInv, Ends
<1>5. Counts'
  BY <1>1, <1>2, <1>4, OtherHandled DEF IInv
<1> QED
  BY <1>3, <1>5 DEF IInv

LEMMA ReceiveAnswerInv ==
  ASSUME IInv, NEW n \in 1 .. MaxBytes, ReceiveAnswer(n)
  PROVE  IInv'
<1> DEFINE m == Current(sent["master"], got["master"])
<1>1. /\ Complete("master", n, "total") /\ sent' = sent /\ total' = total
      /\ end' = [end EXCEPT !["master"] = Ready(end["master"])] /\ wire' = Taken("master", n)
  BY DEF ReceiveAnswer
<1>2. Channels'
  BY <1>1, HandedOver DEF IInv, Ends
<1>3. /\ Len(got["master"]) < Len(sent["master"]) /\ Len(got["master"]) \in Nat
      /\ Len(sent["master"]) \in Nat /\ Received("master", n) \in Seq(Byte)
      /\ Received("master", n)[1].msg = m /\ Buffer("master", n)[1].msg = m
      /\ got' = [got EXCEPT !["master"] = Append(got["master"], Received("master", n))]
  BY <1>1, CompleteStep DEF IInv, Ends
<1>4. Length(Received("master", n)) = LongSize
  <2>1. Len(got["master"]) + 1 \in 1 .. Len(sent["master"])
    BY <1>3
  <2>2. IsAnswer(m)
    BY <2>1 DEF IInv, Counts, Current
  <2> QED
    BY <2>2, <1>3 DEF IsAnswer, Length
<1>5. /\ shown' = m.val /\ fresh' = (fresh /\ shown' >= Head(asked))
      /\ asked' = Tail(asked)
  BY <1>3, <1>4 DEF ReceiveAnswer
<1>6. Counts'
  BY <1>1, <1>3, <1>5, AnswerCounted DEF IInv
<1> QED
  BY <1>2, <1>6 DEF IInv

LEMMA NextInv == IInv /\ [Next]_vars => IInv'
<1> SUFFICES ASSUME IInv, [Next]_vars PROVE IInv'
  OBVIOUS
<1>1. CASE QueryTotalRequestCount
  BY <1>1, AskInv
<1>2. CASE (\E n \in UserSizes : SendUserMessage(n)) \/ NotifyClose
  BY <1>2, SendInv
<1>3. CASE CountRequest
  <2>1. Channels'
    BY <1>3 DEF CountRequest, IInv, Channels
  <2>2. Counts'
    BY <1>3, RequestCounted DEF CountRequest, IInv
  <2> QED
    BY <2>1, <2>2 DEF IInv
<1>4. ASSUME NEW e \in Ends, Receive(e) PROVE IInv'
  <2>1. PICK n \in 1 .. MaxBytes :
          \/ ReceivePart(e, n) \/ ReceiveHeader(e, n)
          \/ e = "worker" /\ (ReceiveQuery(n) \/ ReceiveUser(n) \/ ReceiveExit(n))
          \/ e = "master" /\ ReceiveAnswer(n)
    BY <1>4 DEF Receive
  <2>2. CASE ReceivePart(e, n) \/ ReceiveHeader(e, n)
    <3>1. Channels'
      BY <2>2, ReceivePartChannels, ReceiveHeaderChannels DEF IInv
    <3>2. UNCHANGED <<sent, got, total, shown, asked, fresh>>
      BY <2>2 DEF ReceivePart, ReceiveHeader
    <3>3. Counts'
      BY <3>2, CountsKept DEF IInv
    <3> QED
      BY <3>1, <3>3 DEF IInv
  <2>3. CASE ReceiveQuery(n)
    BY <2>3, ReceiveQueryInv
  <2>4. CASE ReceiveUser(n) \/ ReceiveExit(n)
    BY <2>4, ReceiveOtherInv
  <2>5. CASE ReceiveAnswer(n)
    BY <2>5, ReceiveAnswerInv
  <2> QED
    BY <2>1, <2>2, <2>3, <2>4, <2>5
<1>5. ASSUME NEW e \in Ends,
             \/ ReceiveError(e) \/ ReceiveEnd(e) \/ SendError(e)
             \/ \E k \in 0 .. Len(wire[Peer(e)]) : Dies(e, k)
      PROVE  IInv'
  <2>1. UNCHANGED <<sent, got, total, shown, asked, fresh>>
    BY <1>5 DEF ReceiveError, ReceiveEnd, SendError, Dies
  <2>2. Len(wire[Peer(e)]) \in Nat
    BY PeerFacts DEF IInv, Channels
  <2>3. CASE ReceiveError(e)
    <3>1. Channels'
      BY <2>3, ReceiveErrorChannels DEF IInv
    <3>2. Counts'
      BY <2>1, CountsKept DEF IInv
    <3> QED
      BY <3>1, <3>2 DEF IInv
  <2>4. CASE ~ReceiveError(e)
    <3>1. PICK k \in 0 .. Len(wire[Peer(e)]) : Gone(e, k)
      BY <1>5, <2>2, <2>4 DEF ReceiveEnd, SendError, Dies
    <3>2. Channels'
      BY <2>1, <3>1, GoneChannels DEF IInv
    <3>3. Counts'
      BY <2>1, CountsKept DEF IInv
    <3> QED
      BY <3>2, <3>3 DEF IInv
  <2> QED
    BY <2>3, <2>4
<1>6. CASE UNCHANGED vars
  <2>1. UNCHANGED <<end, wire, sent, got, total, shown, asked, fresh>>
    BY <1>6 DEF vars
  <2>2. Channels'
    BY <2>1 DEF IInv, Channels
  <2>3. Counts'
    BY <2>1, CountsKept DEF IInv
  <2> QED
    BY <2>2, <2>3 DEF IInv
<1> QED
  BY <1>1, <1>2, <1>3, <1>4, <1>5, <1>6 DEF Next

\* Every reachable state of the two ends and their channel satisfies the
\* inductive invariant.
THEOREM MessagesInvariance == Spec => []IInv
<1>1. Init => IInv
  BY InitInv
<1>2. IInv /\ [Next]_vars => IInv'
  BY NextInv
<1> QED
  BY <1>1, <1>2, PTL DEF Spec

\* What the invariant says of one end.
LEMMA EndFacts ==
  ASSUME IInv, NEW e \in Ends
  PROVE  /\ FieldTypes /\ Whole(sent[e], got[e])
         /\ Typed(end[e], wire[e], sent[e], got[e])
         /\ end[e].open => Holding(end[e], sent[e], got[e])
         /\ ~end[e].open => end[e].entries = <<>>
<1>1. FieldTypes
  BY DEF IInv, Channels, FieldTypes
<1>2. Channel(end[e], wire[e], sent[e], got[e], end[e].open /\ end[Peer(e)].open)
  BY DEF IInv, Channels
<1> QED
  BY <1>1, <1>2 DEF Channel, Reading

\* Process and SocketNIOReader keep the types of their state, and no read
\* request stays in the queue once its buffer is full.
THEOREM MessagesTypeCorrect == Spec => []TypeOK
<1>1. ASSUME IInv PROVE TypeOK
  <2>1. ASSUME NEW e \in Ends, NEW i \in DOMAIN end[e].entries
        PROVE  Len(end[e].entries[i].buf) < end[e].entries[i].want
    <3>1. CASE end[e].open
      <4>1. Holding(end[e], sent[e], got[e]) /\ end[e].entries \in Seq(Entry)
        BY <3>1, <1>1, EndFacts DEF Typed, EndState
      <4>2. DOMAIN end[e].entries = 1 .. 1
        BY <4>1 DEF Holding
      <4>3. i = 1
        BY <4>2
      <4> QED
        BY <4>1, <4>3 DEF Holding
    <3>2. CASE ~end[e].open
      <4>1. DOMAIN end[e].entries = {}
        BY <3>2, <1>1, EndFacts
      <4> QED
        BY <4>1
    <3> QED
      BY <3>1, <3>2
  <2>2. /\ end \in [Ends -> EndState] /\ wire \in [Ends -> Seq(Byte)]
        /\ sent \in [Ends -> Seq(Message)] /\ got \in [Ends -> Seq(Seq(Byte))]
    BY <1>1 DEF IInv, Channels
  <2>3. total \in Nat /\ shown \in Nat /\ asked \in Seq(Nat) /\ fresh \in BOOLEAN
    BY <1>1 DEF IInv, Counts
  <2> QED
    BY <2>1, <2>2, <2>3 DEF TypeOK
<1> QED
  BY <1>1, MessagesInvariance, PTL

\* However the socket cuts them, Process hands over the messages its peer sent,
\* in their order and with all of their bytes.
THEOREM WholeMessages == Spec => []MessagesArriveWhole
<1>1. ASSUME IInv PROVE MessagesArriveWhole
  <2> SUFFICES ASSUME NEW e \in Ends
               PROVE  /\ Len(got[e]) <= Len(sent[e])
                      /\ \A i \in DOMAIN got[e] : got[e][i] = Bytes(sent[e][i])
    BY DEF MessagesArriveWhole
  <2>1. Whole(sent[e], got[e]) /\ got[e] \in Seq(Seq(Byte))
    BY <1>1, EndFacts DEF Typed
  <2>2. DOMAIN got[e] = 1 .. Len(got[e])
    BY <2>1
  <2> QED
    BY <2>1, <2>2 DEF Whole
<1> QED
  BY <1>1, MessagesInvariance, PTL

\* An open end of Process always has exactly one read request, for a header or
\* for the data that the header it has announces.
THEOREM OneRead == Spec => []OneReadOutstanding
<1>1. ASSUME IInv PROVE OneReadOutstanding
  <2> SUFFICES ASSUME NEW e \in Ends, end[e].open
               PROVE  /\ Len(end[e].entries) = 1
                      /\ Front1(e).want = IF end[e].msgExist
                                          THEN Length(end[e].header) ELSE HeaderSize
    BY DEF OneReadOutstanding
  <2>1. Holding(end[e], sent[e], got[e]) /\ Typed(end[e], wire[e], sent[e], got[e])
    BY <1>1, EndFacts
  <2>2. Front1(e) = end[e].entries[1]
    BY <2>1, FrontEntry DEF Front1
  <2> QED
    BY <2>1, <2>2 DEF Holding
<1> QED
  BY <1>1, MessagesInvariance, PTL

\* The number that HttpProcess shows in the master is one that the worker had
\* after the query was sent, whatever other messages went between.
THEOREM FreshAnswers == Spec => []AnswersAreFresh
<1>1. IInv => AnswersAreFresh
  BY DEF IInv, Counts, AnswersAreFresh
<1> QED
  BY <1>1, MessagesInvariance, PTL
===============================================================================
