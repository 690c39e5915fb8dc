-------------------------- MODULE RWIOPump_proofs --------------------------
(***************************************************************************)
(* Proofs about RWIOPump for any source, buffer, speeds, offsets and       *)
(* lengths, and any number of resets: its safety invariants.               *)
(*                                                                         *)
(* The inductive invariant follows the bytes: what the client took, what   *)
(* is queued and what will be read next are intervals of the source that   *)
(* join without a gap.                                                     *)
(***************************************************************************)
EXTENDS RWIOPump, SequenceTheorems, TLAPS

\* The reader has one request at most, for no more than the buffer holds.
OneRequest == Len(reading) <= 1 /\ (reading # <<>> => Head(reading).want <= BuffSize)

\* A closed pump has nothing going on, a new one at most its timer after a reset.
AtRest ==
  /\ status # "RUNNING" => reading = <<>> /\ queue = <<>> /\ ~wtimer
  /\ status = "CLOSED" => ~timer
  /\ status = "NEW" /\ resets = 0 => ~timer /\ sended = 0

EndedIsClosed == ended # "no" => status = "CLOSED"

\* The byte before the next one to be read.
Mark == IF reading # <<>> THEN ReadPos ELSE pos

\* The queued blocks follow each other up to the next byte to be read.
Contiguous ==
  \A i \in 1 .. Len(queue) :
     /\ queue[i].from <= queue[i].to
     /\ IF i = Len(queue) THEN queue[i].to = Mark
        ELSE queue[i + 1].from = queue[i].to + 1

\* What is queued, or else what is read next, follows what the client took.
FrontIsNext ==
  status = "RUNNING" => IF queue = <<>> THEN sent = Mark
                        ELSE queue[1].from = sent + 1

\* The writer of a running pump is started, its timer armed while it has output.
WriterGoes == status = "RUNNING" => running /\ (queue # <<>> => wtimer)

\* With a planned length there is one block at a time, the next one fits into the
\* plan, and sendedBytes are the bytes the client took.
Planned ==
  length > 0 => /\ ~timer /\ Len(reading) + Len(queue) <= 1
                /\ status # "CLOSED" => sended + each <= length
                /\ status # "CLOSED" /\ resets = 0 => sended = sent - base

\* A pump without an offset reads on from where its source stands: nothing behind
\* that was taken or queued, and before a start nothing in front of it is owed but
\* what reset() dropped.
Stands ==
  offset = -1 /\ status # "CLOSED" =>
     /\ reading # <<>> => Head(reading).at = -1
     /\ sent <= pos /\ \A i \in 1 .. Len(queue) : queue[i].to <= pos
     /\ status = "NEW" => pos = sent \/ dropped

IInv == /\ TypeOK /\ OneRequest /\ AtRest /\ EndedIsClosed
        /\ Contiguous /\ FrontIsNext /\ WriterGoes /\ Planned
        /\ Stands /\ OutIsSource /\ EndMeansAllSent /\ OneBlockInFlight
        /\ RunningIsCalledBack

-----------------------------------------------------------------------------
(* Lemmas                                                                  *)

\* A read is never for nothing, nor for more than the buffer holds.
LEMMA ReadsFitTheBuffer ==
  ASSUME NEW speed \in Nat, NEW size \in Nat \ {0}
  PROVE  CalculateSpeed(speed, size) \in 1 .. size
<1>1. size \div 3 \in Nat
  BY SMT
<1> QED
  BY <1>1 DEF CalculateSpeed, Least

LEMMA AppendItem ==
  ASSUME NEW S, NEW s \in Seq(S), NEW e \in S
  PROVE  /\ Append(s, e) \in Seq(S) /\ Append(s, e) # <<>>
         /\ Len(s) \in Nat /\ Len(Append(s, e)) = Len(s) + 1
         /\ \A i \in 1 .. Len(s) : Append(s, e)[i] = s[i]
         /\ Append(s, e)[Len(s) + 1] = e
  BY SMT

LEMMA TailItems ==
  ASSUME NEW S, NEW s \in Seq(S), s # <<>>
  PROVE  /\ Len(s) \in Nat \ {0} /\ Head(s) = s[1] /\ s[1] \in S
         /\ Tail(s) \in Seq(S) /\ Len(Tail(s)) = Len(s) - 1
         /\ \A i \in 1 .. Len(s) - 1 : Tail(s)[i] = s[i + 1]
         /\ Tail(s) = <<>> <=> Len(s) = 1
<1>1. Len(s) \in Nat \ {0}
  BY EmptySeq
<1>2. Head(s) = s[1] /\ s[1] \in S
  BY <1>1, ElementOfSeq
<1>3. /\ Tail(s) \in Seq(S) /\ Len(Tail(s)) = Len(s) - 1
      /\ \A i \in 1 .. Len(s) - 1 : Tail(s)[i] = s[i + 1]
  BY HeadTailProperties
<1>4. Tail(s) = <<>> <=> Len(s) = 1
  BY <1>1, <1>3, EmptySeq
<1> QED
  BY <1>1, <1>2, <1>3, <1>4

LEMMA EmptyItems ==
  ASSUME NEW S
  PROVE  <<>> \in Seq(S) /\ Len(<<>>) = 0
  BY EmptySeq

\* A request in front of the reader, and where it reads.
LEMMA RequestInFront ==
  ASSUME TypeOK, OneRequest, reading # <<>>
  PROVE  /\ Len(reading) = 1 /\ Tail(reading) = <<>>
         /\ Head(reading) \in Request
         /\ Head(reading).want \in 1 .. BuffSize
         /\ ReadPos \in Nat /\ Mark = ReadPos
<1>1. /\ Len(reading) \in Nat \ {0} /\ Head(reading) \in Request
      /\ Tail(reading) = <<>> <=> Len(reading) = 1
  BY TailItems DEF TypeOK
<1> QED
  BY <1>1, SizeAssumption DEF OneRequest, Request, ReadPos, TypeOK, Mark

-----------------------------------------------------------------------------
(* What the operations do to the invariant                                 *)

\* The pump is closed; if the servlet was told that this is the end, it is.
LEMMA ClosedInv ==
  ASSUME IInv, Closed,
         UNCHANGED <<offset, length, each, running, resets, base, dropped>>,
         ordered' = TRUE, sended' \in Nat, read' \in -1 .. BuffSize,
         pos' \in Nat, sent' \in Nat, sent' >= base,
         ended' \in {"no", "end", "error"},
         ended' = "end" /\ resets = 0 =>
            sent' >= FileSize \/ (length > 0 /\ sent' = base + length)
  PROVE  IInv'
<1>1. TypeOK'
  BY EmptyItems DEF IInv, TypeOK, Closed
<1>2. OneRequest' /\ AtRest' /\ EndedIsClosed' /\ Contiguous'
  BY EmptyItems DEF Closed, OneRequest, AtRest, EndedIsClosed, Contiguous
<1>3. FrontIsNext' /\ WriterGoes' /\ RunningIsCalledBack'
  BY DEF Closed, FrontIsNext, WriterGoes, RunningIsCalledBack
<1>4. Planned' /\ OneBlockInFlight' /\ Stands'
  BY EmptyItems DEF Closed, Planned, OneBlockInFlight, Stands
<1>5. OutIsSource' /\ EndMeansAllSent'
  BY DEF OutIsSource, EndMeansAllSent
<1> QED
  BY <1>1, <1>2, <1>3, <1>4, <1>5 DEF IInv

LEMMA StartInv == IInv /\ Start => IInv'
<1> SUFFICES ASSUME IInv, Start PROVE IInv'
  OBVIOUS
<1> DEFINE r == [want |-> each, at |-> offset]
<1>1. /\ status = "NEW" /\ status' = "RUNNING"
      /\ reading = <<>> /\ queue = <<>> /\ queue' = <<>>
      /\ reading' = <<r>> /\ running' = TRUE /\ wtimer' = FALSE
      /\ UNCHANGED <<offset, length, each, timer, sended, read, pos,
                     resets, ended>>
      /\ base' = IF offset >= 0 THEN offset ELSE pos
      /\ sent' = base' /\ dropped' = FALSE
      /\ ordered' = (ordered /\ GoesOn)
  BY DEF Start, IInv, AtRest, TypeOK
<1>2. /\ r \in Request /\ r.want = each /\ r.at = offset
      /\ each \in 1 .. BuffSize /\ offset \in Nat \cup {-1} /\ pos \in Nat
  BY CallAssumption DEF IInv, TypeOK, Request
<1> HIDE DEF r
<1>3. /\ reading' \in Seq(Request) /\ reading' # <<>>
      /\ Len(reading') = 1 /\ Head(reading') = r
  BY <1>1, <1>2
<1>11. ordered' = TRUE
  <2>1. sent \in Nat /\ ordered = TRUE
    BY DEF IInv, TypeOK, OutIsSource
  <2>2. offset = -1 => sent <= pos /\ (pos = sent \/ dropped)
    BY <1>1 DEF IInv, Stands
  <2>3. GoesOn
    BY <1>2, <2>1, <2>2 DEF GoesOn
  <2> QED
    BY <1>1, <2>1, <2>3, Zenon
<1>12. Stands'
  BY <1>1, <1>2, <1>3, EmptyItems DEF Stands
<1>4. TypeOK'
  <2>1. base' \in Nat /\ sent' \in Nat
    BY <1>1, <1>2
  <2>3. dropped' \in BOOLEAN /\ ordered' \in BOOLEAN
    BY <1>1, <1>11
  <2>2. queue' \in Seq(Block)
    BY <1>1, EmptyItems
  <2> QED
    BY <1>1, <1>3, <2>1, <2>2, <2>3 DEF IInv, TypeOK
<1>5. OneRequest'
  BY <1>2, <1>3, SizeAssumption DEF OneRequest
<1>6. AtRest' /\ EndedIsClosed' /\ WriterGoes'
  BY <1>1 DEF IInv, AtRest, EndedIsClosed, WriterGoes
<1>7. Contiguous'
  BY <1>1, EmptyItems DEF Contiguous
<1>8. FrontIsNext'
  BY <1>1, <1>2, <1>3 DEF FrontIsNext, Mark, ReadPos
<1>9. Planned' /\ OneBlockInFlight'
  <2>1. Len(queue') = 0 /\ Len(reading') = 1 /\ Head(reading').want = each
    BY <1>1, <1>2, <1>3, EmptyItems
  <2>2. Planned'
    BY <1>1, <1>2, <2>1 DEF IInv, TypeOK, AtRest, Planned
  <2>3. OneBlockInFlight'
    BY <1>1, <1>2, <2>1 DEF IInv, TypeOK, AtRest, Planned, OneBlockInFlight
  <2> QED
    BY <2>2, <2>3
<1>10. OutIsSource' /\ EndMeansAllSent' /\ RunningIsCalledBack'
  BY <1>1, <1>2, <1>3, <1>11
     DEF IInv, OutIsSource, EndMeansAllSent, EndedIsClosed, RunningIsCalledBack
<1> QED
  BY <1>4, <1>5, <1>6, <1>7, <1>8, <1>9, <1>10, <1>12 DEF IInv

LEMMA ResetInv == IInv /\ Reset => IInv'
<1> SUFFICES ASSUME IInv, Reset PROVE IInv'
  OBVIOUS
<1>1. TypeOK' /\ resets' # 0
  <2>1. resets' \in 0 .. MaxResets /\ resets' # 0
    BY CallAssumption DEF Reset, IInv, TypeOK
  <2>2. reading' \in Seq(Request) /\ queue' \in Seq(Block)
    BY EmptyItems DEF Reset
  <2>3. UNCHANGED <<offset, length, each, timer, sended, read, pos, running,
                    base, sent, ordered, ended>> /\ status' = "NEW" /\ wtimer' = FALSE
    BY DEF Reset
  <2>5. dropped' \in BOOLEAN
    BY DEF Reset, IInv, TypeOK
  <2>4. TypeOK'
    BY <2>1, <2>2, <2>3, <2>5 DEF IInv, TypeOK
  <2> QED
    BY <2>1, <2>4
<1>2. OneRequest' /\ AtRest' /\ EndedIsClosed' /\ Contiguous'
  BY <1>1, EmptyItems
     DEF Reset, IInv, TypeOK, OneRequest, AtRest, EndedIsClosed, Contiguous
<1>3. FrontIsNext' /\ WriterGoes' /\ RunningIsCalledBack'
  BY DEF Reset, FrontIsNext, WriterGoes, RunningIsCalledBack
<1>4. Planned' /\ OneBlockInFlight'
  BY <1>1, EmptyItems DEF Reset, IInv, Planned, OneBlockInFlight
<1>5. OutIsSource' /\ EndMeansAllSent'
  BY <1>1 DEF Reset, IInv, OutIsSource, EndMeansAllSent
<1>6. Stands'
  <2> SUFFICES ASSUME offset = -1 PROVE Stands'
    BY DEF Reset, Stands
  <2>1. /\ status # "CLOSED" /\ status' = "NEW" /\ reading' = <<>> /\ queue' = <<>>
        /\ UNCHANGED <<offset, pos, sent>>
    BY DEF Reset
  <2>2. sent <= pos /\ (reading # <<>> => Head(reading).at = -1)
    BY <2>1 DEF IInv, Stands
  <2>3. status = "NEW" => pos = sent \/ dropped
    BY <2>1 DEF IInv, Stands
  <2>4. status = "RUNNING" => (queue = <<>> => sent = pos)
    BY <2>2 DEF IInv, FrontIsNext, Mark, ReadPos
  <2>5. status = "NEW" \/ status = "RUNNING"
    BY <2>1 DEF IInv, TypeOK
  <2>6. pos = sent \/ dropped \/ queue # <<>>
    BY <2>3, <2>4, <2>5, Zenon
  <2>7. dropped' = (dropped \/ queue # <<>>)
    BY DEF Reset
  <2>8. pos = sent \/ dropped'
    BY <2>6, <2>7, Zenon
  <2> QED
    BY <2>1, <2>2, <2>8, EmptyItems DEF Stands
<1> QED
  BY <1>1, <1>2, <1>3, <1>4, <1>5, <1>6 DEF IInv

LEMMA ReadSomeInv == IInv /\ ReadSome => IInv'
<1> SUFFICES ASSUME IInv, ReadSome PROVE IInv'
  OBVIOUS
<1> DEFINE n == Len(queue)
<1>0. /\ Len(reading) = 1 /\ Tail(reading) = <<>> /\ Head(reading).want \in 1 .. BuffSize
      /\ ReadPos \in Nat /\ Mark = ReadPos /\ status = "RUNNING"
  BY RequestInFront DEF ReadSome, IInv, AtRest
<1>1. PICK k \in 1 .. Head(reading).want :
         /\ ReadPos + k <= FileSize
         /\ pos' = ReadPos + k /\ read' = k
         /\ queue' = Append(queue, [from |-> ReadPos + 1, to |-> ReadPos + k])
  BY DEF ReadSome
<1>2. /\ reading # <<>> /\ reading' = <<>> /\ wtimer' = TRUE /\ running
      /\ UNCHANGED <<status, offset, length, each, sended, timer, running,
                     base, sent, ordered, dropped, resets, ended>>
  BY <1>0 DEF ReadSome, IInv, TypeOK, WriterGoes, pump, stream
<1> DEFINE b == [from |-> ReadPos + 1, to |-> ReadPos + k]
<1>3. b \in Block /\ b.from = ReadPos + 1 /\ b.to = ReadPos + k
  BY <1>0, <1>1 DEF Block
<1>4. queue' = Append(queue, b)
  BY <1>1
<1> HIDE DEF b
<1>5. /\ queue' \in Seq(Block) /\ queue' # <<>> /\ n \in Nat
      /\ Len(queue') = n + 1 /\ queue'[n + 1] = b
      /\ \A i \in 1 .. n : queue'[i] = queue[i]
  BY <1>3, <1>4, AppendItem DEF IInv, TypeOK
<1>6. queue = <<>> <=> n = 0
  BY EmptySeq DEF IInv, TypeOK
<1> HIDE DEF n
<1>7. Mark' = ReadPos + k
  BY <1>1, <1>2 DEF Mark
<1>8. TypeOK'
  <2>1. reading' \in Seq(Request)
    BY <1>2, EmptyItems
  <2>2. pos' \in Nat /\ read' \in -1 .. BuffSize
    BY <1>0, <1>1, SizeAssumption
  <2> QED
    BY <1>2, <1>5, <2>1, <2>2 DEF IInv, TypeOK
<1>9. OneRequest' /\ AtRest' /\ EndedIsClosed' /\ WriterGoes'
  BY <1>0, <1>2, EmptyItems
     DEF IInv, OneRequest, AtRest, EndedIsClosed, WriterGoes
<1>10. Contiguous'
  BY <1>0, <1>1, <1>3, <1>5, <1>7 DEF IInv, Contiguous, n
<1>11. FrontIsNext'
  BY <1>0, <1>1, <1>2, <1>3, <1>5, <1>6, <1>7 DEF IInv, FrontIsNext
<1>12. Planned'
  BY <1>0, <1>2, <1>5, EmptyItems DEF IInv, Planned, n
<1>13. OneBlockInFlight'
  <2>1. resets' = 0 => /\ Len(reading') + Len(queue') <= 1
                       /\ timer' => reading' = <<>> /\ queue' = <<>>
    BY <1>0, <1>2, <1>5, EmptyItems DEF IInv, OneBlockInFlight, n
  <2>2. ASSUME length' > 0
        PROVE  queue' # <<>> /\ sended' + FrontLen' <= length'
    <3>1. n = 0
      BY <1>0, <1>2, <1>5, <2>2 DEF IInv, Planned, n
    <3>2. FrontLen' = k
      BY <1>0, <1>1, <1>3, <1>5, <3>1, TailItems DEF FrontLen
    <3>3. sended + Head(reading).want <= length /\ sended \in Nat /\ length \in Nat
      BY <1>2, <2>2, CallAssumption DEF IInv, TypeOK, OneBlockInFlight
    <3> QED
      BY <1>0, <1>1, <1>2, <1>5, <3>2, <3>3
  <2> QED
    BY <1>2, <2>1, <2>2 DEF OneBlockInFlight
<1>14. OutIsSource' /\ EndMeansAllSent' /\ RunningIsCalledBack'
  BY <1>2, <1>5
     DEF IInv, OutIsSource, EndMeansAllSent, RunningIsCalledBack
<1>15. Stands'
  <2> SUFFICES ASSUME offset = -1 PROVE Stands'
    BY <1>2 DEF Stands
  <2>1. /\ Head(reading).at = -1 /\ sent <= pos
        /\ \A i \in 1 .. n : queue[i].to <= pos
    BY <1>0, <1>2 DEF IInv, Stands, n
  <2>2. ReadPos = pos /\ pos \in Nat /\ sent \in Nat
    BY <2>1 DEF ReadPos, IInv, TypeOK
  <2>3. pos' = pos + k /\ pos <= pos' /\ pos' \in Nat
    BY <1>0, <1>1, <2>2
  <2>4. ASSUME NEW i \in 1 .. n + 1
        PROVE  queue'[i].to <= pos'
    <3>1. CASE i = n + 1
      BY <1>3, <1>5, <2>2, <2>3, <3>1
    <3>2. CASE i # n + 1
      <4>1. i \in 1 .. n
        BY <1>5, <3>2
      <4>2. queue[i] \in Block
        BY <4>1, ElementOfSeq DEF n, IInv, TypeOK
      <4>3. queue'[i] = queue[i] /\ queue[i].to <= pos
        BY <1>5, <2>1, <4>1
      <4>4. queue[i].to \in Nat
        BY <4>2 DEF Block
      <4> QED
        BY <2>2, <2>3, <4>3, <4>4
    <3> QED
      BY <3>1, <3>2
  <2> QED
    BY <1>0, <1>2, <1>5, <2>1, <2>2, <2>3, <2>4 DEF Stands
<1> QED
  BY <1>8, <1>9, <1>10, <1>11, <1>12, <1>13, <1>14, <1>15 DEF IInv

LEMMA PumpTimerInv == IInv /\ PumpTimer => IInv'
<1> SUFFICES ASSUME IInv, PumpTimer PROVE IInv'
  OBVIOUS
<1>1. /\ timer /\ timer' = FALSE
      /\ UNCHANGED <<status, offset, length, each, sended, read, pos, queue,
                     running, wtimer, base, sent, ordered, dropped, resets,
                     ended>>
  BY DEF PumpTimer, pump, stream
<1>2. CASE reading' = reading
  <2>1. ~(status = "RUNNING" /\ reading = <<>>)
    BY <1>2 DEF PumpTimer
  <2>2. TypeOK' /\ OneRequest' /\ AtRest' /\ EndedIsClosed'
    BY <1>1, <1>2
       DEF IInv, TypeOK, OneRequest, AtRest, EndedIsClosed
  <2>3. Contiguous' /\ FrontIsNext' /\ WriterGoes' /\ Planned'
    BY <1>1, <1>2
       DEF IInv, Contiguous, FrontIsNext, WriterGoes, Planned, Mark, ReadPos
  <2>4. OneBlockInFlight' /\ OutIsSource' /\ EndMeansAllSent' /\ RunningIsCalledBack'
    BY <1>1, <1>2, <2>1
       DEF IInv, OneBlockInFlight, FrontLen, OutIsSource, EndMeansAllSent,
           RunningIsCalledBack
  <2>5. Stands'
    BY <1>1, <1>2 DEF IInv, Stands
  <2> QED
    BY <2>2, <2>3, <2>4, <2>5 DEF IInv
<1>3. CASE reading' # reading
  <2> DEFINE r == [want |-> each, at |-> -1]
  <2>1. /\ status = "RUNNING" /\ reading = <<>> /\ reading' = <<r>>
        /\ ~(length > 0)
    BY <1>1, <1>3 DEF PumpTimer, IInv, Planned
  <2>2. /\ r \in Request /\ r.want = each /\ r.at = -1
        /\ each \in 1 .. BuffSize /\ pos \in Nat
    BY SizeAssumption DEF IInv, TypeOK, Request
  <2> HIDE DEF r
  <2>3. /\ reading' \in Seq(Request) /\ reading' # <<>>
        /\ Len(reading') = 1 /\ Head(reading') = r /\ Len(reading) = 0
    BY <2>1, <2>2
  <2>4. TypeOK'
    BY <1>1, <2>3 DEF IInv, TypeOK
  <2>9. OneRequest'
    BY <2>2, <2>3, SizeAssumption DEF OneRequest
  <2>10. AtRest' /\ EndedIsClosed'
    BY <1>1, <2>1 DEF IInv, AtRest, EndedIsClosed
  <2>5. Mark' = Mark
    BY <1>1, <2>1, <2>2, <2>3 DEF Mark, ReadPos
  <2>6. Contiguous' /\ FrontIsNext' /\ WriterGoes' /\ Planned'
    BY <1>1, <2>1, <2>5 DEF IInv, Contiguous, FrontIsNext, WriterGoes, Planned
  <2>7. OneBlockInFlight'
    BY <1>1, <2>1, <2>3, EmptyItems DEF IInv, OneBlockInFlight
  <2>8. OutIsSource' /\ EndMeansAllSent' /\ RunningIsCalledBack'
    BY <1>1, <2>3 DEF IInv, OutIsSource, EndMeansAllSent, RunningIsCalledBack
  <2>11. Stands'
    BY <1>1, <2>1, <2>2, <2>3 DEF IInv, Stands
  <2> QED
    BY <2>4, <2>6, <2>7, <2>8, <2>9, <2>10, <2>11 DEF IInv
<1> QED
  BY <1>2, <1>3

\* The block in front, and what the client has when all of it is taken.
LEMMA BlockInFront ==
  ASSUME IInv, queue # <<>>
  PROVE  /\ status = "RUNNING" /\ Len(queue) \in Nat \ {0}
         /\ Head(queue) = queue[1] /\ queue[1] \in Block
         /\ queue[1].from = sent + 1 /\ queue[1].from <= queue[1].to
         /\ FrontLen \in Nat \ {0} /\ queue[1].to = sent + FrontLen
<1>1. status = "RUNNING"
  BY DEF IInv, AtRest, TypeOK
<1>2. /\ Len(queue) \in Nat \ {0} /\ Head(queue) = queue[1]
      /\ queue[1] \in Block
  BY TailItems DEF IInv, TypeOK
<1>3. queue[1].from = sent + 1 /\ queue[1].from <= queue[1].to
  BY <1>1, <1>2 DEF IInv, FrontIsNext, Contiguous
<1>4. sent \in Nat /\ queue[1].from \in Nat /\ queue[1].to \in Nat
  BY <1>2 DEF Block, IInv, TypeOK
<1>5. FrontLen = queue[1].to - queue[1].from + 1
  BY <1>2 DEF FrontLen
<1> QED
  BY <1>1, <1>2, <1>3, <1>4, <1>5

LEMMA WriteLastInv == IInv /\ WriteLast => IInv'
<1> SUFFICES ASSUME IInv, WriteLast PROVE IInv'
  OBVIOUS
<1>1. queue # <<>> /\ length > 0 /\ sended + FrontLen >= length
  BY DEF WriteLast, PlanDone
<1>2. /\ sent' = sent + FrontLen /\ ordered' = TRUE /\ sended' = sended + FrontLen
      /\ FrontLen \in Nat /\ sended \in Nat /\ sent \in Nat /\ base \in Nat
      /\ length \in Nat /\ sent >= base /\ status = "RUNNING"
  BY <1>1, BlockInFront, CallAssumption
     DEF WriteLast, Took, IInv, OutIsSource, TypeOK
<1>3. resets = 0 => sent' = base + length
  <2>1. sended + FrontLen <= length
    BY <1>1 DEF IInv, OneBlockInFlight
  <2>2. resets = 0 => sended = sent - base
    BY <1>1, <1>2 DEF IInv, Planned
  <2> QED
    BY <1>1, <1>2, <2>1, <2>2
<1>4. /\ Closed /\ ended' = "end" /\ read' = 0
      /\ UNCHANGED <<offset, length, each, running, resets, base, dropped, pos>>
  BY DEF WriteLast, Complete, Took
<1>5. pos' \in Nat /\ read' \in -1 .. BuffSize
  BY <1>4, SizeAssumption DEF IInv, TypeOK
<1> QED
  BY <1>1, <1>2, <1>3, <1>4, <1>5, ClosedInv

\* n bytes of the block in front: what handleWriteCompletion counts.
LEMMA CountedBytes ==
  ASSUME IInv, status # "CLOSED", NEW n \in Nat, ~PlanDone(n), Counted(n)
  PROVE  /\ sended' \in Nat /\ each' \in 1 .. BuffSize
         /\ length > 0 => /\ sended' = sended + n /\ sended' + each' <= length
         /\ length = 0 => sended' = sended
<1>1. /\ length \in Nat /\ sended \in Nat /\ each \in 1 .. BuffSize
      /\ length > 0 => sended + n < length
  BY CallAssumption DEF IInv, TypeOK, PlanDone
<1> QED
  BY <1>1, SizeAssumption DEF Counted, Shrunk, Least

LEMMA WriteAllInv == IInv /\ WriteAll => IInv'
<1> SUFFICES ASSUME IInv, WriteAll PROVE IInv'
  OBVIOUS
<1> DEFINE n == Len(queue)
<1>1. /\ queue # <<>> /\ status = "RUNNING" /\ Head(queue) = queue[1]
      /\ queue[1].from = sent + 1 /\ queue[1].to = sent + FrontLen
      /\ FrontLen \in Nat /\ queue[1] \in Block
  BY BlockInFront DEF WriteAll
<1>2. /\ n \in Nat \ {0} /\ queue' \in Seq(Block) /\ Len(queue') = n - 1
      /\ \A i \in 1 .. n - 1 : queue'[i] = queue[i + 1]
      /\ queue' = <<>> <=> n = 1
      /\ queue' = Tail(queue)
  BY <1>1, TailItems DEF WriteAll, IInv, TypeOK
<1> HIDE DEF n
<1>3. /\ sent' = sent + FrontLen /\ ordered' = TRUE /\ base' = base
      /\ dropped' = dropped /\ sent \in Nat /\ base \in Nat /\ sent >= base
  BY <1>1 DEF WriteAll, Took, IInv, OutIsSource, TypeOK
<1>4. /\ sended' \in Nat /\ each' \in 1 .. BuffSize
      /\ length > 0 => sended' = sended + FrontLen /\ sended' + each' <= length
  BY <1>1, CountedBytes DEF WriteAll
<1>5. /\ wtimer' = (queue' # <<>>)
      /\ timer' = (timer \/ (length = 0 /\ Len(queue') = 0))
      /\ UNCHANGED <<status, offset, length, read, reading, pos, running,
                     resets, ended>>
  BY <1>2 DEF WriteAll, NextBlock
<1>6. TypeOK'
  BY <1>1, <1>2, <1>3, <1>4, <1>5 DEF IInv, TypeOK
<1>7. OneRequest' /\ AtRest' /\ EndedIsClosed' /\ WriterGoes'
  BY <1>1, <1>5 DEF IInv, OneRequest, AtRest, EndedIsClosed, WriterGoes
<1>8. Mark' = Mark
  BY <1>5 DEF Mark, ReadPos
<1>9. Contiguous'
  <2> SUFFICES ASSUME NEW i \in 1 .. n - 1
               PROVE  /\ queue'[i].from <= queue'[i].to
                      /\ IF i = n - 1 THEN queue'[i].to = Mark'
                         ELSE queue'[i + 1].from = queue'[i].to + 1
    BY <1>2 DEF Contiguous
  <2>1. i \in 1 .. n /\ i + 1 \in 1 .. n /\ queue'[i] = queue[i + 1]
    BY <1>2
  <2>2. /\ queue[i + 1].from <= queue[i + 1].to
        /\ IF i + 1 = n THEN queue[i + 1].to = Mark
           ELSE queue[i + 1 + 1].from = queue[i + 1].to + 1
    BY <2>1 DEF IInv, Contiguous, n
  <2>3. i + 1 = n <=> i = n - 1
    BY <1>2
  <2>4. i # n - 1 => queue'[i + 1] = queue[i + 1 + 1]
    BY <1>2
  <2>5. CASE i = n - 1
    BY <1>8, <2>1, <2>2, <2>3, <2>5
  <2>6. CASE i # n - 1
    BY <2>1, <2>2, <2>3, <2>4, <2>6
  <2> QED
    BY <2>5, <2>6
<1>10. FrontIsNext'
  <2>0. 1 \in 1 .. n
    BY <1>2
  <2>1. /\ n = 1 => queue[1].to = Mark
        /\ n # 1 => queue[1 + 1].from = queue[1].to + 1
    BY <2>0 DEF IInv, Contiguous, n
  <2>2. n # 1 => queue'[1] = queue[1 + 1]
    BY <1>2
  <2> QED
    BY <1>1, <1>2, <1>3, <1>8, <2>1, <2>2 DEF FrontIsNext
<1>11. Planned'
  BY <1>1, <1>2, <1>3, <1>4, <1>5 DEF IInv, TypeOK, Planned, n
<1>12. OneBlockInFlight'
  <2>0. Len(reading) \in Nat /\ (Len(reading) = 0 => reading = <<>>)
    BY EmptySeq DEF IInv, TypeOK
  <2>1. resets' = 0 => /\ Len(reading') + Len(queue') <= 1
                       /\ timer' => reading' = <<>> /\ queue' = <<>>
    BY <1>1, <1>2, <1>5, <2>0 DEF IInv, OneBlockInFlight, n
  <2>2. length' > 0 => reading' = <<>> /\ queue' = <<>>
    BY <1>2, <1>5, <2>0 DEF IInv, Planned, n
  <2> QED
    BY <2>1, <2>2 DEF OneBlockInFlight
<1>13. OutIsSource' /\ EndMeansAllSent'
  BY <1>1, <1>3, <1>5 DEF IInv, OutIsSource, EndMeansAllSent, EndedIsClosed
<1>14. RunningIsCalledBack'
  BY <1>2, <1>5, EmptyItems DEF IInv, RunningIsCalledBack, n
<1>15. Stands'
  <2> SUFFICES ASSUME offset = -1 PROVE Stands'
    BY <1>5 DEF Stands
  <2>1. /\ reading # <<>> => Head(reading).at = -1
        /\ \A i \in 1 .. n : queue[i].to <= pos
    BY <1>1 DEF IInv, Stands, n
  <2>2. sent' <= pos'
    BY <1>1, <1>2, <1>3, <1>5, <2>1
  <2>3. \A i \in 1 .. n - 1 : queue'[i].to <= pos'
    BY <1>2, <1>5, <2>1
  <2> QED
    BY <1>1, <1>2, <1>5, <2>1, <2>2, <2>3 DEF Stands
<1> QED
  BY <1>6, <1>7, <1>9, <1>10, <1>11, <1>12, <1>13, <1>14, <1>15 DEF IInv

LEMMA WritePartInv ==
  ASSUME IInv, NEW m \in 0 .. BuffSize, WritePart(m)
  PROVE  IInv'
<1> DEFINE n == Len(queue)
<1>1. /\ queue # <<>> /\ status = "RUNNING" /\ Head(queue) = queue[1]
      /\ queue[1].from = sent + 1 /\ queue[1].to = sent + FrontLen
      /\ FrontLen \in Nat /\ queue[1] \in Block /\ n \in Nat \ {0}
      /\ m \in Nat /\ m < FrontLen /\ wtimer
  BY BlockInFront, SizeAssumption DEF WritePart
<1> DEFINE b == [queue[1] EXCEPT !.from = queue[1].from + m]
<1>2. b \in Block /\ b.from = queue[1].from + m /\ b.to = queue[1].to
  BY <1>1 DEF Block
<1>3. queue' = [queue EXCEPT ![1] = b]
  BY <1>1 DEF WritePart
<1> HIDE DEF b
<1>4. /\ queue' \in Seq(Block) /\ Len(queue') = n
      /\ \A j \in 1 .. n : queue'[j] = IF j = 1 THEN b ELSE queue[j]
  BY <1>1, <1>2, <1>3, ExceptSeq DEF IInv, TypeOK
<1>5. queue' # <<>> /\ Head(queue') = b /\ queue'[1] = b
  BY <1>1, <1>4, EmptySeq, TailItems
<1> HIDE DEF n
<1>6. /\ sent' = sent + m /\ ordered' = TRUE /\ base' = base
      /\ dropped' = dropped /\ sent \in Nat /\ base \in Nat /\ sent >= base
  <2>1. sent \in Nat /\ base \in Nat /\ sent >= base /\ ordered
    BY DEF IInv, OutIsSource, TypeOK
  <2>2. /\ sent' = queue[1].from + m - 1 /\ base' = base /\ dropped' = dropped
        /\ ordered' = (ordered /\ queue[1].from = sent + 1)
    BY <1>1 DEF WritePart, Took
  <2>3. sent' = sent + m
    BY <1>1, <2>1, <2>2
  <2> QED
    BY <1>1, <2>1, <2>2, <2>3
<1>7. /\ sended' \in Nat /\ each' \in 1 .. BuffSize
      /\ length > 0 => sended' = sended + m /\ sended' + each' <= length
  BY <1>1, CountedBytes DEF WritePart
<1>8. /\ timer' = timer
      /\ UNCHANGED <<status, offset, length, read, reading, pos, running,
                     wtimer, resets, ended>>
  BY <1>1, <1>4 DEF WritePart, NextBlock, IInv, TypeOK, n
<1>9. TypeOK'
  BY <1>1, <1>4, <1>6, <1>7, <1>8 DEF IInv, TypeOK
<1>10. OneRequest' /\ AtRest' /\ EndedIsClosed' /\ WriterGoes'
  BY <1>1, <1>8 DEF IInv, OneRequest, AtRest, EndedIsClosed, WriterGoes
<1>11. Mark' = Mark
  BY <1>8 DEF Mark, ReadPos
<1>12. Contiguous'
  <2> SUFFICES ASSUME NEW i \in 1 .. n
               PROVE  /\ queue'[i].from <= queue'[i].to
                      /\ i = n => queue'[i].to = Mark'
                      /\ i # n => queue'[i + 1].from = queue'[i].to + 1
    BY <1>4 DEF Contiguous
  <2>1. /\ queue[i].from <= queue[i].to
        /\ i = n => queue[i].to = Mark
        /\ i # n => queue[i + 1].from = queue[i].to + 1
    BY DEF IInv, Contiguous, n
  <2>2. queue'[i].to = queue[i].to
    BY <1>2, <1>4
  <2>3. i # n => queue'[i + 1] = queue[i + 1]
    BY <1>1, <1>4
  <2>4. queue'[i].from <= queue'[i].to
    BY <1>1, <1>2, <1>4, <1>6, <2>1
  <2> QED
    BY <1>11, <2>1, <2>2, <2>3, <2>4
<1>13. FrontIsNext'
  BY <1>1, <1>2, <1>5, <1>6 DEF FrontIsNext
<1>14. Planned'
  BY <1>1, <1>4, <1>6, <1>7, <1>8 DEF IInv, TypeOK, Planned, n
<1>15. OneBlockInFlight'
  <2>1. FrontLen' = FrontLen - m
    <3>1. FrontLen' = b.to - b.from + 1
      BY <1>5 DEF FrontLen
    <3> QED
      BY <1>1, <1>2, <1>6, <3>1
  <2>2. Len(reading) \in Nat /\ (reading # <<>> => Len(reading) > 0)
    BY EmptySeq DEF IInv, TypeOK
  <2>3. resets' = 0 => /\ Len(reading') + Len(queue') <= 1
                       /\ timer' => reading' = <<>> /\ queue' = <<>>
    BY <1>1, <1>4, <1>8 DEF IInv, OneBlockInFlight, n
  <2>4. length' > 0 => reading' = <<>> /\ sended' + FrontLen' <= length'
    <3> SUFFICES ASSUME length' > 0
                 PROVE  reading' = <<>> /\ sended' + FrontLen' <= length'
      OBVIOUS
    <3>1. reading' = <<>>
      BY <1>1, <1>8, <2>2 DEF IInv, Planned, n
    <3>2. /\ sended + FrontLen <= length /\ sended \in Nat /\ length \in Nat
          /\ sended' = sended + m
      BY <1>1, <1>7, <1>8, CallAssumption DEF IInv, TypeOK, OneBlockInFlight
    <3> QED
      BY <1>1, <1>8, <2>1, <3>1, <3>2
  <2> QED
    BY <2>3, <2>4 DEF OneBlockInFlight
<1>16. OutIsSource' /\ EndMeansAllSent'
  BY <1>1, <1>6, <1>8 DEF IInv, OutIsSource, EndMeansAllSent, EndedIsClosed
<1>17. RunningIsCalledBack'
  BY <1>1, <1>5, <1>8 DEF RunningIsCalledBack
<1>18. Stands'
  <2> SUFFICES ASSUME offset = -1 PROVE Stands'
    BY <1>8 DEF Stands
  <2>1. /\ reading # <<>> => Head(reading).at = -1
        /\ \A i \in 1 .. n : queue[i].to <= pos
    BY <1>1 DEF IInv, Stands, n
  <2>2. sent' <= pos'
    <3>1. queue[1].to <= pos /\ pos \in Nat
      BY <1>1, <2>1 DEF IInv, TypeOK
    <3> QED
      BY <1>1, <1>6, <1>8, <3>1
  <2>3. \A i \in 1 .. n : queue'[i].to <= pos'
    BY <1>2, <1>4, <1>8, <2>1
  <2> QED
    BY <1>1, <1>4, <1>8, <2>1, <2>2, <2>3 DEF Stands
<1> QED
  BY <1>9, <1>10, <1>12, <1>13, <1>14, <1>15, <1>16, <1>17, <1>18 DEF IInv

\* The ways a pump is closed.
LEMMA EndInv ==
  ASSUME IInv, Close \/ ReadEnd \/ ReadFails \/ WriteFails
  PROVE  IInv'
<1>1. /\ Closed
      /\ UNCHANGED <<offset, length, each, sended, running, base, sent,
                     ordered, dropped, resets>>
  BY DEF Close, ReadEnd, ReadFails, WriteFails, Complete, stream
<1>2. /\ sended' \in Nat /\ ordered' = TRUE /\ sent' \in Nat /\ sent' >= base
  BY <1>1 DEF IInv, TypeOK, OutIsSource
<1>3. CASE Close
  <2>1. ended = "no"
    BY <1>3 DEF Close, IInv, EndedIsClosed
  <2>2. read' = read /\ pos' = pos /\ ended' = ended
    BY <1>3 DEF Close
  <2> QED
    BY <1>1, <1>2, <2>1, <2>2, ClosedInv DEF IInv, TypeOK
<1>4. CASE ReadEnd
  <2>1. /\ reading # <<>> /\ ReadPos >= FileSize
        /\ pos' = ReadPos /\ read' = 0 /\ ended' = "end"
    BY <1>4 DEF ReadEnd, Complete
  <2>2. /\ Len(reading) = 1 /\ ReadPos \in Nat /\ Mark = ReadPos
    BY <2>1, RequestInFront DEF IInv
  <2>3. status = "RUNNING" /\ (resets = 0 => queue = <<>>)
    <3>1. Len(queue) \in Nat /\ (queue # <<>> => Len(queue) > 0)
      BY EmptySeq DEF IInv, TypeOK
    <3> QED
      BY <2>1, <2>2, <3>1 DEF IInv, AtRest, OneBlockInFlight
  <2>4. resets = 0 => sent' >= FileSize
    BY <1>1, <2>1, <2>2, <2>3 DEF IInv, FrontIsNext
  <2>5. pos' \in Nat /\ read' \in -1 .. BuffSize
    BY <2>1, <2>2, SizeAssumption
  <2> QED
    BY <1>1, <1>2, <2>1, <2>4, <2>5, ClosedInv
<1>5. CASE ReadFails \/ WriteFails
  <2>1. pos' = pos /\ read' \in -1 .. BuffSize /\ ended' = "error"
    BY <1>5, SizeAssumption DEF ReadFails, WriteFails, Complete, IInv, TypeOK
  <2>2. pos' \in Nat
    BY <2>1 DEF IInv, TypeOK
  <2> QED
    BY <1>1, <1>2, <2>1, <2>2, ClosedInv
<1> QED
  BY <1>3, <1>4, <1>5

-----------------------------------------------------------------------------
(* The theorems                                                            *)

LEMMA InitInv == Init => IInv
<1> SUFFICES ASSUME Init PROVE IInv
  OBVIOUS
<1>1. PICK speed \in Speeds :
         each = CalculateSpeed(speed, IF length > 0 THEN Least(length, BuffSize)
                                      ELSE BuffSize)
  BY DEF Init
<1>2. length \in Nat /\ speed \in Nat
  BY CallAssumption DEF Init
<1>3. each \in 1 .. BuffSize /\ (length > 0 => each <= length)
  <2> DEFINE size == IF length > 0 THEN Least(length, BuffSize) ELSE BuffSize
  <2>1. /\ size \in Nat \ {0} /\ size <= BuffSize
        /\ length > 0 => size <= length
    BY <1>2, SizeAssumption DEF Least
  <2>2. each = CalculateSpeed(speed, size)
    BY <1>1
  <2> HIDE DEF size
  <2>3. each \in 1 .. size
    BY <1>2, <2>1, <2>2, ReadsFitTheBuffer
  <2> QED
    BY <1>2, <2>1, <2>3, SizeAssumption
<1>4. TypeOK
  <2>1. reading \in Seq(Request) /\ queue \in Seq(Block)
    BY EmptyItems DEF Init
  <2>2. read \in -1 .. BuffSize /\ resets \in 0 .. MaxResets
    BY SizeAssumption, CallAssumption DEF Init
  <2> QED
    BY <1>3, <2>1, <2>2 DEF Init, TypeOK
<1>5. OneRequest /\ AtRest /\ EndedIsClosed /\ Contiguous
  BY EmptyItems DEF Init, OneRequest, AtRest, EndedIsClosed, Contiguous
<1>6. FrontIsNext /\ WriterGoes /\ RunningIsCalledBack
  BY DEF Init, FrontIsNext, WriterGoes, RunningIsCalledBack
<1>7. Planned /\ OneBlockInFlight
  BY <1>3, EmptyItems DEF Init, Planned, OneBlockInFlight
<1>8. OutIsSource /\ EndMeansAllSent /\ Stands
  BY EmptyItems DEF Init, OutIsSource, EndMeansAllSent, Stands
<1> QED
  BY <1>4, <1>5, <1>6, <1>7, <1>8 DEF IInv

LEMMA StutterInv == IInv /\ UNCHANGED vars => IInv'
<1> SUFFICES ASSUME IInv, UNCHANGED vars PROVE IInv'
  OBVIOUS
<1>1. TypeOK' /\ OneRequest' /\ AtRest' /\ EndedIsClosed' /\ WriterGoes'
  BY DEF vars, IInv, TypeOK, OneRequest, AtRest, EndedIsClosed, WriterGoes
<1>2. Contiguous' /\ FrontIsNext' /\ Planned' /\ Stands'
  BY DEF vars, IInv, Contiguous, FrontIsNext, Planned, Stands, Mark, ReadPos
<1>3. OutIsSource' /\ EndMeansAllSent' /\ OneBlockInFlight' /\ RunningIsCalledBack'
  BY DEF vars, IInv, OutIsSource, EndMeansAllSent, OneBlockInFlight, FrontLen,
         RunningIsCalledBack
<1> QED
  BY <1>1, <1>2, <1>3 DEF IInv

LEMMA NextInv == IInv /\ [Next]_vars => IInv'
<1> SUFFICES ASSUME IInv, [Next]_vars PROVE IInv'
  OBVIOUS
<1>1. CASE Calls
  BY <1>1, StartInv, ResetInv, EndInv DEF Calls
<1>2. CASE Reader
  BY <1>2, ReadSomeInv, PumpTimerInv, EndInv DEF Reader
<1>3. CASE Writer
  BY <1>3, WriteLastInv, WriteAllInv, WritePartInv, EndInv, StutterInv
     DEF Writer, WriteAgain
<1>4. CASE UNCHANGED vars
  BY <1>4, StutterInv
<1> QED
  BY <1>1, <1>2, <1>3, <1>4 DEF Next

\* Every reachable state of the pump satisfies the inductive invariant.
THEOREM PumpInvariance == Spec => []IInv
<1>1. Init => IInv
  BY InitInv
<1>2. IInv /\ [Next]_vars => IInv'
  BY NextInv
<1> QED
  BY <1>1, <1>2, PTL DEF Spec

\* RWIOPump keeps the types of its state: a read is for 1 to buffSize bytes.
THEOREM PumpTypeCorrect == Spec => []TypeOK
<1>1. IInv => TypeOK
  BY DEF IInv
<1> QED
  BY <1>1, PumpInvariance, PTL

\* However RWIOPump's reads and the writer's writes are cut, a transfer gives the
\* client the source's bytes in their order from its start on; without an offset,
\* a restart after reset() repeats none and leaves out only what reset() dropped.
THEOREM PumpSendsTheSource == Spec => []OutIsSource
<1>1. IInv => OutIsSource
  BY DEF IInv
<1> QED
  BY <1>1, PumpInvariance, PTL

\* Up to the first reset() the servlet is told of the end only when all has been
\* taken: close() of the writer drops nothing.
THEOREM PumpEndsAfterAll == Spec => []EndMeansAllSent
<1>1. IInv => EndMeansAllSent
  BY DEF IInv
<1> QED
  BY <1>1, PumpInvariance, PTL

\* One block at a time, and never past the planned length.
THEOREM PumpFlowControl == Spec => []OneBlockInFlight
<1>1. IInv => OneBlockInFlight
  BY DEF IInv
<1> QED
  BY <1>1, PumpInvariance, PTL

\* A pump without a planned length is never left without a callback.
THEOREM PumpNeverForgotten == Spec => []RunningIsCalledBack
<1>1. IInv => RunningIsCalledBack
  BY DEF IInv
<1> QED
  BY <1>1, PumpInvariance, PTL
=============================================================================
