------------------------ MODULE EvNIOWriter_proofs ------------------------
(***************************************************************************)
(* Proofs about EvNIOWriter for any set of pumps and any bounds: its       *)
(* safety invariants, and that it implements ByteStream.                   *)
(*                                                                         *)
(* None of the invariants is inductive by itself.  The inductive one says  *)
(* where every submitted byte is: the descriptor has taken 1..sent, the    *)
(* block or pump in front owes the bytes from sent + 1 on, and each block  *)
(* of the queue begins where the one before it ends.                       *)
(***************************************************************************)
EXTENDS EvNIOWriter, SequenceTheorems, TLAPS

\* A closed writer has nothing queued; an empty open one owes nothing.
ClosedOrDrained ==
  /\ ~open => queue = <<>>
  /\ open /\ queue = <<>> => sent = submitted

\* The blocks are intervals that follow each other up to the last byte.
Contiguous ==
  \A i \in 1 .. Len(queue) :
       /\ 0 < queue[i].from /\ queue[i].from <= queue[i].to
       /\ queue[i].to <= submitted
       /\ IF i = Len(queue) THEN queue[i].to = submitted
          ELSE queue[i + 1].from = queue[i].to + 1

\* The block in front begins with the next byte to be sent.
FrontIsNext ==
  queue # <<>> /\ queue[1].pump = NoPump => queue[1].from = sent + 1

\* Only the file of a planned transfer goes on behind its last byte, and one
\* sendfile() takes no more than is planned, except after EAGAIN.
Planned(c) ==
  /\ c.limited \/ c.more = 0
  /\ c.limited => IF c.again THEN c.cap = c.each ELSE c.cap <= c.last - c.next + 1

\* A queued pump owes the rest of its block.  Only the one in front may run,
\* and a limited one that still runs is short of its length.
QueuedPump(i) ==
  LET p == queue[i].pump
  IN /\ pump[p].st \in {"NEW", "RUNNING"}
     /\ i > 1 => pump[p].st = "NEW"
     /\ pump[p].st = "NEW" => pump[p].next = queue[i].from
     /\ i = 1 => pump[p].next = sent + 1
     /\ pump[p].last = queue[i].to
     /\ pump[p].next <= pump[p].last + 1
     /\ pump[p].limited => pump[p].next <= pump[p].last
     /\ Planned(pump[p])

QueuedPumps ==
  /\ \A i \in 1 .. Len(queue) : queue[i].pump # NoPump => QueuedPump(i)
  /\ \A i, j \in 1 .. Len(queue) :
       queue[i].pump = queue[j].pump /\ queue[i].pump # NoPump => i = j

RunningPumpsHaveTimers ==
  \A p \in Pumps : pump[p].st = "RUNNING" => pump[p].timer

IInv == /\ TypeOK /\ ClosedOrDrained /\ Contiguous /\ FrontIsNext
        /\ QueuedPumps /\ RunningPumpsHaveTimers
        /\ NoStall /\ TimerMeansWork /\ InOrder /\ EmptyMeansDelivered
        /\ RunningPumpInFront

-----------------------------------------------------------------------------
(* Lemmas about the queue                                                  *)

LEMMA AppendItem ==
  ASSUME NEW s \in Seq(Item), NEW e \in Item
  PROVE  /\ Append(s, e) \in Seq(Item) /\ Append(s, e) # <<>>
         /\ Len(s) \in Nat /\ Len(Append(s, e)) = Len(s) + 1
         /\ \A i \in 1 .. Len(s) : Append(s, e)[i] = s[i]
         /\ Append(s, e)[Len(s) + 1] = e
  BY SMT

LEMMA TailItems ==
  ASSUME NEW s \in Seq(Item), s # <<>>
  PROVE  /\ Len(s) \in Nat \ {0} /\ Head(s) = s[1] /\ s[1] \in Item
         /\ Tail(s) \in Seq(Item) /\ Len(Tail(s)) = Len(s) - 1
         /\ \A i \in 1 .. Len(s) - 1 : Tail(s)[i] = s[i + 1]
         /\ Tail(s) = <<>> <=> Len(s) = 1
<1>1. Len(s) \in Nat \ {0}
  BY EmptySeq
<1>2. Head(s) = s[1] /\ s[1] \in Item
  BY <1>1, ElementOfSeq
<1>3. /\ Tail(s) \in Seq(Item) /\ Len(Tail(s)) = Len(s) - 1
      /\ \A i \in 1 .. Len(s) - 1 : Tail(s)[i] = s[i + 1]
  BY HeadTailProperties
<1>4. Tail(s) = <<>> <=> Len(s) = 1
  BY <1>1, <1>3, EmptySeq
<1> QED
  BY <1>1, <1>2, <1>3, <1>4

LEMMA TrimFront ==
  ASSUME NEW s \in Seq(Item), s # <<>>, NEW n \in Nat
  PROVE  LET t == [s EXCEPT ![1].from = n]
         IN /\ t \in Seq(Item) /\ t # <<>> /\ Len(t) = Len(s)
            /\ t[1] = [s[1] EXCEPT !.from = n]
            /\ \A i \in 2 .. Len(s) : t[i] = s[i]
<1> DEFINE e == [s[1] EXCEPT !.from = n]
           t == [s EXCEPT ![1] = e]
<1>1. Len(s) \in Nat \ {0}
  BY EmptySeq
<1>2. s[1] \in Item
  BY <1>1, ElementOfSeq
<1>3. e \in Item
  BY <1>2 DEF Item
<1> HIDE DEF e
<1>4. /\ t \in Seq(Item) /\ Len(t) = Len(s)
      /\ \A j \in 1 .. Len(s) : t[j] = IF j = 1 THEN e ELSE s[j]
  BY <1>1, <1>3, ExceptSeq
<1>5. t # <<>>
  BY <1>1, <1>4, EmptySeq
<1>6. t[1] = e /\ \A i \in 2 .. Len(s) : t[i] = s[i]
  BY <1>1, <1>4
<1> QED
  BY <1>4, <1>5, <1>6 DEF e

-----------------------------------------------------------------------------
(* What the completions do to the invariant                                *)

\* A pump that is closed stays as it is, and with it what it overshot.
LEMMA OnlySubmittedStays ==
  ASSUME OnlySubmitted, exact' = exact,
         \A p \in Pumps : pump[p].st = "CLOSED" => pump'[p] = pump[p]
  PROVE  OnlySubmitted'
BY DEF OnlySubmitted, Overshot

\* The block in front is finished (PopFront), the bytes up to its end sent.
LEMMA PopFrontInv ==
  ASSUME IInv, open, queue # <<>>, PopFront,
         sent' = queue[1].to, submitted' = submitted,
         ordered' = TRUE, failed' \in BOOLEAN, exact' \in BOOLEAN, OnlySubmitted',
         pump' \in [Pumps -> Pump],
         \A p \in Pumps : IF p = queue[1].pump THEN pump'[p].st = "CLOSED"
                          ELSE pump'[p] = pump[p]
  PROVE  IInv'
<1> DEFINE n == Len(queue)
<1>1. /\ n \in Nat \ {0} /\ queue' \in Seq(Item) /\ Len(queue') = n - 1
      /\ \A i \in 1 .. n - 1 : queue'[i] = queue[i + 1]
      /\ queue' = <<>> <=> n = 1
      /\ timer' = (queue' # <<>>)
  BY TailItems DEF IInv, TypeOK, PopFront
<1>2. \A i \in 1 .. n : queue[i] \in Item
  BY <1>1, ElementOfSeq DEF IInv, TypeOK
<1> HIDE DEF n
<1>3. TypeOK'
  BY <1>1, <1>2 DEF IInv, TypeOK, PopFront, Item
<1>4. ClosedOrDrained'
  <2>1. open'
    BY DEF PopFront
  <2>2. queue' = <<>> => queue[1].to = submitted
    BY <1>1 DEF IInv, Contiguous, n
  <2> QED
    BY <2>1, <2>2 DEF ClosedOrDrained
<1>5. Contiguous'
  <2>1. \A i \in 1 .. n :
          /\ 0 < queue[i].from /\ queue[i].from <= queue[i].to
          /\ queue[i].to <= submitted
          /\ IF i = n THEN queue[i].to = submitted
             ELSE queue[i + 1].from = queue[i].to + 1
    BY DEF IInv, Contiguous, n
  <2>2. ASSUME NEW i \in 1 .. n - 1
        PROVE  /\ 0 < queue'[i].from /\ queue'[i].from <= queue'[i].to
               /\ queue'[i].to <= submitted'
               /\ IF i = n - 1 THEN queue'[i].to = submitted'
                  ELSE queue'[i + 1].from = queue'[i].to + 1
    <3>1. i + 1 \in 1 .. n /\ queue'[i] = queue[i + 1]
      BY <1>1
    <3>2. i # n - 1 => queue'[i + 1] = queue[(i + 1) + 1] /\ i + 1 # n
      BY <1>1
    <3>3. i = n - 1 => i + 1 = n
      BY <1>1
    <3> QED
      BY <2>1, <3>1, <3>2, <3>3
  <2> QED
    BY <1>1, <2>2 DEF Contiguous
<1>6. FrontIsNext'
  BY <1>1, <1>2 DEF IInv, Contiguous, n, FrontIsNext
<1>7. QueuedPumps'
  <2>1. ASSUME NEW i \in 1 .. n - 1, queue'[i].pump # NoPump
        PROVE  QueuedPump(i)'
    <3>1. /\ i + 1 \in 1 .. n /\ queue'[i] = queue[i + 1] /\ 1 \in 1 .. n
      BY <1>1
    <3>2. QueuedPump(i + 1) /\ queue[i + 1].pump # queue[1].pump
      BY <2>1, <3>1 DEF IInv, QueuedPumps, n
    <3>3. pump'[queue[i + 1].pump] = pump[queue[i + 1].pump]
      BY <1>2, <2>1, <3>1, <3>2 DEF Item
    <3>4. i = 1 => queue[2].from = queue[1].to + 1
      BY <1>1, <3>1 DEF IInv, Contiguous, n
    <3> QED
      BY <3>1, <3>2, <3>3, <3>4 DEF QueuedPump
  <2>2. ASSUME NEW i \in 1 .. n - 1, NEW j \in 1 .. n - 1,
               queue'[i].pump = queue'[j].pump, queue'[i].pump # NoPump
        PROVE  i = j
    BY <1>1, <2>2 DEF IInv, QueuedPumps, n
  <2> QED
    BY <1>1, <2>1, <2>2 DEF QueuedPumps
<1>8. RunningPumpsHaveTimers'
  BY DEF IInv, RunningPumpsHaveTimers
<1>9. NoStall' /\ TimerMeansWork'
  BY <1>1 DEF IInv, NoStall, TimerMeansWork, PopFront
<1>10. InOrder' /\ EmptyMeansDelivered'
  <2>1. queue[1].to <= submitted
    BY <1>1 DEF IInv, Contiguous, n
  <2>2. event' = "empty" => queue' = <<>> /\ open'
    BY DEF PopFront
  <2> QED
    BY <1>4, <2>1, <2>2 DEF InOrder, EmptyMeansDelivered, ClosedOrDrained
<1>11. RunningPumpInFront'
  BY <1>1, TailItems DEF IInv, RunningPumpInFront, PumpInFront, TypeOK
<1> QED
  BY <1>3, <1>4, <1>5, <1>6, <1>7, <1>8, <1>9, <1>10, <1>11 DEF IInv

\* The writer is closed and nothing more is sent.
LEMMA ClosedInv ==
  ASSUME IInv, Closed, sent' = sent, submitted' = submitted,
         ordered' = ordered, failed' \in BOOLEAN, exact' \in BOOLEAN, OnlySubmitted',
         event' \in {"none", "error"}, pump' \in [Pumps -> Pump],
         \A p \in Pumps : pump'[p].st = "RUNNING" => pump'[p].timer
  PROVE  IInv'
<1>1. TypeOK'
  <2>1. <<>> \in Seq(Item)
    BY EmptySeq
  <2> QED
    BY <2>1 DEF IInv, TypeOK, Closed
<1>2. ClosedOrDrained' /\ Contiguous' /\ FrontIsNext' /\ QueuedPumps'
  BY DEF Closed, ClosedOrDrained, Contiguous, FrontIsNext, QueuedPumps
<1>3. RunningPumpsHaveTimers'
  BY DEF RunningPumpsHaveTimers
<1>4. NoStall' /\ TimerMeansWork' /\ EmptyMeansDelivered' /\ RunningPumpInFront'
  BY DEF Closed, NoStall, TimerMeansWork, EmptyMeansDelivered, RunningPumpInFront
<1>5. InOrder'
  BY DEF IInv, InOrder
<1> QED
  BY <1>1, <1>2, <1>3, <1>4, <1>5 DEF IInv

-----------------------------------------------------------------------------
(* The steps of a pump                                                     *)

\* What the invariant says of a pump that may send.
MaySend(p) == IF open THEN queue # <<>> /\ queue[1].pump = p
              ELSE pump[p].st = "RUNNING"

LEMMA FrontPump ==
  ASSUME IInv, NEW p \in Pumps, open, MaySend(p)
  PROVE  /\ queue # <<>> /\ Len(queue) \in Nat \ {0} /\ PumpInFront
         /\ pump[p].next = sent + 1 /\ pump[p].last = queue[1].to
         /\ queue[1].from <= queue[1].to /\ queue[1].to <= submitted
<1>1. queue # <<>> /\ queue[1].pump = p /\ p # NoPump
  BY NoPumpAssumption DEF MaySend
<1>2. Len(queue) \in Nat \ {0} /\ Head(queue) = queue[1] /\ 1 \in 1 .. Len(queue)
  BY <1>1, TailItems DEF IInv, TypeOK
<1>3. QueuedPump(1)
  BY <1>1, <1>2 DEF IInv, QueuedPumps
<1> QED
  BY <1>1, <1>2, <1>3 DEF QueuedPump, PumpInFront, IInv, Contiguous

LEMMA MayMeansNotClosed ==
  ASSUME IInv, NEW p \in Pumps, MaySend(p)
  PROVE  pump[p].st # "CLOSED"
<1>1. CASE open
  <2>1. queue[1].pump = p /\ p # NoPump /\ 1 \in 1 .. Len(queue)
    BY <1>1, FrontPump, NoPumpAssumption DEF MaySend
  <2> QED
    BY <2>1 DEF IInv, QueuedPumps, QueuedPump
<1>2. CASE ~open
  BY <1>2 DEF MaySend
<1> QED
  BY <1>1, <1>2

\* What goes on of a pump: its next byte is k, then it may send c bytes.
GoesOn(p, k, c, a) ==
  pump' = [pump EXCEPT ![p].st = "RUNNING", ![p].next = k, ![p].cap = c,
                       ![p].again = a, ![p].timer = TRUE]

LEMMA PumpGoesOn ==
  ASSUME IInv, NEW p \in Pumps, MaySend(p), NEW k \in Nat, NEW c \in Nat,
         NEW a \in BOOLEAN, GoesOn(p, k, c, a), exact' = exact,
         open => /\ k <= pump[p].last + 1
                 /\ pump[p].limited => k <= pump[p].last
                 /\ pump[p].limited => IF a THEN c = pump[p].each
                                       ELSE c <= pump[p].last - k + 1,
         sent' = IF open THEN k - 1 ELSE sent, sent' \in Nat,
         open' = open, running' = running, queue' = queue,
         submitted' = submitted, failed' = failed, ordered' = TRUE,
         timer' \in BOOLEAN, timer' => open /\ queue # <<>>,
         event' \in {"none", "some"}
  PROVE  IInv'
<1>1. /\ pump'[p].st = "RUNNING" /\ pump'[p].timer /\ pump'[p].next = k
      /\ pump'[p].last = pump[p].last /\ pump'[p].limited = pump[p].limited
      /\ \A q \in Pumps : q # p => pump'[q] = pump[q]
  BY DEF IInv, TypeOK, Pump, GoesOn
<1>2. TypeOK'
  <2>1. pump[p] \in Pump
    BY DEF IInv, TypeOK
  <2>2. pump' = [pump EXCEPT ![p] = [pump[p] EXCEPT !.st = "RUNNING",
                                       !.next = k, !.cap = c, !.again = a,
                                       !.timer = TRUE]]
    BY DEF IInv, TypeOK, GoesOn
  <2>3. [pump[p] EXCEPT !.st = "RUNNING", !.next = k, !.cap = c, !.again = a,
                        !.timer = TRUE] \in Pump
    BY <2>1 DEF Pump
  <2>4. pump' \in [Pumps -> Pump]
    BY <2>2, <2>3 DEF IInv, TypeOK
  <2> QED
    BY <2>4 DEF IInv, TypeOK
<1>3. ClosedOrDrained' /\ Contiguous' /\ FrontIsNext'
  <2>1. CASE open
    BY <2>1, FrontPump, NoPumpAssumption
       DEF MaySend, IInv, ClosedOrDrained, Contiguous, FrontIsNext
  <2>2. CASE ~open
    BY <2>2 DEF IInv, ClosedOrDrained, Contiguous, FrontIsNext
  <2> QED
    BY <2>1, <2>2
<1>4. QueuedPumps'
  <2>1. CASE open
    <3>1. \A i \in 1 .. Len(queue) : queue[i] \in Item
      BY ElementOfSeq DEF IInv, TypeOK
    <3>2. Len(queue) \in Nat \ {0} /\ queue[1].pump = p /\ p # NoPump
      BY <2>1, FrontPump, NoPumpAssumption DEF MaySend
    <3>3. ASSUME NEW i \in 1 .. Len(queue), queue[i].pump # NoPump, i # 1
          PROVE  QueuedPump(i)'
      <4>0. queue[i] \in Item /\ 1 \in 1 .. Len(queue) /\ QueuedPumps
        BY <3>1, <3>2, <3>3 DEF IInv
      <4>1. queue[i].pump \in Pumps /\ queue[i].pump # p
        BY <3>2, <3>3, <4>0 DEF QueuedPumps, Item
      <4>2. pump'[queue[i].pump] = pump[queue[i].pump]
        BY <1>1, <4>1
      <4> QED
        BY <3>3, <4>2 DEF IInv, QueuedPumps, QueuedPump
    <3>4. QueuedPump(1)'
      <4>1. Planned(pump[p])
        BY <3>2 DEF IInv, QueuedPumps, QueuedPump
      <4>2. Planned(pump'[p])
        <5>1. /\ pump'[p].more = pump[p].more /\ pump'[p].each = pump[p].each
              /\ pump'[p].cap = c
          BY DEF IInv, TypeOK, Pump, GoesOn
        <5>2. IF pump'[p].again THEN a ELSE ~a
          BY DEF IInv, TypeOK, Pump, GoesOn
        <5> QED
          BY <1>1, <2>1, <4>1, <5>1, <5>2 DEF Planned
      <4> QED
        BY <1>1, <2>1, <3>2, <4>2, FrontPump DEF QueuedPump
    <3> QED
      BY <3>2, <3>3, <3>4 DEF IInv, QueuedPumps
  <2>2. CASE ~open
    BY <2>2, EmptySeq DEF IInv, ClosedOrDrained, QueuedPumps
  <2> QED
    BY <2>1, <2>2
<1>5. RunningPumpsHaveTimers'
  BY <1>1 DEF IInv, RunningPumpsHaveTimers
<1>6. NoStall' /\ TimerMeansWork' /\ RunningPumpInFront'
  <2>1. CASE open
    <3>1. PumpInFront /\ Head(queue).pump = p
      BY <2>1, FrontPump, TailItems DEF MaySend, IInv, TypeOK
    <3> QED
      BY <1>1, <2>1, <3>1 DEF NoStall, TimerMeansWork, RunningPumpInFront,
                              PumpInFront, IInv
  <2>2. CASE ~open
    BY <2>2 DEF NoStall, TimerMeansWork, RunningPumpInFront
  <2> QED
    BY <2>1, <2>2
<1>7. InOrder' /\ EmptyMeansDelivered'
  <2>3. OnlySubmitted'
    <3>1. pump[p].st # "CLOSED"
      BY MayMeansNotClosed
    <3>2. \A q \in Pumps : pump[q].st = "CLOSED" => pump'[q] = pump[q]
      BY <1>1, <3>1
    <3> QED
      BY <3>2, OnlySubmittedStays DEF IInv, InOrder
  <2>1. CASE open
    <3>1. pump[p].last \in Nat /\ pump[p].last <= submitted /\ submitted \in Nat
      BY <2>1, FrontPump DEF IInv, TypeOK, Pump
    <3> QED
      BY <2>1, <2>3, <3>1 DEF InOrder, EmptyMeansDelivered
  <2>2. CASE ~open
    BY <2>2, <2>3 DEF IInv, InOrder, EmptyMeansDelivered
  <2> QED
    BY <2>1, <2>2
<1> QED
  BY <1>2, <1>3, <1>4, <1>5, <1>6, <1>7 DEF IInv

\* The transfer of p is over.
PumpEnds(p) == /\ pump' \in [Pumps -> Pump]
               /\ \A q \in Pumps : IF q = p THEN pump'[q].st = "CLOSED"
                                  ELSE pump'[q] = pump[q]

LEMMA EndPump ==
  ASSUME pump \in [Pumps -> Pump], NEW p \in Pumps, NEW n \in Nat,
         \/ pump' = [pump EXCEPT ![p].st = "CLOSED", ![p].timer = FALSE]
         \/ pump' = [pump EXCEPT ![p].st = "CLOSED", ![p].next = n,
                                 ![p].timer = FALSE]
  PROVE  PumpEnds(p)
<1>1. pump[p] \in Pump
  OBVIOUS
<1>2. /\ [pump[p] EXCEPT !.st = "CLOSED", !.timer = FALSE] \in Pump
      /\ [pump[p] EXCEPT !.st = "CLOSED", !.next = n, !.timer = FALSE] \in Pump
  BY <1>1 DEF Pump
<1>3. \/ pump' = [pump EXCEPT ![p] =
                   [pump[p] EXCEPT !.st = "CLOSED", !.timer = FALSE]]
      \/ pump' = [pump EXCEPT ![p] =
                   [pump[p] EXCEPT !.st = "CLOSED", !.next = n,
                                   !.timer = FALSE]]
  OBVIOUS
<1>4. pump'[p].st = "CLOSED" /\ \A q \in Pumps : q # p => pump'[q] = pump[q]
  BY DEF Pump
<1> QED
  BY <1>2, <1>3, <1>4 DEF PumpEnds

LEMMA PumpEndsOnlySubmitted ==
  ASSUME IInv, NEW p \in Pumps, MaySend(p), PumpEnds(p), exact' = exact
  PROVE  OnlySubmitted'
<1>1. pump[p].st # "CLOSED"
  BY MayMeansNotClosed
<1>2. \A q \in Pumps : pump[q].st = "CLOSED" => pump'[q] = pump[q]
  BY <1>1 DEF PumpEnds
<1> QED
  BY <1>2, OnlySubmittedStays DEF IInv, InOrder

LEMMA PumpErrorInv ==
  ASSUME IInv, NEW p \in Pumps, MaySend(p), PumpEnds(p), FireError,
         failed' \in BOOLEAN, exact' = exact,
         submitted' = submitted, sent' = sent, ordered' = ordered
  PROVE  IInv'
<1>1. \A q \in Pumps : pump'[q].st = "RUNNING" => pump'[q].timer
  BY DEF PumpEnds, IInv, RunningPumpsHaveTimers
<1>2. OnlySubmitted' /\ exact' \in BOOLEAN
  BY PumpEndsOnlySubmitted DEF IInv, TypeOK
<1> QED
  BY <1>1, <1>2, ClosedInv DEF FireError, PumpEnds

LEMMA SendDataInv ==
  ASSUME IInv, NEW p \in Pumps, NEW armed \in BOOLEAN, MaySend(p),
         armed => timer, SendData(p, armed)
  PROVE  IInv'
<1>0. /\ pump \in [Pumps -> Pump] /\ pump[p] \in Pump
      /\ sent \in Nat /\ submitted \in Nat
      /\ ordered = TRUE /\ failed \in BOOLEAN
      /\ pump[p].next \in Nat /\ pump[p].last \in Nat /\ pump[p].more \in Nat
      /\ pump[p].each \in Nat /\ pump[p].cap \in Nat /\ exact \in BOOLEAN
      /\ pump[p].limited \in BOOLEAN /\ pump[p].again \in BOOLEAN
  BY DEF IInv, TypeOK, InOrder, Pump
<1>1. armed => open /\ queue # <<>>
  BY DEF IInv, TimerMeansWork
<1>2. ASSUME open
      PROVE  /\ pump[p].next = sent + 1 /\ pump[p].last = queue[1].to
             /\ queue # <<>> /\ PumpInFront /\ queue[1].pump = p
             /\ pump[p].next <= pump[p].last + 1
             /\ pump[p].limited => pump[p].next <= pump[p].last
             /\ Planned(pump[p])
  <2>1. /\ pump[p].next = sent + 1 /\ pump[p].last = queue[1].to
        /\ queue # <<>> /\ PumpInFront /\ queue[1].pump = p
        /\ Len(queue) \in Nat \ {0}
    BY <1>2, FrontPump DEF MaySend
  <2>2. QueuedPump(1)
    BY <2>1, NoPumpAssumption DEF IInv, QueuedPumps
  <2> QED
    BY <2>1, <2>2 DEF QueuedPump
<1>3. ~open => ~PumpInFront
  BY DEF IInv, ClosedOrDrained, PumpInFront
<1>4. CASE SendSome(p, armed)
  <2>1. PICK j \in Offered(p) :
          /\ pump[p].limited => j < pump[p].last
          /\ Sends(p, j)
          /\ \E cap \in Caps(p, j - pump[p].next + 1, pump[p].last - j) :
               GoesOn(p, j + 1, cap, FALSE)
    BY <1>4 DEF SendSome, GoesOn
  <2>2. PICK c \in Caps(p, j - pump[p].next + 1, pump[p].last - j) :
          GoesOn(p, j + 1, c, FALSE)
    BY <2>1
  <2>3. /\ j \in Nat /\ j + 1 \in Nat /\ pump[p].next <= j
        /\ j <= pump[p].last + pump[p].more
    BY <1>0, <2>1 DEF Offered, Least
  <2>4. c \in Nat /\ (pump[p].limited => c <= pump[p].last - (j + 1) + 1)
    <3>1. j - pump[p].next + 1 \in Nat /\ pump[p].last - j \in Int
      BY <1>0, <2>3
    <3> DEFINE n == j - pump[p].next + 1
    <3>2. n \div 3 \in Nat
      BY <3>1
    <3>3. c \in 1 .. IF pump[p].limited THEN Least(n + n \div 3, pump[p].last - j)
                     ELSE n + n \div 3
      BY <2>2 DEF Caps
    <3>4. n + n \div 3 \in Nat
      BY <3>1, <3>2
    <3> DEFINE m == n + n \div 3
               rest == pump[p].last - j
    <3>5. rest = pump[p].last - (j + 1) + 1
      BY <1>0, <2>3
    <3>6. c \in 1 .. IF pump[p].limited THEN Least(m, rest) ELSE m
      BY <3>3
    <3>7. m \in Nat /\ rest \in Int
      BY <3>1, <3>4
    <3> HIDE DEF n, m, rest
    <3>8. c \in Nat /\ (pump[p].limited => c <= rest)
      BY <3>6, <3>7 DEF Least
    <3> QED
      BY <3>5, <3>8
  <2>5. ASSUME open
        PROVE  j <= pump[p].last /\ (pump[p].limited => j + 1 <= pump[p].last)
    <3>1. Planned(pump[p])
      BY <1>2, <2>5
    <3> QED
      BY <1>0, <2>1, <2>3, <3>1 DEF Planned
  <2>6. /\ sent' = IF open THEN (j + 1) - 1 ELSE sent
        /\ ordered' = TRUE /\ submitted' = submitted /\ failed' = failed
        /\ exact' = exact
    <3>1. CASE open
      <4>1. sent' = j /\ submitted' = submitted /\ failed' = failed
        BY <2>1, <2>5, <3>1 DEF Sends, Took, Least
      <4>2. pump[p].next = sent + 1 /\ Took(pump[p].next, j, pump[p].last)
        BY <1>2, <2>1, <3>1 DEF Sends
      <4>3. ordered' = TRUE
        BY <1>0, <4>2, Zenon DEF Took
      <4>4. exact' = exact
        <5>1. exact' = (exact /\ j <= pump[p].last) /\ exact \in BOOLEAN
          BY <1>0, <4>2 DEF Took
        <5> QED
          BY <2>5, <3>1, <5>1
      <4> QED
        BY <2>3, <3>1, <4>1, <4>3, <4>4
    <3>2. CASE ~open
      BY <1>0, <2>1, <3>2 DEF stream, Sends
    <3> QED
      BY <3>1, <3>2
  <2>7. sent' \in Nat
    BY <1>0, <2>3, <2>6
  <2>8. /\ timer' = armed /\ event' = "some"
        /\ UNCHANGED <<open, running, queue>>
    BY <1>4 DEF SendSome
  <2>9. open => /\ j + 1 <= pump[p].last + 1
                /\ pump[p].limited => j + 1 <= pump[p].last
                /\ pump[p].limited => IF FALSE THEN c = pump[p].each
                                      ELSE c <= pump[p].last - (j + 1) + 1
    BY <1>0, <2>3, <2>4, <2>5
  <2> DEFINE k == j + 1
  <2>10. k \in Nat /\ GoesOn(p, k, c, FALSE)
    BY <2>2, <2>3
  <2>11. /\ open => /\ k <= pump[p].last + 1
                    /\ pump[p].limited => k <= pump[p].last
                    /\ pump[p].limited => IF FALSE THEN c = pump[p].each
                                          ELSE c <= pump[p].last - k + 1
         /\ sent' = IF open THEN k - 1 ELSE sent
    BY <2>6, <2>9
  <2> HIDE DEF k
  <2>12. /\ open' = open /\ running' = running /\ queue' = queue
         /\ timer' \in BOOLEAN /\ (timer' => open /\ queue # <<>>)
         /\ event' \in {"none", "some"} /\ FALSE \in BOOLEAN
    BY <1>1, <2>8
  <2> QED
    BY <2>4, <2>6, <2>7, <2>10, <2>11, <2>12, PumpGoesOn
<1>5. CASE SendAgain(p, armed)
  <2>1. /\ timer' = armed /\ event' = "none"
        /\ open' = open /\ running' = running /\ queue' = queue
        /\ submitted' = submitted /\ sent' = sent /\ ordered' = ordered
        /\ failed' = failed /\ exact' = exact
        /\ pump' = [pump EXCEPT ![p].st = "RUNNING", ![p].timer = TRUE,
                                ![p].cap = pump[p].each, ![p].again = TRUE]
    BY <1>5 DEF SendAgain, stream
  <2>2. GoesOn(p, pump[p].next, pump[p].each, TRUE)
    BY <1>0, <2>1 DEF Pump, GoesOn
  <2>3. sent' = IF open THEN pump[p].next - 1 ELSE sent
    BY <1>0, <1>2, <2>1
  <2>4. /\ timer' \in BOOLEAN /\ (timer' => open /\ queue # <<>>)
        /\ sent' \in Nat /\ ordered' = TRUE /\ event' \in {"none", "some"}
        /\ TRUE \in BOOLEAN
    BY <1>0, <1>1, <2>1
  <2>5. open => /\ pump[p].next <= pump[p].last + 1
                /\ pump[p].limited => pump[p].next <= pump[p].last
                /\ pump[p].limited => IF TRUE THEN pump[p].each = pump[p].each
                                      ELSE pump[p].each <= pump[p].last - pump[p].next + 1
    BY <1>2
  <2> QED
    BY <1>0, <2>1, <2>2, <2>3, <2>4, <2>5, PumpGoesOn
<1>6. CASE SendLast(p)
  <2>1. PICK j \in Offered(p) :
          /\ j >= pump[p].last /\ Sends(p, j)
          /\ pump' = [pump EXCEPT ![p].st = "CLOSED", ![p].next = j + 1,
                                  ![p].timer = FALSE]
    BY <1>6 DEF SendLast
  <2>2. /\ j \in Nat /\ j + 1 \in Nat /\ pump[p].next <= j
        /\ j <= pump[p].last + pump[p].more
        /\ j <= pump[p].next + pump[p].cap - 1
    BY <1>0, <2>1 DEF Offered, Least
  <2>3. PumpEnds(p)
    BY <1>0, <2>1, <2>2, EndPump
  <2>4. CASE open
    <3>1. PopFront /\ Took(pump[p].next, j, pump[p].last) /\ pump[p].limited
      BY <1>2, <1>6, <2>1, <2>4 DEF SendLast, TransportEnd, Sends
    <3>2. /\ sent' = queue[1].to /\ submitted' = submitted /\ failed' = failed
          /\ exact' = (exact /\ j <= pump[p].last)
      <4>1. Least(j, pump[p].last) = pump[p].last
        BY <1>0, <2>1, <2>2 DEF Least
      <4> QED
        BY <1>2, <2>4, <3>1, <4>1 DEF Took
    <3>3. ordered' = TRUE
      BY <1>0, <1>2, <2>4, <3>1, Zenon DEF Took
    <3>4. OnlySubmitted' /\ exact' \in BOOLEAN
      <4>1. CASE j <= pump[p].last
        <5>1. exact' = exact
          BY <1>0, <3>2, <4>1
        <5> QED
          BY <1>0, <2>3, <5>1, PumpEndsOnlySubmitted
      <4>2. CASE j > pump[p].last
        <5>1. /\ pump'[p].st = "CLOSED" /\ pump'[p].next = j + 1
              /\ pump'[p].last = pump[p].last /\ pump'[p].more = pump[p].more
              /\ pump'[p].each = pump[p].each
              /\ pump'[p].limited = pump[p].limited
              /\ pump'[p].again = pump[p].again
          BY <1>0, <2>1 DEF Pump
        <5>2. Planned(pump[p]) /\ pump[p].next <= pump[p].last
          BY <1>2, <2>4, <3>1
        <5>3. pump[p].again /\ pump[p].cap = pump[p].each
          BY <1>0, <2>2, <3>1, <4>2, <5>2 DEF Planned
        <5>4. /\ j \in pump[p].last + 1 .. pump[p].last + pump[p].more
              /\ j < pump[p].last + pump[p].each
          BY <1>0, <2>2, <4>2, <5>2, <5>3
        <5>5. (j + 1) - 1 = j
          BY <2>2
        <5>6. pump'[p].limited /\ pump'[p].again
          BY <3>1, <5>1, <5>3, Zenon
        <5>7. pump'[p].next - 1 = j
          BY <5>1, <5>5
        <5>8. Overshot(p)'
          BY <5>1, <5>4, <5>6, <5>7 DEF Overshot
        <5>9. exact' \in BOOLEAN
          BY <3>2
        <5> QED
          BY <5>8, <5>9 DEF OnlySubmitted
      <4> QED
        BY <1>0, <2>2, <4>1, <4>2
    <3> QED
      BY <1>0, <1>2, <2>3, <2>4, <3>1, <3>2, <3>3, <3>4, PopFrontInv DEF PumpEnds
  <2>5. CASE ~open
    <3>1. FireError /\ UNCHANGED stream
      BY <1>3, <1>6, <2>1, <2>5 DEF SendLast, TransportEnd, Sends
    <3> QED
      BY <1>0, <2>3, <3>1, PumpErrorInv DEF stream
  <2> QED
    BY <2>4, <2>5
<1>7. CASE SendEof(p)
  <2>1. PumpEnds(p) /\ UNCHANGED stream
    BY <1>0, <1>7, EndPump DEF SendEof
  <2>2. CASE open
    <3>1. PopFront
      BY <1>2, <1>7, <2>2 DEF SendEof, TransportEnd
    <3>2. sent' = queue[1].to /\ submitted' = submitted /\ failed' = failed
      BY <1>0, <1>2, <1>7, <2>1, <2>2 DEF stream, SendEof
    <3>3. ordered' = TRUE /\ exact' = exact
      BY <1>0, <2>1 DEF stream
    <3>4. OnlySubmitted' /\ exact' \in BOOLEAN
      BY <1>0, <2>1, <3>3, PumpEndsOnlySubmitted
    <3> QED
      BY <1>0, <1>2, <2>1, <2>2, <3>1, <3>2, <3>3, <3>4, PopFrontInv DEF PumpEnds
  <2>3. CASE ~open
    <3>1. FireError
      BY <1>3, <1>7, <2>3 DEF SendEof, TransportEnd
    <3> QED
      BY <1>0, <2>1, <3>1, PumpErrorInv DEF stream
  <2> QED
    BY <2>2, <2>3
<1>8. CASE SendFails(p)
  <2>1. PumpEnds(p)
    BY <1>0, <1>8, EndPump DEF SendFails
  <2> QED
    BY <1>8, <2>1, PumpErrorInv DEF SendFails
<1> QED
  BY <1>4, <1>5, <1>6, <1>7, <1>8 DEF SendData

-----------------------------------------------------------------------------
(* The owner's calls                                                       *)

LEMMA PushInv ==
  ASSUME IInv, open, NEW q \in Pumps \cup {NoPump}, NEW n \in Nat \ {0},
         Push(q, n), pump' \in [Pumps -> Pump],
         \A r \in Pumps :
           IF r = q
           THEN /\ pump[r].st = "ABSENT" /\ pump'[r].st = "NEW"
                /\ pump'[r].next = submitted + 1
                /\ pump'[r].last = submitted + n /\ Planned(pump'[r])
           ELSE pump'[r] = pump[r]
  PROVE  IInv'
<1> DEFINE e == [pump |-> q, from |-> submitted + 1, to |-> submitted + n]
           m == Len(queue)
<1>1. /\ submitted \in Nat /\ queue \in Seq(Item) /\ e \in Item
      /\ e.pump = q /\ e.from = submitted + 1 /\ e.to = submitted + n
  BY DEF IInv, TypeOK, Item
<1>2. /\ queue' = Append(queue, e) /\ submitted' = submitted + n
      /\ event' = "none" /\ open' = open /\ running' = running
      /\ sent' = sent /\ ordered' = ordered /\ failed' = failed
      /\ exact' = exact
  BY DEF Push
<1> HIDE DEF e
<1>3. /\ queue' \in Seq(Item) /\ queue' # <<>> /\ m \in Nat
      /\ Len(queue') = m + 1 /\ queue'[m + 1] = e
      /\ \A i \in 1 .. m : queue'[i] = queue[i]
  BY <1>1, <1>2, AppendItem
<1>4. timer' = (timer \/ running)
  BY DEF Push
<1>5. \A i \in 1 .. m : queue[i] \in Item
  BY <1>1, ElementOfSeq
<1>6. queue = <<>> <=> m = 0
  BY <1>1, EmptySeq
<1> HIDE DEF m
<1>7. TypeOK'
  <2>1. timer' \in BOOLEAN
    BY <1>4 DEF IInv, TypeOK
  <2> QED
    BY <1>1, <1>2, <1>3, <2>1 DEF IInv, TypeOK
<1>8. ClosedOrDrained'
  BY <1>2, <1>3 DEF ClosedOrDrained
<1>9. Contiguous'
  <2> SUFFICES ASSUME NEW i \in 1 .. m + 1
               PROVE  /\ 0 < queue'[i].from /\ queue'[i].from <= queue'[i].to
                      /\ queue'[i].to <= submitted'
                      /\ IF i = m + 1 THEN queue'[i].to = submitted'
                         ELSE queue'[i + 1].from = queue'[i].to + 1
    BY <1>3 DEF Contiguous
  <2>1. CASE i = m + 1
    BY <1>1, <1>2, <1>3, <2>1
  <2>2. CASE i \in 1 .. m
    <3>1. /\ queue[i].from \in Nat /\ queue[i].to \in Nat
          /\ 0 < queue[i].from /\ queue[i].from <= queue[i].to
          /\ queue[i].to <= submitted
          /\ IF i = m THEN queue[i].to = submitted
             ELSE queue[i + 1].from = queue[i].to + 1
      BY <1>5, <2>2 DEF IInv, Contiguous, m, Item
    <3>2. queue'[i] = queue[i] /\ queue[i].to <= submitted'
      BY <1>1, <1>2, <1>3, <2>2, <3>1
    <3>3. queue'[i + 1].from = queue'[i].to + 1
      <4>1. CASE i = m
        BY <1>1, <1>3, <3>1, <3>2, <4>1
      <4>2. CASE i # m
        <5>1. i + 1 \in 1 .. m
          BY <1>3, <2>2, <4>2
        <5>2. queue'[i + 1] = queue[i + 1]
          BY <1>3, <5>1
        <5> QED
          BY <3>1, <3>2, <4>2, <5>2
      <4> QED
        BY <4>1, <4>2
    <3>4. i # m + 1
      BY <1>3, <2>2
    <3> QED
      BY <3>1, <3>2, <3>3, <3>4
  <2> QED
    BY <1>3, <2>1, <2>2
<1>10. FrontIsNext'
  BY <1>1, <1>2, <1>3, <1>6 DEF IInv, FrontIsNext, ClosedOrDrained
<1>11. QueuedPumps'
  <2>1. ASSUME NEW i \in 1 .. m, queue[i].pump # NoPump
        PROVE  /\ QueuedPump(i) /\ queue[i].pump # q
               /\ pump'[queue[i].pump] = pump[queue[i].pump]
    <3>1. QueuedPump(i) /\ queue[i].pump \in Pumps
      BY <1>5, <2>1 DEF IInv, QueuedPumps, m, Item
    <3> QED
      BY <3>1 DEF QueuedPump
  <2>2. ASSUME NEW i \in 1 .. m + 1, queue'[i].pump # NoPump
        PROVE  QueuedPump(i)'
    <3>1. CASE i = m + 1
      <4>1. q \in Pumps /\ queue'[i].pump = q
        BY <1>1, <1>3, <2>2, <3>1
      <4>2. /\ pump'[q].st = "NEW" /\ pump'[q].next = submitted + 1
            /\ pump'[q].last = submitted + n /\ Planned(pump'[q])
        BY <4>1
      <4>3. i = 1 => sent = submitted
        BY <1>3, <1>6, <3>1 DEF IInv, ClosedOrDrained
      <4> QED
        BY <1>1, <1>2, <1>3, <3>1, <4>1, <4>2, <4>3 DEF QueuedPump
    <3>2. CASE i \in 1 .. m
      <4>1. queue'[i] = queue[i] /\ queue[i].pump # NoPump
        BY <1>3, <2>2, <3>2
      <4>2. QueuedPump(i) /\ pump'[queue[i].pump] = pump[queue[i].pump]
        BY <2>1, <3>2, <4>1
      <4> QED
        BY <1>2, <1>3, <3>2, <4>1, <4>2 DEF QueuedPump
    <3> QED
      BY <1>3, <3>1, <3>2
  <2>3. ASSUME NEW i \in 1 .. m + 1, NEW j \in 1 .. m + 1,
               queue'[i].pump = queue'[j].pump, queue'[i].pump # NoPump
        PROVE  i = j
    <3>1. CASE i \in 1 .. m /\ j \in 1 .. m
      BY <1>3, <2>3, <3>1 DEF IInv, QueuedPumps, m
    <3>2. CASE i = m + 1 \/ j = m + 1
      BY <1>1, <1>3, <2>1, <2>3, <3>2
    <3> QED
      BY <1>3, <3>1, <3>2
  <2> QED
    BY <1>3, <2>2, <2>3 DEF QueuedPumps
<1>12. RunningPumpsHaveTimers'
  BY DEF IInv, RunningPumpsHaveTimers
<1>13. \A p \in Pumps : pump'[p].st = "RUNNING" =>
         pump[p].st = "RUNNING" /\ pump'[p] = pump[p]
  OBVIOUS
<1>14. queue # <<>> => Head(queue') = Head(queue)
  <2> HAVE queue # <<>>
  <2>1. Head(queue) = queue[1] /\ Head(queue') = queue'[1]
    BY <1>1, <1>3, TailItems
  <2>2. queue'[1] = queue[1]
    BY <1>3, <1>6
  <2> QED
    BY <2>1, <2>2
<1>15. NoStall' /\ TimerMeansWork' /\ RunningPumpInFront'
  <2>1. RunningPumpInFront'
    BY <1>2, <1>3, <1>13, <1>14 DEF IInv, RunningPumpInFront, PumpInFront
  <2>2. TimerMeansWork'
    BY <1>2, <1>3 DEF TimerMeansWork
  <2>3. NoStall'
    BY <1>2, <1>4 DEF NoStall
  <2> QED
    BY <2>1, <2>2, <2>3
<1>16. InOrder' /\ EmptyMeansDelivered'
  <2>1. OnlySubmitted'
    BY <1>2, OnlySubmittedStays DEF IInv, InOrder
  <2> QED
    BY <1>1, <1>2, <2>1 DEF IInv, InOrder, EmptyMeansDelivered, TypeOK
<1> QED
  BY <1>7, <1>8, <1>9, <1>10, <1>11, <1>12, <1>15, <1>16 DEF IInv

\* Only isRunning and the timer change, as start() and stop() do.
LEMMA StartStopInv ==
  ASSUME IInv, UNCHANGED <<open, queue, pump, stream>>,
         running' \in BOOLEAN, timer' \in BOOLEAN,
         timer' => open /\ queue # <<>>, event' = "none",
         running' => timer' \/ queue = <<>>
  PROVE  IInv'
<1>0. /\ open' = open /\ queue' = queue /\ pump' = pump
      /\ submitted' = submitted /\ sent' = sent /\ ordered' = ordered
      /\ exact' = exact /\ failed' = failed
  BY DEF stream
<1>1. TypeOK'
  BY <1>0 DEF IInv, TypeOK
<1>2. ClosedOrDrained' /\ Contiguous' /\ FrontIsNext' /\ RunningPumpsHaveTimers'
  BY <1>0 DEF IInv, ClosedOrDrained, Contiguous, FrontIsNext, RunningPumpsHaveTimers
<1>3. QueuedPumps'
  BY <1>0 DEF IInv, QueuedPumps, QueuedPump
<1>4. NoStall' /\ TimerMeansWork'
  BY <1>0 DEF IInv, NoStall, TimerMeansWork, PumpInFront
<1>5. InOrder' /\ EmptyMeansDelivered' /\ RunningPumpInFront'
  BY <1>0, OnlySubmittedStays
     DEF IInv, InOrder, EmptyMeansDelivered, RunningPumpInFront, PumpInFront
<1> QED
  BY <1>1, <1>2, <1>3, <1>4, <1>5 DEF IInv

LEMMA OwnerInv ==
  ASSUME IInv, Owner
  PROVE  IInv'
<1>0. /\ open \in BOOLEAN /\ running \in BOOLEAN /\ timer \in BOOLEAN
      /\ failed \in BOOLEAN /\ pump \in [Pumps -> Pump] /\ submitted \in Nat
  BY DEF IInv, TypeOK
<1>1. ASSUME NEW n \in 1 .. MaxBlock, Write(n)
      PROVE  IInv'
  <2>1. n \in Nat \ {0}
    BY BoundsAssumption
  <2>2. open /\ Push(NoPump, n) /\ pump' = pump
    BY <1>1 DEF Write
  <2>3. \A r \in Pumps : r # NoPump
    BY NoPumpAssumption
  <2> QED
    BY <1>0, <2>1, <2>2, <2>3, PushInv
<1>2. ASSUME NEW p \in Pumps, NEW n \in 1 .. MaxBlock, NEW each \in 1 .. MaxBlock,
             NEW lim \in BOOLEAN, NEW more \in 0 .. MaxMore,
             Transport(p, n, lim, more, each)
      PROVE  IInv'
  <2>1. n \in Nat \ {0} /\ each \in Nat /\ more \in Nat
    BY BoundsAssumption
  <2> DEFINE e == [st |-> "NEW", limited |-> lim, next |-> submitted + 1,
                   last |-> submitted + n, more |-> more, each |-> each,
                   cap |-> each, again |-> FALSE, timer |-> FALSE]
  <2>2. /\ open /\ Push(p, n) /\ pump[p].st = "ABSENT" /\ pump' = [pump EXCEPT ![p] = e]
        /\ each <= n /\ (more > 0 => lim)
    BY <1>2 DEF Transport
  <2>3. e \in Pump
    BY <1>0, <2>1 DEF Pump
  <2>4. /\ e.st = "NEW" /\ e.next = submitted + 1 /\ e.last = submitted + n
        /\ Planned(e)
    <3>1. lim \/ more = 0
      BY <2>1, <2>2
    <3>2. each <= (submitted + n) - (submitted + 1) + 1
      BY <1>0, <2>1, <2>2
    <3> QED
      BY <3>1, <3>2 DEF Planned
  <2> HIDE DEF e
  <2>5. pump' \in [Pumps -> Pump]
    BY <1>0, <2>2, <2>3
  <2>6. pump'[p] = e /\ \A r \in Pumps : r # p => pump'[r] = pump[r]
    BY <1>0, <2>2
  <2> QED
    BY <2>1, <2>2, <2>4, <2>5, <2>6, PushInv
<1>3. CASE Start
  <2>1. ~running /\ running' = TRUE /\ event' = "none"
        /\ UNCHANGED <<open, queue, pump, stream>>
    BY <1>3 DEF Start
  <2>2. timer' = (timer \/ queue # <<>>)
    BY <1>3 DEF Start
  <2>3. timer' \in BOOLEAN /\ (running' => timer' \/ queue = <<>>)
    BY <1>0, <2>2
  <2>4. timer' => open /\ queue # <<>>
    <3>1. (timer => open /\ queue # <<>>) /\ (queue # <<>> => open)
      BY DEF IInv, TimerMeansWork, ClosedOrDrained
    <3> QED
      BY <2>2, <3>1, Zenon
  <2>5. running' \in BOOLEAN
    BY <2>1
  <2> QED
    BY <2>1, <2>3, <2>4, <2>5, StartStopInv
<1>4. CASE Stop
  BY <1>4, StartStopInv DEF Stop
<1>5. CASE Close
  <2>1. Closed /\ event' = "none" /\ pump' = pump /\ UNCHANGED stream
    BY <1>5 DEF Close
  <2>2. OnlySubmitted'
    BY <2>1, OnlySubmittedStays DEF IInv, InOrder, stream
  <2> QED
    BY <1>0, <2>1, <2>2, ClosedInv DEF stream, IInv, TypeOK, RunningPumpsHaveTimers
<1>6. CASE SetFD
  <2>1. /\ open' = TRUE /\ submitted' = 0 /\ sent' = 0 /\ ordered' = TRUE
        /\ exact' = TRUE /\ failed' = FALSE /\ event' = "none" /\ running' = running
        /\ queue' = queue /\ timer' = timer /\ ~open
        /\ pump' = [p \in Pumps |-> AbsentPump]
    BY <1>6 DEF SetFD
  <2>2. queue = <<>> /\ timer = FALSE
    BY <1>0, <2>1 DEF IInv, ClosedOrDrained, TimerMeansWork
  <2>3. pump' \in [Pumps -> Pump] /\ \A p \in Pumps : pump'[p].st = "ABSENT"
    BY <2>1 DEF AbsentPump, Pump
  <2>4. TypeOK'
    BY <1>0, <2>1, <2>2, <2>3, EmptySeq DEF TypeOK
  <2>5. ClosedOrDrained' /\ Contiguous' /\ FrontIsNext' /\ QueuedPumps'
    BY <2>1, <2>2, EmptySeq DEF ClosedOrDrained, Contiguous, FrontIsNext, QueuedPumps
  <2>6. /\ RunningPumpsHaveTimers' /\ NoStall' /\ TimerMeansWork'
        /\ EmptyMeansDelivered' /\ RunningPumpInFront' /\ InOrder'
    BY <2>1, <2>2, <2>3 DEF RunningPumpsHaveTimers, NoStall, TimerMeansWork,
                            EmptyMeansDelivered, RunningPumpInFront, InOrder,
                            OnlySubmitted
  <2> QED
    BY <2>4, <2>5, <2>6 DEF IInv
<1> QED
  BY <1>1, <1>2, <1>3, <1>4, <1>5, <1>6 DEF Owner

-----------------------------------------------------------------------------
(* The callbacks                                                           *)

LEMMA WritePartInv ==
  ASSUME IInv, WritePart
  PROVE  IInv'
<1>0. /\ timer /\ open /\ DataInFront /\ queue \in Seq(Item) /\ queue # <<>>
      /\ sent \in Nat /\ submitted \in Nat /\ ordered = TRUE
      /\ exact \in BOOLEAN
  BY DEF IInv, WritePart, TimerMeansWork, TypeOK, InOrder, DataInFront
<1>1. /\ Len(queue) \in Nat \ {0} /\ Head(queue) = queue[1] /\ queue[1] \in Item
      /\ queue[1].pump = NoPump /\ 1 \in 1 .. Len(queue)
  BY <1>0, TailItems DEF DataInFront
<1>2. PICK j \in queue[1].from .. queue[1].to - 1 :
        /\ Took(queue[1].from, j, queue[1].to)
        /\ queue' = [queue EXCEPT ![1].from = j + 1]
  BY <1>1 DEF WritePart
<1>3. /\ queue[1].from \in Nat /\ queue[1].to \in Nat /\ queue[1].from = sent + 1
      /\ queue[1].to <= submitted
  <2>1. queue[1].from \in Nat /\ queue[1].to \in Nat
    BY <1>1 DEF Item
  <2>2. FrontIsNext /\ Contiguous
    BY DEF IInv
  <2> QED
    BY <1>0, <1>1, <2>1, <2>2 DEF FrontIsNext, Contiguous
<1>4. j \in Nat /\ j + 1 \in Nat /\ j < queue[1].to /\ 0 < j
  <2>1. j \in Int /\ queue[1].from <= j /\ j <= queue[1].to - 1
    BY <1>2, <1>3
  <2> QED
    BY <1>0, <1>3, <2>1
<1>5. /\ queue' \in Seq(Item) /\ queue' # <<>> /\ Len(queue') = Len(queue)
      /\ queue'[1] = [queue[1] EXCEPT !.from = j + 1]
      /\ \A i \in 2 .. Len(queue) : queue'[i] = queue[i]
  <2>1. queue' = [queue EXCEPT ![1].from = j + 1]
    BY <1>2
  <2> DEFINE k == j + 1
  <2>2. queue' = [queue EXCEPT ![1].from = k] /\ k \in Nat
    BY <1>4, <2>1
  <2>3. queue \in Seq(Item) /\ queue # <<>>
    BY <1>0
  <2> HIDE DEF k
  <2>4. /\ queue' \in Seq(Item) /\ queue' # <<>> /\ Len(queue') = Len(queue)
        /\ queue'[1] = [queue[1] EXCEPT !.from = k]
        /\ \A i \in 2 .. Len(queue) : queue'[i] = queue[i]
    BY <2>2, <2>3, TrimFront
  <2> QED
    BY <2>4 DEF k
<1>6. queue'[1].from = j + 1 /\ queue'[1].to = queue[1].to /\ queue'[1].pump = NoPump
  BY <1>1, <1>5 DEF Item
<1>7. /\ sent' = j /\ submitted' = submitted /\ failed' = failed
      /\ exact' = exact
  <2>1. j <= queue[1].to /\ Least(j, queue[1].to) = j
    BY <1>3, <1>4 DEF Least
  <2>2. exact' = (exact /\ j <= queue[1].to)
    BY <1>2 DEF Took
  <2> QED
    BY <1>0, <1>2, <2>1, <2>2 DEF Took
<1>8. ordered' = TRUE
  BY <1>0, <1>2, <1>3, Zenon DEF Took
<1>9. timer' = TRUE /\ event' = "some" /\ open' = open /\ running' = running
      /\ pump' = pump
  BY DEF WritePart
<1>10. TypeOK'
  BY <1>0, <1>4, <1>5, <1>7, <1>8, <1>9 DEF IInv, TypeOK
<1>11. ClosedOrDrained' /\ FrontIsNext'
  BY <1>0, <1>5, <1>6, <1>7, <1>9 DEF ClosedOrDrained, FrontIsNext
<1>18. \A i \in 1 .. Len(queue) :
          /\ queue'[i].to = queue[i].to /\ queue'[i].pump = queue[i].pump
          /\ i # 1 => queue'[i] = queue[i]
  <2> TAKE i \in 1 .. Len(queue)
  <2>1. CASE i = 1
    BY <1>1, <1>6, <2>1
  <2>2. CASE i # 1
    <3>1. i \in 2 .. Len(queue)
      BY <1>1, <2>2
    <3> QED
      BY <1>5, <2>2, <3>1
  <2> QED
    BY <2>1, <2>2
<1>12. Contiguous'
  <2>2. ASSUME NEW i \in 1 .. Len(queue)
        PROVE  /\ 0 < queue'[i].from /\ queue'[i].from <= queue'[i].to
               /\ queue'[i].to <= submitted'
               /\ IF i = Len(queue) THEN queue'[i].to = submitted'
                  ELSE queue'[i + 1].from = queue'[i].to + 1
    <3>1. IF i = Len(queue) THEN queue[i].to = submitted
          ELSE i + 1 \in 2 .. Len(queue) /\ queue[i + 1].from = queue[i].to + 1
      BY <1>1 DEF IInv, Contiguous
    <3>2. /\ 0 < queue[i].from /\ queue[i].from <= queue[i].to
          /\ queue[i].to <= submitted
      BY DEF IInv, Contiguous
    <3>3. IF i = Len(queue) THEN queue'[i].to = submitted'
          ELSE queue'[i + 1].from = queue'[i].to + 1
      BY <1>5, <1>7, <1>18, <3>1
    <3>4. 0 < queue'[i].from /\ queue'[i].from <= queue'[i].to
      <4>1. CASE i = 1
        BY <1>3, <1>4, <1>6, <4>1
      <4>2. CASE i # 1
        BY <1>18, <3>2, <4>2
      <4> QED
        BY <4>1, <4>2
    <3> QED
      BY <1>7, <1>18, <3>2, <3>3, <3>4
  <2> QED
    BY <1>5, <2>2 DEF Contiguous
<1>13. QueuedPumps'
  <2>2. ASSUME NEW i \in 1 .. Len(queue), queue'[i].pump # NoPump
        PROVE  QueuedPump(i)'
    <3>1. i # 1 /\ QueuedPump(i)
      BY <1>6, <1>18, <2>2 DEF IInv, QueuedPumps
    <3> QED
      BY <1>9, <1>18, <3>1 DEF QueuedPump
  <2> QED
    BY <1>5, <1>18, <2>2 DEF IInv, QueuedPumps
<1>14. RunningPumpsHaveTimers'
  BY <1>9 DEF IInv, RunningPumpsHaveTimers
<1>15. NoStall' /\ TimerMeansWork' /\ EmptyMeansDelivered'
  BY <1>0, <1>5, <1>9 DEF NoStall, TimerMeansWork, EmptyMeansDelivered
<1>16. RunningPumpInFront'
  BY <1>0, <1>1, <1>9, NoPumpAssumption
     DEF IInv, RunningPumpInFront, PumpInFront
<1>17. InOrder'
  <2>1. OnlySubmitted'
    BY <1>7, <1>9, OnlySubmittedStays DEF IInv, InOrder
  <2> QED
    BY <1>0, <1>3, <1>4, <1>7, <1>8, <2>1 DEF InOrder
<1> QED
  BY <1>10, <1>11, <1>12, <1>13, <1>14, <1>15, <1>16, <1>17 DEF IInv

LEMMA WriteAllInv ==
  ASSUME IInv, WriteAll
  PROVE  IInv'
<1>0. /\ open /\ queue \in Seq(Item) /\ queue # <<>> /\ pump \in [Pumps -> Pump]
      /\ ordered = TRUE /\ failed \in BOOLEAN /\ exact \in BOOLEAN
  BY DEF IInv, WriteAll, TimerMeansWork, TypeOK, InOrder, DataInFront
<1>1. /\ Len(queue) \in Nat \ {0} /\ Head(queue) = queue[1]
      /\ queue[1].pump = NoPump
  BY <1>0, TailItems DEF WriteAll, DataInFront
<1>2. queue[1].from = sent + 1
  BY <1>0, <1>1 DEF IInv, FrontIsNext
<1>3. /\ sent' = queue[1].to /\ submitted' = submitted /\ failed' = failed
      /\ exact' = exact
  <2>1. queue[1].to \in Nat
    BY <1>0, <1>1, TailItems DEF Item
  <2>2. queue[1].to <= queue[1].to /\ Least(queue[1].to, queue[1].to) = queue[1].to
    BY <2>1 DEF Least
  <2>3. Took(queue[1].from, queue[1].to, queue[1].to)
    BY <1>1 DEF WriteAll
  <2>4. exact' = (exact /\ queue[1].to <= queue[1].to)
    BY <2>3 DEF Took
  <2> QED
    BY <1>0, <2>2, <2>3, <2>4 DEF Took
<1>4. ordered' = TRUE
  BY <1>0, <1>1, <1>2, Zenon DEF WriteAll, Took
<1>5. PopFront /\ pump' = pump
  BY DEF WriteAll
<1>6. \A p \in Pumps : p # queue[1].pump
  BY <1>1, NoPumpAssumption
<1>7. OnlySubmitted' /\ exact' \in BOOLEAN
  BY <1>0, <1>3, <1>5, OnlySubmittedStays DEF IInv, InOrder
<1> QED
  BY <1>0, <1>3, <1>4, <1>5, <1>6, <1>7, PopFrontInv

LEMMA StutterInv ==
  ASSUME IInv, UNCHANGED <<writer, pump, stream>>, event' \in {"none", event}
  PROVE  IInv'
<1>1. /\ open' = open /\ running' = running /\ queue' = queue /\ timer' = timer
      /\ pump' = pump /\ submitted' = submitted /\ sent' = sent
      /\ ordered' = ordered /\ exact' = exact /\ failed' = failed
  BY DEF writer, stream
<1>2. TypeOK'
  BY <1>1 DEF IInv, TypeOK
<1>3. /\ ClosedOrDrained' /\ Contiguous' /\ FrontIsNext'
      /\ RunningPumpsHaveTimers'
  BY <1>1 DEF IInv, ClosedOrDrained, Contiguous, FrontIsNext,
              RunningPumpsHaveTimers
<1>4. QueuedPumps'
  BY <1>1 DEF IInv, QueuedPumps, QueuedPump
<1>5. NoStall' /\ TimerMeansWork' /\ RunningPumpInFront'
  BY <1>1 DEF IInv, NoStall, TimerMeansWork, RunningPumpInFront, PumpInFront
<1>6. InOrder' /\ EmptyMeansDelivered'
  BY <1>1, OnlySubmittedStays DEF IInv, InOrder, EmptyMeansDelivered
<1> QED
  BY <1>2, <1>3, <1>4, <1>5, <1>6 DEF IInv

LEMMA TimerMaySend ==
  ASSUME IInv, NEW p \in Pumps, pump[p].st = "RUNNING"
  PROVE  MaySend(p)
<1>1. CASE open
  <2>1. PumpInFront /\ Head(queue).pump = p
    BY <1>1 DEF IInv, RunningPumpInFront
  <2>2. Head(queue) = queue[1]
    BY <2>1, TailItems DEF IInv, TypeOK, PumpInFront
  <2> QED
    BY <1>1, <2>1, <2>2 DEF MaySend, PumpInFront
<1>2. CASE ~open
  BY <1>2 DEF MaySend
<1> QED
  BY <1>1, <1>2

LEMMA CallbacksInv ==
  ASSUME IInv, Callbacks
  PROVE  IInv'
<1>0. /\ pump \in [Pumps -> Pump] /\ failed \in BOOLEAN /\ timer \in BOOLEAN
      /\ \A p \in Pumps : pump[p].st = "RUNNING" => pump[p].timer
  BY DEF IInv, TypeOK, RunningPumpsHaveTimers
<1>1. CASE WriteAll
  BY <1>1, WriteAllInv
<1>2. CASE WritePart
  BY <1>2, WritePartInv
<1>3. CASE WriteAgain
  BY <1>3, StutterInv DEF WriteAgain
<1>4. CASE WriteFails
  <2>1. /\ FireError /\ failed' = TRUE /\ pump' = pump /\ exact' = exact
        /\ submitted' = submitted /\ sent' = sent /\ ordered' = ordered
    BY <1>4 DEF WriteFails
  <2>2. OnlySubmitted' /\ exact' \in BOOLEAN
    BY <2>1, OnlySubmittedStays DEF IInv, InOrder, TypeOK
  <2> QED
    BY <1>0, <2>1, <2>2, ClosedInv DEF FireError
<1>5. CASE StartPump
  <2> DEFINE p == Head(queue).pump
  <2>1. /\ open /\ timer /\ queue # <<>> /\ Head(queue).pump # NoPump
        /\ SendData(p, FALSE)
    BY <1>5 DEF StartPump, PumpInFront, IInv, TimerMeansWork
  <2>2. Head(queue) = queue[1] /\ queue[1] \in Item
    BY <2>1, TailItems DEF IInv, TypeOK
  <2>3. p \in Pumps /\ MaySend(p)
    BY <2>1, <2>2 DEF Item, MaySend
  <2> HIDE DEF p
  <2> QED
    BY <2>1, <2>3, SendDataInv
<1>6. CASE RestartPump
  <2>1. FireError /\ pump' = pump /\ UNCHANGED stream
    BY <1>6 DEF RestartPump
  <2>2. OnlySubmitted' /\ exact' \in BOOLEAN
    BY <2>1, OnlySubmittedStays DEF IInv, InOrder, TypeOK, stream
  <2> QED
    BY <1>0, <2>1, <2>2, ClosedInv DEF FireError, stream
<1>7. ASSUME NEW p \in Pumps, PumpTimer(p)
      PROVE  IInv'
  <2>1. pump[p].st = "RUNNING" /\ SendData(p, timer)
    BY <1>7 DEF PumpTimer
  <2>2. MaySend(p)
    BY <2>1, TimerMaySend
  <2> QED
    BY <1>0, <2>1, <2>2, SendDataInv
<1> QED
  BY <1>1, <1>2, <1>3, <1>4, <1>5, <1>6, <1>7 DEF Callbacks

-----------------------------------------------------------------------------
(* The theorems                                                            *)

LEMMA InitInv == Init => IInv
<1> SUFFICES ASSUME Init PROVE IInv
  OBVIOUS
<1>1. /\ open = TRUE /\ running = FALSE /\ queue = <<>> /\ timer = FALSE
      /\ pump = [p \in Pumps |-> AbsentPump] /\ submitted = 0 /\ sent = 0
      /\ ordered = TRUE /\ exact = TRUE /\ failed = FALSE /\ event = "none"
  BY DEF Init
<1>2. pump \in [Pumps -> Pump] /\ \A p \in Pumps : pump[p].st = "ABSENT"
  BY <1>1 DEF AbsentPump, Pump
<1>3. TypeOK
  BY <1>1, <1>2, EmptySeq DEF TypeOK
<1>4. ClosedOrDrained /\ Contiguous /\ FrontIsNext /\ QueuedPumps
  BY <1>1, EmptySeq DEF ClosedOrDrained, Contiguous, FrontIsNext, QueuedPumps
<1>5. /\ RunningPumpsHaveTimers /\ NoStall /\ TimerMeansWork
      /\ EmptyMeansDelivered /\ RunningPumpInFront /\ InOrder
  BY <1>1, <1>2 DEF RunningPumpsHaveTimers, NoStall, TimerMeansWork,
                    EmptyMeansDelivered, RunningPumpInFront, InOrder,
                    OnlySubmitted
<1> QED
  BY <1>3, <1>4, <1>5 DEF IInv

\* The invariant IInv is inductive, so it holds in every state that a writer,
\* its owner's calls and its callbacks can reach.
THEOREM Invariance == Spec => []IInv
<1>1. IInv /\ [Next]_vars => IInv'
  <2> SUFFICES ASSUME IInv, [Next]_vars PROVE IInv'
    OBVIOUS
  <2>1. CASE Owner
    BY <2>1, OwnerInv
  <2>2. CASE Callbacks
    BY <2>2, CallbacksInv
  <2>3. CASE UNCHANGED vars
    BY <2>3, StutterInv DEF vars, writer, stream
  <2> QED
    BY <2>1, <2>2, <2>3 DEF Next
<1> QED
  BY <1>1, InitInv, PTL DEF Spec

\* The type invariant of the writer and its pumps.
THEOREM TypeCorrect == Spec => []TypeOK
<1>1. IInv => TypeOK
  BY DEF IInv
<1> QED
  BY <1>1, Invariance, PTL

\* EvNIOWriter.cpp stops its one-shot timer in five places; the queue of a
\* running writer is never left without a callback to come.
THEOREM NeverStalls == Spec => []NoStall
<1>1. IInv => NoStall
  BY DEF IInv
<1> QED
  BY <1>1, Invariance, PTL

\* Blocks, partial writes and files reach the descriptor in the order of
\* submission, without a gap or a repetition.
THEOREM DeliversInOrder == Spec => []InOrder
<1>1. IInv => InOrder
  BY DEF IInv
<1> QED
  BY <1>1, Invariance, PTL

\* HttpHandler may close the connection on the "queue empty" completion: no
\* byte is left.
THEOREM EmptyIsDelivered == Spec => []EmptyMeansDelivered
<1>1. IInv => EmptyMeansDelivered
  BY DEF IInv
<1> QED
  BY <1>1, Invariance, PTL

\* The timer callback never finds a closed writer or an empty queue, and a pump
\* of an open writer sends only from the front of the queue.
THEOREM CallbacksHaveWork == Spec => []CallbacksFindWork
<1>1. IInv => CallbacksFindWork
  BY DEF IInv, CallbacksFindWork
<1> QED
  BY <1>1, Invariance, PTL

-----------------------------------------------------------------------------
(* The writer implements ByteStream                                        *)

\* A step of a pump that may send delivers the next bytes, shuts the stream or
\* leaves it alone.
LEMMA SendDataMoves ==
  ASSUME IInv, IInv', NEW p \in Pumps, NEW armed \in BOOLEAN, MaySend(p),
         SendData(p, armed)
  PROVE  [Stream!Next]_(Stream!vars)
<1>0. /\ sent \in Nat /\ sent' \in Nat /\ submitted \in Nat
      /\ sent' <= submitted' /\ pump[p].next \in Nat /\ pump[p].last \in Nat
      /\ open \in BOOLEAN /\ exact \in BOOLEAN /\ exact' \in BOOLEAN
      /\ pump[p].more \in Nat /\ pump[p].cap \in Nat
  BY DEF IInv, TypeOK, InOrder, Pump
<1>1. ASSUME open
      PROVE  pump[p].next = sent + 1 /\ PumpInFront
  BY <1>1, FrontPump
<1>2. ASSUME ~open
      PROVE  ~PumpInFront
  BY <1>2 DEF IInv, ClosedOrDrained, PumpInFront
<1>9. ASSUME open, NEW j \in Offered(p), Sends(p, j),
             pump[p].limited \/ pump[p].more = 0,
             pump[p].limited => pump[p].next <= pump[p].last
      PROVE  /\ sent' > sent /\ submitted' = submitted
             /\ exact' \in {exact, FALSE}
  <2>1. j \in Nat /\ j >= pump[p].next /\ j <= pump[p].last + pump[p].more
    BY <1>0 DEF Offered, Least
  <2>2. Took(pump[p].next, j, pump[p].last)
    BY <1>9 DEF Sends
  <2>3. pump[p].next <= pump[p].last
    BY <1>0, <1>9, <2>1
  <2>4. sent' > sent
    BY <1>0, <1>1, <1>9, <2>1, <2>2, <2>3 DEF Took, Least
  <2>5. exact' = (exact /\ j <= pump[p].last)
    BY <2>2 DEF Took
  <2>6. exact' \in {exact, FALSE}
    BY <1>0, <2>5
  <2> QED
    BY <2>2, <2>4, <2>6 DEF Took
<1>10. ASSUME open
       PROVE  /\ pump[p].limited \/ pump[p].more = 0
              /\ pump[p].limited => pump[p].next <= pump[p].last
  <2>1. queue # <<>> /\ queue[1].pump = p /\ 1 \in 1 .. Len(queue)
    BY <1>10, FrontPump DEF MaySend
  <2>2. QueuedPump(1)
    BY <2>1, NoPumpAssumption DEF IInv, QueuedPumps
  <2> QED
    BY <2>1, <2>2 DEF QueuedPump, Planned
<1>3. CASE SendSome(p, armed)
  <2>1. open' = open
    BY <1>3 DEF SendSome
  <2>2. CASE open
    <3>1. PICK j \in Offered(p) : Sends(p, j)
      BY <1>3 DEF SendSome
    <3>2. /\ sent' > sent /\ submitted' = submitted
          /\ exact' \in {exact, FALSE}
      BY <1>9, <1>10, <2>2, <3>1
    <3> QED
      BY <1>0, <2>1, <2>2, <3>2 DEF Stream!Next, Stream!Deliver, IInv, InOrder
  <2>3. CASE ~open
    BY <1>3, <2>1, <2>3 DEF SendSome, Sends, stream, Stream!vars
  <2> QED
    BY <2>2, <2>3
<1>4. CASE SendLast(p)
  <2>0. PICK j \in Offered(p) : Sends(p, j)
    BY <1>4 DEF SendLast
  <2>1. CASE open
    <3>1. open' = open
      BY <1>1, <1>4, <2>1 DEF SendLast, TransportEnd, PopFront
    <3>2. /\ sent' > sent /\ submitted' = submitted
          /\ exact' \in {exact, FALSE}
      BY <1>9, <1>10, <2>0, <2>1
    <3> QED
      BY <1>0, <2>1, <3>1, <3>2 DEF Stream!Next, Stream!Deliver
  <2>2. CASE ~open
    <3>1. open' = FALSE /\ UNCHANGED stream
      BY <1>2, <1>4, <2>0, <2>2 DEF SendLast, Sends, TransportEnd, FireError, Closed
    <3> QED
      BY <1>0, <2>2, <3>1 DEF stream, Stream!vars
  <2> QED
    BY <2>1, <2>2
<1>5. CASE SendEof(p)
  <2>1. UNCHANGED stream
    BY <1>5 DEF SendEof
  <2>2. open' = open
    <3>1. CASE open
      BY <1>1, <1>5, <3>1 DEF SendEof, TransportEnd, PopFront
    <3>2. CASE ~open
      BY <1>0, <1>2, <1>5, <3>2 DEF SendEof, TransportEnd, FireError, Closed
    <3> QED
      BY <3>1, <3>2
  <2> QED
    BY <2>1, <2>2 DEF stream, Stream!vars
<1>6. CASE SendAgain(p, armed)
  BY <1>6 DEF SendAgain, stream, Stream!vars
<1>7. CASE SendFails(p)
  BY <1>0, <1>7 DEF SendFails, FireError, Closed, Stream!vars, Stream!Next,
                    Stream!Shut
<1> QED
  BY <1>3, <1>4, <1>5, <1>6, <1>7 DEF SendData

LEMMA NextMoves ==
  ASSUME IInv, IInv', Next
  PROVE  [Stream!Next]_(Stream!vars)
<1>0. /\ sent \in Nat /\ sent' \in Nat /\ submitted \in Nat /\ submitted' \in Nat
      /\ open \in BOOLEAN /\ timer \in BOOLEAN /\ sent' <= submitted'
      /\ queue \in Seq(Item) /\ exact \in BOOLEAN
  BY DEF IInv, TypeOK, InOrder
<1>1. ASSUME NEW q, NEW n \in 1 .. MaxBlock, open, Push(q, n)
      PROVE  Stream!Next
  <2>1. n \in Nat /\ n > 0
    BY BoundsAssumption
  <2>2. /\ submitted' = submitted + n /\ sent' = sent /\ open' = open
        /\ exact' = exact
    BY <1>1 DEF Push
  <2> QED
    BY <1>0, <1>1, <2>1, <2>2 DEF Stream!Next, Stream!Submit
<1>2. CASE \E n \in 1 .. MaxBlock : Write(n)
  BY <1>1, <1>2 DEF Write
<1>3. CASE \E p \in Pumps, n, each \in 1 .. MaxBlock, lim \in BOOLEAN,
                more \in 0 .. MaxMore : Transport(p, n, lim, more, each)
  BY <1>1, <1>3 DEF Transport
<1>4. CASE Start \/ Stop \/ WriteAgain
  BY <1>4 DEF Start, Stop, WriteAgain, writer, stream, Stream!vars
<1>5. CASE Close \/ WriteFails \/ RestartPump
  <2>1. open' = FALSE /\ UNCHANGED <<submitted, sent, exact>>
    BY <1>5 DEF Close, WriteFails, RestartPump, FireError, Closed, stream
  <2> QED
    BY <1>0, <2>1 DEF Stream!Next, Stream!Shut, Stream!vars
<1>6. CASE SetFD
  BY <1>6 DEF SetFD, Stream!Next, Stream!Renew, Stream!Init
<1>7. CASE WriteAll \/ WritePart
  <2>1. /\ open /\ queue # <<>> /\ Head(queue).pump = NoPump
    BY <1>7 DEF WriteAll, WritePart, DataInFront, IInv, TimerMeansWork
  <2>2. /\ Head(queue) = queue[1] /\ queue[1] \in Item /\ 1 \in 1 .. Len(queue)
    BY <1>0, <2>1, TailItems
  <2>3. /\ queue[1].from = sent + 1 /\ queue[1].from <= queue[1].to
        /\ queue[1].to \in Nat
    BY <2>1, <2>2 DEF IInv, FrontIsNext, Contiguous, Item
  <2>4. open' = open /\ submitted' = submitted
    BY <1>7 DEF WriteAll, WritePart, Took, PopFront
  <2>5. \E j \in queue[1].from .. queue[1].to :
           Took(queue[1].from, j, queue[1].to)
    BY <1>0, <1>7, <2>2, <2>3 DEF WriteAll, WritePart
  <2>6. PICK j \in queue[1].from .. queue[1].to :
           Took(queue[1].from, j, queue[1].to)
    BY <2>5
  <2>7. j \in Int /\ queue[1].from <= j /\ j <= queue[1].to
    BY <1>0, <2>3
  <2>8. sent' = j /\ exact' = (exact /\ j <= queue[1].to)
    BY <2>6, <2>7 DEF Took, Least
  <2>9. sent' > sent
    BY <1>0, <2>3, <2>7, <2>8
  <2>10. exact' \in {exact, FALSE}
    BY <1>0, <2>8
  <2> QED
    BY <1>0, <2>1, <2>4, <2>9, <2>10 DEF Stream!Next, Stream!Deliver
<1>8. CASE StartPump
  <2> DEFINE p == Head(queue).pump
  <2>1. /\ open /\ queue # <<>> /\ Head(queue).pump # NoPump
        /\ SendData(p, FALSE)
    BY <1>8 DEF StartPump, PumpInFront, IInv, TimerMeansWork
  <2>2. Head(queue) = queue[1] /\ queue[1] \in Item
    BY <1>0, <2>1, TailItems
  <2>3. p \in Pumps /\ MaySend(p)
    BY <2>1, <2>2 DEF Item, MaySend
  <2> HIDE DEF p
  <2> QED
    BY <2>1, <2>3, SendDataMoves
<1>9. ASSUME NEW p \in Pumps, PumpTimer(p)
      PROVE  [Stream!Next]_(Stream!vars)
  <2>1. SendData(p, timer) /\ MaySend(p)
    BY <1>9, TimerMaySend DEF PumpTimer
  <2> QED
    BY <1>0, <2>1, SendDataMoves
<1> QED
  BY <1>2, <1>3, <1>4, <1>5, <1>6, <1>7, <1>8, <1>9 DEF Next, Owner, Callbacks

\* EvNIOWriter implements ByteStream: every callback of the writer and of its
\* pumps is a step of the promised byte stream, or leaves it alone.
THEOREM WriterImplementsByteStream == Spec => ImplementsByteStream
<1>1. Init => Stream!Init
  BY DEF Init, Stream!Init
<1>2. IInv /\ IInv' /\ [Next]_vars => [Stream!Next]_(Stream!vars)
  BY NextMoves DEF vars, Stream!vars
<1> QED
  BY <1>1, <1>2, Invariance, PTL DEF Spec, ImplementsByteStream, Stream!Spec

=============================================================================
