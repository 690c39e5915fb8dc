---------------------------- MODULE EvNIOWriter ----------------------------
(***************************************************************************)
(* The output queue of one descriptor: EvNIOWriter (with SocketNIOWriter's *)
(* send) and the SendfileIOPump objects that travel through its queue.     *)
(* One libev callback is one step.  A burst of bytes is one block; bytes   *)
(* are numbered in the order in which write() and transport() accepted     *)
(* them, so a block is the interval from..to.                              *)
(***************************************************************************)
EXTENDS Integers, Sequences

CONSTANTS Pumps,      \* the SendfileIOPump objects that may be submitted
          NoPump,     \* the iopumper field of a plain data block
          MaxBlock,   \* bound: bytes in one block or one file
          MaxBytes,   \* bound: bytes submitted to one descriptor
          MaxMore     \* bound: bytes of a file behind the part that is planned

ASSUME BoundsAssumption == /\ MaxBlock \in Nat \ {0} /\ MaxBytes \in Nat \ {0}
                           /\ MaxMore \in Nat
ASSUME NoPumpAssumption == NoPump \notin Pumps

VARIABLES open,       \* fd >= 0
          running,    \* isRunning
          queue,      \* dataQueue
          timer,      \* writeEvtimer.is_active()
          pump,       \* the pumps: status, timer and the bytes they still owe
          submitted,  \* bytes accepted for this descriptor
          sent,       \* bytes the descriptor took
          ordered,    \* history: every delivery began right after the last one
          exact,      \* history: the descriptor took submitted bytes only
          failed,     \* history: the operating system reported an I/O error
          event       \* the last completion event fired to the listener

writer == <<open, running, queue, timer>>
stream == <<submitted, sent, ordered, exact, failed>>
vars   == <<open, running, queue, timer, pump, submitted, sent, ordered,
            exact, failed, event>>

Item == [pump : Pumps \cup {NoPump}, from : Nat, to : Nat]

\* ABSENT: not handed to the writer (yet).  The bytes from next to last are still
\* owed.  limited: length > 0 ends the transfer, and the file goes on for more
\* bytes behind it; otherwise it ends when sendfile() meets the end of the file.
\* each, cap: readBytesPerEach and sendBytesPerEach.  again is history: the last
\* sendfile() but the one that ended the transfer returned EAGAIN.
Pump == [st : {"ABSENT", "NEW", "RUNNING", "CLOSED"}, limited : BOOLEAN,
         next : Nat, last : Nat, more : Nat, each : Nat, cap : Nat,
         again : BOOLEAN, timer : BOOLEAN]

AbsentPump == [st |-> "ABSENT", limited |-> FALSE, next |-> 0, last |-> 0,
               more |-> 0, each |-> 0, cap |-> 0, again |-> FALSE,
               timer |-> FALSE]

Least(m, n) == IF m <= n THEN m ELSE n

Init == /\ open = TRUE /\ running = FALSE /\ queue = <<>> /\ timer = FALSE
        /\ pump = [p \in Pumps |-> AbsentPump]
        /\ submitted = 0 /\ sent = 0 /\ ordered = TRUE /\ exact = TRUE
        /\ failed = FALSE /\ event = "none"

-----------------------------------------------------------------------------
(* Calls of the owner                                                      *)

\* Enqueue a block of n bytes; a running writer arms its timer.
Push(p, n) ==
  /\ queue' = Append(queue, [pump |-> p, from |-> submitted + 1,
                             to |-> submitted + n])
  /\ submitted' = submitted + n
  /\ timer' = (timer \/ running)
  /\ event' = "none"
  /\ UNCHANGED <<open, running, sent, ordered, exact, failed>>

\* Fault: write() does not look whether the writer is closed.
WriteClosed(n) ==
  /\ submitted + n <= MaxBytes
  /\ Push(NoPump, n)
  /\ UNCHANGED pump

Write(n) ==
  /\ open
  /\ submitted + n <= MaxBytes
  /\ Push(NoPump, n)
  /\ UNCHANGED pump

\* setLength() has set both sizes to what calculateSpeed() allows of the length.
Transport(p, n, lim, more, each) ==
  /\ open
  /\ pump[p].st = "ABSENT"
  /\ submitted + n <= MaxBytes
  /\ each <= n /\ (more > 0 => lim)
  /\ Push(p, n)
  /\ pump' = [pump EXCEPT ![p] =
       [st |-> "NEW", limited |-> lim, next |-> submitted + 1,
        last |-> submitted + n, more |-> more, each |-> each, cap |-> each,
        again |-> FALSE, timer |-> FALSE]]

\* Fault: start() leaves what was queued before it without a timer.
StartUntimed ==
  /\ ~running
  /\ running' = TRUE
  /\ event' = "none"
  /\ UNCHANGED <<open, timer, queue, pump, stream>>

Start ==
  /\ ~running
  /\ running' = TRUE
  /\ timer' = (timer \/ queue # <<>>)
  /\ event' = "none"
  /\ UNCHANGED <<open, queue, pump, stream>>

Stop ==
  /\ running
  /\ running' = FALSE /\ timer' = FALSE
  /\ event' = "none"
  /\ UNCHANGED <<open, queue, pump, stream>>

\* Fault: close() leaves the timer running.
ClosedTimed == open' = FALSE /\ queue' = <<>> /\ UNCHANGED <<timer, running>>

\* reset() and fd = -1.  isRunning and the pumps keep their state.
Closed == open' = FALSE /\ queue' = <<>> /\ timer' = FALSE /\ UNCHANGED running

Close ==
  /\ open
  /\ Closed
  /\ event' = "none"
  /\ UNCHANGED <<pump, stream>>

\* setFD() of a closed writer, once the pumps of the old descriptor are gone.
SetFD ==
  /\ ~open
  /\ \A p \in Pumps : pump[p].st # "RUNNING"
  /\ open' = TRUE
  /\ pump' = [p \in Pumps |-> AbsentPump]
  /\ submitted' = 0 /\ sent' = 0 /\ ordered' = TRUE /\ exact' = TRUE
  /\ failed' = FALSE /\ event' = "none"
  /\ UNCHANGED <<running, queue, timer>>

-----------------------------------------------------------------------------
(* Completions                                                             *)

\* The descriptor took the bytes i..j of an item that ends with the byte last.
Took(i, j, last) ==
  /\ sent' = Least(j, last)
  /\ ordered' = (ordered /\ i = sent + 1)
  /\ exact' = (exact /\ j <= last)
  /\ UNCHANGED <<submitted, failed>>

\* fire(-1), popQueueFront(), close().
FireError == event' = "error" /\ Closed

\* The block in front is finished: pop it, then go on or report an empty queue.
PopFront ==
  /\ queue' = Tail(queue)
  /\ timer' = (Tail(queue) # <<>>)
  /\ event' = IF Tail(queue) = <<>> THEN "empty" ELSE "some"
  /\ UNCHANGED <<open, running>>

DataInFront == queue # <<>> /\ Head(queue).pump = NoPump
PumpInFront == queue # <<>> /\ Head(queue).pump # NoPump

\* timerCallback, realWrite took the whole block.
WriteAll ==
  /\ timer /\ DataInFront
  /\ Took(Head(queue).from, Head(queue).to, Head(queue).to)
  /\ PopFront
  /\ UNCHANGED pump

\* Fault: the last byte taken stays in the block.
WritePartRepeats ==
  /\ timer /\ DataInFront
  /\ \E j \in Head(queue).from .. Head(queue).to - 1 :
       /\ Took(Head(queue).from, j, Head(queue).to)
       /\ queue' = [queue EXCEPT ![1].from = j]
  /\ timer' = TRUE
  /\ event' = "some"
  /\ UNCHANGED <<open, running, pump>>

\* Fault: a partial write finishes the block.
WritePartForgets ==
  /\ timer /\ DataInFront
  /\ \E j \in Head(queue).from .. Head(queue).to - 1 :
       Took(Head(queue).from, j, Head(queue).to)
  /\ PopFront
  /\ UNCHANGED pump

\* timerCallback, realWrite took part of it.
WritePart ==
  /\ timer /\ DataInFront
  /\ \E j \in Head(queue).from .. Head(queue).to - 1 :
       /\ Took(Head(queue).from, j, Head(queue).to)
       /\ queue' = [queue EXCEPT ![1].from = j + 1]
  /\ timer' = TRUE
  /\ event' = "some"
  /\ UNCHANGED <<open, running, pump>>

\* Fault: the one-shot timer is not armed again after EAGAIN.
WriteAgainUntimed ==
  /\ timer /\ DataInFront
  /\ timer' = FALSE
  /\ event' = "none"
  /\ UNCHANGED <<open, running, queue, pump, stream>>

\* timerCallback, EAGAIN: the one-shot timer is armed again.
WriteAgain ==
  /\ timer /\ DataInFront
  /\ event' = "none"
  /\ UNCHANGED <<writer, pump, stream>>

WriteFails ==
  /\ timer /\ DataInFront
  /\ FireError
  /\ failed' = TRUE
  /\ UNCHANGED <<pump, submitted, sent, ordered, exact>>

-----------------------------------------------------------------------------
(* SendfileIOPump::sendData and EvNIOWriter::handle.  armed: the writer's  *)
(* own timer when sendData begins (stopped by the timer callback).         *)

\* handle(): end of the transfer.  A queue whose front is no pump is an error.
TransportEnd ==
  IF PumpInFront THEN PopFront ELSE FireError

\* One sendfile() takes the bytes from next to one of these: sendBytesPerEach at
\* most, and what the file holds.
Offered(p) == pump[p].next .. Least(pump[p].next + pump[p].cap - 1,
                                    pump[p].last + pump[p].more)

\* sendBytesPerEach after k bytes were taken and rest are left of the length: a
\* third more than k, or less by calculateSpeed(), but no more than the rest.
Caps(p, k, rest) ==
  1 .. IF pump[p].limited THEN Least(k + k \div 3, rest) ELSE k + k \div 3

Sends(p, j) == IF open THEN Took(pump[p].next, j, pump[p].last)
               ELSE UNCHANGED stream

\* Fault: a transfer that goes well keeps sendBytesPerEach.
SendSomeUncapped(p, armed) ==
  /\ \E j \in Offered(p) :
       /\ pump[p].limited => j < pump[p].last
       /\ Sends(p, j)
       /\ pump' = [pump EXCEPT ![p].st = "RUNNING", ![p].next = j + 1,
                               ![p].again = FALSE, ![p].timer = TRUE]
  /\ timer' = armed
  /\ event' = "some"
  /\ UNCHANGED <<open, running, queue>>

\* Bytes are taken, and the planned length is not reached.
SendSome(p, armed) ==
  /\ \E j \in Offered(p) :
       /\ pump[p].limited => j < pump[p].last
       /\ Sends(p, j)
       /\ \E cap \in Caps(p, j - pump[p].next + 1, pump[p].last - j) :
            pump' = [pump EXCEPT ![p].st = "RUNNING", ![p].next = j + 1,
                                 ![p].cap = cap, ![p].again = FALSE,
                                 ![p].timer = TRUE]
  /\ timer' = armed
  /\ event' = "some"
  /\ UNCHANGED <<open, running, queue>>

\* The planned length is reached, or passed: one event with bytes, one with
\* length 0.
SendLast(p) ==
  /\ pump[p].limited
  /\ \E j \in Offered(p) :
       /\ j >= pump[p].last
       /\ Sends(p, j)
       /\ pump' = [pump EXCEPT ![p].st = "CLOSED", ![p].next = j + 1,
                               ![p].timer = FALSE]
  /\ TransportEnd

\* Fault: the pump does not close itself at the end of the file.
SendEofRuns(p) ==
  /\ pump[p].next > pump[p].last + pump[p].more
  /\ TransportEnd
  /\ UNCHANGED <<pump, stream>>

\* sendfile() returns 0: end of file.
SendEof(p) ==
  /\ pump[p].next > pump[p].last + pump[p].more
  /\ pump' = [pump EXCEPT ![p].st = "CLOSED", ![p].timer = FALSE]
  /\ TransportEnd
  /\ UNCHANGED stream

\* Fault: sendfile()'s result -1 is added to the bytes sent.
SendAgainCounts(p, armed) ==
  /\ pump' = [pump EXCEPT ![p].st = "RUNNING", ![p].timer = TRUE,
                          ![p].next = @ - 1]
  /\ timer' = armed
  /\ event' = "none"
  /\ UNCHANGED <<open, running, queue, stream>>

\* EAGAIN: sendBytesPerEach is readBytesPerEach again, whatever is left of the
\* planned length.
SendAgain(p, armed) ==
  /\ pump' = [pump EXCEPT ![p].st = "RUNNING", ![p].timer = TRUE,
                          ![p].cap = pump[p].each, ![p].again = TRUE]
  /\ timer' = armed
  /\ event' = "none"
  /\ UNCHANGED <<open, running, queue, stream>>

SendFails(p) ==
  /\ pump' = [pump EXCEPT ![p].st = "CLOSED", ![p].timer = FALSE]
  /\ FireError
  /\ failed' = TRUE
  /\ UNCHANGED <<submitted, sent, ordered, exact>>

SendData(p, armed) ==
  \/ SendSome(p, armed)
  \/ SendLast(p)
  \/ SendEof(p)
  \/ SendAgain(p, armed)
  \/ SendFails(p)

\* timerCallback with a new pump in front: stop the timer, start the pump.
StartPump ==
  /\ timer /\ PumpInFront
  /\ pump[Head(queue).pump].st = "NEW"
  /\ SendData(Head(queue).pump, FALSE)

\* timerCallback with a pump in front that start() refuses.
RestartPump ==
  /\ timer /\ PumpInFront
  /\ pump[Head(queue).pump].st # "NEW"
  /\ FireError
  /\ UNCHANGED <<pump, stream>>

PumpTimer(p) ==
  /\ pump[p].st = "RUNNING" /\ pump[p].timer
  /\ SendData(p, timer)

Owner ==
  \/ \E n \in 1 .. MaxBlock : Write(n)
  \/ \E p \in Pumps, n, each \in 1 .. MaxBlock, lim \in BOOLEAN,
        more \in 0 .. MaxMore : Transport(p, n, lim, more, each)
  \/ Start \/ Stop \/ Close \/ SetFD

Callbacks ==
  \/ WriteAll \/ WritePart \/ WriteAgain \/ WriteFails
  \/ StartPump \/ RestartPump
  \/ \E p \in Pumps : PumpTimer(p)

Next == Owner \/ Callbacks

\* A peer that keeps reading: a block or a file that is offered again and
\* again is eventually taken.
Taken(p) == SendSome(p, timer) \/ SendLast(p) \/ SendEof(p)
Fairness ==
  /\ WF_vars(WriteAll \/ WritePart)
  /\ WF_vars(RestartPump)
  /\ WF_vars(StartPump)
  /\ \A p \in Pumps :
       WF_vars(pump[p].st = "RUNNING" /\ pump[p].timer /\ Taken(p))

Spec     == Init /\ [][Next]_vars
FairSpec == Spec /\ Fairness

-----------------------------------------------------------------------------
(* Properties                                                              *)

TypeOK ==
  /\ open \in BOOLEAN /\ running \in BOOLEAN /\ timer \in BOOLEAN
  /\ queue \in Seq(Item)
  /\ pump \in [Pumps -> Pump]
  /\ submitted \in Nat /\ sent \in Nat
  /\ ordered \in BOOLEAN /\ exact \in BOOLEAN /\ failed \in BOOLEAN
  /\ event \in {"none", "some", "empty", "error"}

\* No stall: while the writer runs and has something queued, either its timer
\* or the timer of the pump in front will call it back.  The timer is one-shot
\* and is stopped in five places of EvNIOWriter.cpp.
NoStall ==
  open /\ running /\ queue # <<>> =>
     \/ timer
     \/ /\ PumpInFront
        /\ pump[Head(queue).pump].st = "RUNNING"
        /\ pump[Head(queue).pump].timer

\* The early returns of timerCallback for a closed writer and for an empty
\* queue are never taken.
TimerMeansWork == timer => open /\ queue # <<>>

\* IIOPump.h:46 calls the planned length a maximum.  A transfer that met EAGAIN
\* after it had sent a part goes on with readBytesPerEach, and may send more of
\* the file than was planned: fewer bytes than one such read.
Overshot(p) ==
  /\ pump[p].st = "CLOSED" /\ pump[p].limited /\ pump[p].again
  /\ pump[p].next - 1 \in pump[p].last + 1 .. pump[p].last + pump[p].more
  /\ pump[p].next - 1 < pump[p].last + pump[p].each

\* Whatever mix of blocks, partial writes and file transfers is queued, the
\* descriptor takes the submitted bytes in the order of submission, without a
\* gap or a repetition; and it takes no other bytes, unless a planned transfer
\* has overshot its length.
OnlySubmitted == exact \/ \E p \in Pumps : Overshot(p)
InOrder == ordered /\ sent <= submitted /\ OnlySubmitted

\* The "queue empty" completion (length 0), on which HttpHandler closes or
\* recycles the connection, is fired only when every submitted byte was taken.
EmptyMeansDelivered == event = "empty" => sent = submitted

\* A pump sends only while it is the front of the queue of an open writer,
\* or after the writer was closed under it.
RunningPumpInFront ==
  \A p \in Pumps : open /\ pump[p].st = "RUNNING" =>
                      PumpInFront /\ Head(queue).pump = p

\* Both: whichever timer calls back, the writer's or a pump's, it finds an open
\* writer and, in front of its queue, what it is for.
CallbacksFindWork == TimerMeansWork /\ RunningPumpInFront

\* Every byte accepted by a running writer is taken, unless the writer is
\* stopped or closed.
Drains ==
  \A n \in 1 .. MaxBytes :
     (open /\ running /\ submitted >= n) ~> (sent >= n \/ ~open \/ ~running)

\* IIOWriter.h:48: failures are reported to the owner as completion events; a
\* failure is reported only when the system reported one.
ErrorsAreIOErrors == event = "error" => failed

\* The writer implements a byte stream: each callback delivers the next bytes that
\* were submitted (and after them maybe some that were not, see InOrder), or
\* leaves the stream alone.
Stream == INSTANCE ByteStream WITH alive <- open
ImplementsByteStream == Stream!Spec
=============================================================================
