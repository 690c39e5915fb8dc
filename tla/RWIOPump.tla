------------------------------ MODULE RWIOPump ------------------------------
(***************************************************************************)
(* The pump that copies a source to a client block by block: RWIOPump with *)
(* its EvNIOReader and its EvNIOWriter, driven by RWIOPumpHttpServlet,     *)
(* which listens to the transport events.  A read completion is written, a *)
(* "queue empty" completion starts the timer for the next read.  One libev *)
(* callback with all of its nested events is one step.                     *)
(*                                                                         *)
(* Bytes are named by their place in the source, the first one is 1.       *)
(***************************************************************************)
EXTENDS Integers, Sequences

CONSTANTS FileSize,  \* bytes of the source
          BuffSize,  \* buffSize
          Speeds,    \* bytes per second; 0 is unlimited
          Offsets,   \* setOffset(); -1 is the current position
          Lengths,   \* setLength(); 0 is up to the end of the source
          MaxResets  \* bound: calls of reset()

ASSUME SizeAssumption == FileSize \in Nat /\ BuffSize \in Nat \ {0}
ASSUME CallAssumption == /\ Speeds \subseteq Nat /\ Lengths \subseteq Nat
                         /\ Offsets \subseteq Nat \cup {-1} /\ MaxResets \in Nat

VARIABLES
  status, offset, length, \* the pump; CLOSED closes its reader and writer too
  each,     \* readBytesPerEach
  timer,    \* the pump's timer, which asks for the next block
  sended,   \* sendedBytes
  read,     \* readEvent->length of the last read completion
  reading,  \* the reader's entryQueue
  pos,      \* the position of the source
  queue,    \* the writer's dataQueue
  running,  \* the writer's isRunning
  wtimer,   \* the writer's timer
  base,     \* history: the byte before the first one of this transfer
  sent,     \* history: the last byte the client took
  ordered,  \* history: every byte taken was the next one
  dropped,  \* history: reset() dropped bytes that were read, since the last start()
  resets,   \* calls of reset() so far
  ended     \* history: how the servlet was told that the transfer is over

pump   == <<status, offset, length, each, sended>>
stream == <<base, sent, ordered, dropped>>
vars   == <<status, offset, length, each, timer, sended, read, reading, pos,
            queue, running, wtimer, base, sent, ordered, dropped, resets, ended>>

Request == [want : Nat \ {0}, at : Nat \cup {-1}]  \* planLength, pointer
Block   == [from : Nat, to : Nat]

Least(m, n) == IF m <= n THEN m ELSE n

\* AbstractIOPump::calculateSpeed: bytes per read for a buffer of size bytes.
\* The rounding of the double is left out; 5 is MAX_IO_READ_WRITE_INTERVAL.
CalculateSpeed(speed, size) ==
  IF speed = 0 THEN size
  ELSE LET n == Least(speed + (size \div 3), size)
       IN Least(n, 5 * speed)

\* The constructor, setOffset and setLength
Init == /\ status = "NEW"
        /\ offset \in Offsets /\ length \in Lengths
        /\ \E speed \in Speeds :
             each = CalculateSpeed(speed, IF length > 0 THEN Least(length, BuffSize)
                                          ELSE BuffSize)
        /\ timer = FALSE /\ sended = 0 /\ read = 0
        /\ reading = <<>> /\ pos = 0
        /\ queue = <<>> /\ running = FALSE /\ wtimer = FALSE
        /\ base = 0 /\ sent = 0 /\ ordered = TRUE /\ dropped = FALSE
        /\ resets = 0 /\ ended = "no"

-----------------------------------------------------------------------------
(* Calls of the servlet                                                    *)

\* A transfer from the current position goes on behind the last byte the client
\* took, or behind the last byte read if a reset() has dropped what was between.
\* With an offset it begins there, and again after each reset().
GoesOn == offset >= 0 \/ pos = sent \/ (dropped /\ pos > sent)

\* onWriteQueueEmptyEvent: the header is out.  start() of the pump.
Start ==
  /\ status = "NEW"
  /\ status' = "RUNNING" /\ running' = TRUE
  /\ wtimer' = (wtimer \/ (~running /\ queue # <<>>))
  /\ reading' = IF reading = <<>> THEN <<[want |-> each, at |-> offset]>>
                ELSE reading
  /\ base' = IF offset >= 0 THEN offset ELSE pos
  /\ sent' = base'
  /\ ordered' = (ordered /\ GoesOn)
  /\ dropped' = FALSE
  /\ UNCHANGED <<offset, length, each, timer, sended, read, pos, queue,
                 resets, ended>>

\* close() of the pump, its reader and its writer
Closed == /\ status' = "CLOSED" /\ timer' = FALSE
          /\ reading' = <<>>
          /\ queue' = <<>> /\ wtimer' = FALSE

\* onCompletionEvent: the connection is given up.
Close ==
  /\ status # "CLOSED"
  /\ Closed
  /\ UNCHANGED <<offset, length, each, sended, read, pos, running, stream,
                 resets, ended>>

\* Fault: reset() forgets the writer.
ResetKeepsQueue ==
  /\ status # "CLOSED" /\ resets < MaxResets
  /\ status' = "NEW"
  /\ reading' = <<>>
  /\ resets' = resets + 1
  /\ UNCHANGED <<offset, length, each, timer, sended, read, pos, queue, running,
                 wtimer, stream, ended>>

\* reset() leaves the pump's timer and what was counted.
Reset ==
  /\ status # "CLOSED" /\ resets < MaxResets
  /\ status' = "NEW"
  /\ reading' = <<>> /\ queue' = <<>> /\ wtimer' = FALSE
  /\ dropped' = (dropped \/ queue # <<>>)
  /\ resets' = resets + 1
  /\ UNCHANGED <<offset, length, each, timer, sended, read, pos, running,
                 base, sent, ordered, ended>>

\* The servlet's handle(): complete() on an event without bytes.
Complete(how) == Closed /\ ended' = how

-----------------------------------------------------------------------------
(* The reader                                                              *)

\* Where the request in front reads.
ReadPos == IF Head(reading).at >= 0 THEN Head(reading).at ELSE pos

\* Fault: the timer for the next block is started when this one was read.
ReadSomeGoesOn ==
  /\ reading # <<>>
  /\ \E n \in 1 .. Head(reading).want :
       /\ ReadPos + n <= FileSize
       /\ pos' = ReadPos + n /\ read' = n
       /\ queue' = Append(queue, [from |-> ReadPos + 1, to |-> ReadPos + n])
  /\ reading' = Tail(reading)
  /\ wtimer' = (wtimer \/ running) /\ timer' = TRUE
  /\ UNCHANGED <<pump, running, stream, resets, ended>>

\* readCallback: n bytes, written at once by handleReadCompletion.
ReadSome ==
  /\ reading # <<>>
  /\ \E n \in 1 .. Head(reading).want :
       /\ ReadPos + n <= FileSize
       /\ pos' = ReadPos + n /\ read' = n
       /\ queue' = Append(queue, [from |-> ReadPos + 1, to |-> ReadPos + n])
  /\ reading' = Tail(reading)
  /\ wtimer' = (wtimer \/ running)
  /\ UNCHANGED <<pump, timer, running, stream, resets, ended>>

\* Fault: the end of the source is no event.
ReadEndSilent ==
  /\ reading # <<>> /\ ReadPos >= FileSize
  /\ pos' = ReadPos /\ read' = 0
  /\ reading' = Tail(reading)
  /\ UNCHANGED <<pump, timer, queue, running, wtimer, stream, resets, ended>>

\* read() returns 0.
ReadEnd ==
  /\ reading # <<>> /\ ReadPos >= FileSize
  /\ pos' = ReadPos /\ read' = 0
  /\ Complete("end")
  /\ UNCHANGED <<offset, length, each, sended, running, stream, resets>>

\* read() or lseek() returns -1; EAGAIN is taken for an error as well, because
\* the result is kept in an unsigned variable.
ReadFails ==
  /\ reading # <<>>
  /\ read' = -1
  /\ Complete("error")
  /\ UNCHANGED <<offset, length, each, sended, pos, running, stream, resets>>

\* timerCallback and readData
PumpTimer ==
  /\ timer
  /\ timer' = FALSE
  /\ reading' = IF status = "RUNNING" /\ reading = <<>>
                THEN <<[want |-> each, at |-> -1]>> ELSE reading
  /\ UNCHANGED <<pump, read, pos, queue, running, wtimer, stream, resets, ended>>

-----------------------------------------------------------------------------
(* The writer                                                              *)

Took(i, j) == /\ sent' = j /\ ordered' = (ordered /\ i = sent + 1)
              /\ UNCHANGED <<base, dropped>>

\* Fault: the rest of the plan becomes the next block, whatever its size.
ShrunkAnyway(n) == length - (sended + n)

\* handleWriteCompletion of n bytes: the next block is no longer than the plan.
Shrunk(n) == Least(each, length - (sended + n))

PlanDone(n) == length > 0 /\ sended + n >= length

Counted(n) == IF length > 0 THEN sended' = sended + n /\ each' = Shrunk(n)
              ELSE UNCHANGED <<sended, each>>

FrontLen == Head(queue).to - Head(queue).from + 1

\* Fault: the next block is not asked for.
NextBlockNever(n) == timer' = timer

\* Fault: the next block is asked for behind every completion.
NextBlockAlways(n) == timer' = (timer \/ length = 0)

\* The queue after a completion, with n blocks left: startReadDataTimer().
NextBlock(n) == timer' = (timer \/ (length = 0 /\ n = 0))

\* timerCallback, write() took the whole block; the plan is fulfilled.
WriteLast ==
  /\ wtimer /\ queue # <<>> /\ PlanDone(FrontLen)
  /\ Took(Head(queue).from, Head(queue).to)
  /\ sended' = sended + FrontLen /\ read' = 0
  /\ Complete("end")
  /\ UNCHANGED <<offset, length, each, pos, running, resets>>

\* The same, but there is more to come: one event for the bytes, and one for
\* the queue if nothing is left in it.
WriteAll ==
  /\ wtimer /\ queue # <<>> /\ ~PlanDone(FrontLen)
  /\ Took(Head(queue).from, Head(queue).to)
  /\ Counted(FrontLen)
  /\ queue' = Tail(queue)
  /\ wtimer' = (Tail(queue) # <<>>)
  /\ NextBlock(Len(Tail(queue)))
  /\ UNCHANGED <<status, offset, length, read, reading, pos, running, resets,
                 ended>>

\* Fault: the last byte taken stays in the block.
WritePartRepeats(n) ==
  /\ wtimer /\ queue # <<>> /\ n < FrontLen
  /\ Took(Head(queue).from, Head(queue).from + n - 1)
  /\ Counted(n)
  /\ queue' = [queue EXCEPT ![1].from = Head(queue).from + (IF n > 1 THEN n - 1 ELSE n)]
  /\ NextBlock(Len(queue))
  /\ UNCHANGED <<status, offset, length, read, reading, pos, running, wtimer,
                 resets, ended>>

\* write() took n bytes, maybe none.  The plan cannot be fulfilled within a block:
\* OneBlockInFlight says that no block is longer than what the plan leaves.
WritePart(n) ==
  /\ wtimer /\ queue # <<>> /\ n < FrontLen /\ ~PlanDone(n)
  /\ Took(Head(queue).from, Head(queue).from + n - 1)
  /\ Counted(n)
  /\ queue' = [queue EXCEPT ![1].from = Head(queue).from + n]
  /\ NextBlock(Len(queue))
  /\ UNCHANGED <<status, offset, length, read, reading, pos, running, wtimer,
                 resets, ended>>

WriteFails ==
  /\ wtimer /\ queue # <<>>
  /\ Complete("error")
  /\ UNCHANGED <<offset, length, each, sended, read, pos, running, stream,
                 resets>>

\* EAGAIN: the timer is armed again, nothing is fired.
WriteAgain == wtimer /\ queue # <<>> /\ UNCHANGED vars

Calls  == Start \/ Close \/ Reset
Reader == ReadSome \/ ReadEnd \/ ReadFails \/ PumpTimer
Writer == \/ WriteLast \/ WriteAll \/ WriteFails \/ WriteAgain
          \/ \E n \in 0 .. BuffSize : WritePart(n)

Next == Calls \/ Reader \/ Writer

Spec == Init /\ [][Next]_vars

\* Timers that are armed are called, a source gives bytes or its end, and a
\* client that is offered a block takes some of it or leaves.
Fairness ==
  /\ WF_vars(PumpTimer)
  /\ WF_vars(ReadSome \/ ReadEnd)
  /\ WF_vars(WriteLast \/ WriteAll \/ \E n \in 1 .. BuffSize : WritePart(n))

FairSpec == Spec /\ Fairness

-----------------------------------------------------------------------------
(* Properties                                                              *)

TypeOK ==
  /\ status \in {"NEW", "RUNNING", "CLOSED"}
  /\ offset \in Offsets /\ length \in Lengths
  /\ each \in 1 .. BuffSize /\ sended \in Nat
  /\ timer \in BOOLEAN /\ running \in BOOLEAN /\ wtimer \in BOOLEAN
  /\ read \in -1 .. BuffSize
  /\ reading \in Seq(Request) /\ pos \in Nat /\ queue \in Seq(Block)
  /\ base \in Nat /\ sent \in Nat /\ ordered \in BOOLEAN /\ dropped \in BOOLEAN
  /\ resets \in 0 .. MaxResets /\ ended \in {"no", "end", "error"}

\* However reads and writes are cut, a transfer gives the client the bytes of the
\* source in their order from its start on, none twice and none left out.  A pump
\* without an offset that is reset and started again sends no byte a second time,
\* and leaves out none but what reset() dropped from the queue.  (With an offset
\* each start begins there again: repetition is what is asked for.)
OutIsSource == ordered /\ sent >= base

\* The servlet, which completes the response, is told that the transfer is over
\* only when the client has taken everything up to the end of the source, or the
\* planned length: nothing is still in the writer's queue, which close() drops.
\* After a reset() this is not so: sendedBytes keeps what an earlier transfer sent,
\* and a timer that survived may ask for a block while one is still queued.
EndMeansAllSent ==
  ended = "end" /\ resets = 0 =>
     sent >= FileSize \/ (length > 0 /\ sent = base + length)

\* Flow control: the next block is asked for only when the client has taken the
\* last one, so a slow client never makes the queue longer than one block, and no
\* block is longer than what is left of the planned length, after a reset() too.
OneBlockInFlight ==
  /\ resets = 0 => /\ Len(reading) + Len(queue) <= 1
                   /\ timer => reading = <<>> /\ queue = <<>>
  /\ length > 0 => /\ reading # <<>> => sended + Head(reading).want <= length
                   /\ queue # <<>> => sended + FrontLen <= length

\* A pump without a planned length that runs has a read request, a block that the
\* writer's timer will write, or its own timer: one of them calls it back.
RunningIsCalledBack ==
  status = "RUNNING" /\ length = 0 =>
     timer \/ reading # <<>> \/ (queue # <<>> /\ wtimer)

\* Without a planned length every transfer comes to its end.
TransferEnds == status = "RUNNING" /\ length = 0 ~> status # "RUNNING"
=============================================================================
