---------------------------- MODULE HttpHandler ----------------------------
(***************************************************************************)
(* The connections of one worker process: HttpHandler (as Http11Handler    *)
(* specialises it) with its SocketNIOReader, its SocketNIOWriter, its      *)
(* Response and servlet, the SendfileIOPumps that Response::sendfile       *)
(* creates, and the HttpHandlerManager that pools the handlers.  A libev   *)
(* callback runs to completion, nested calls included, so each callback is *)
(* one action.  The nested calls are operators on the state of one         *)
(* handler, each named for the method it models and composed as the code   *)
(* calls them.                                                             *)
(*                                                                         *)
(* The bytes of one burst of writes are one block of the output queue;     *)
(* partial writes and EAGAIN are the business of EvNIOWriter.tla and leave *)
(* the state here unchanged.                                               *)
(***************************************************************************)
EXTENDS Integers, Sequences, FiniteSets

CONSTANTS Handlers,     \* the HttpHandler objects that can exist
          NoHandler,    \* the owner of a pump not yet created
          Fds, NoFd,    \* descriptor numbers; -1
          Files, NoPump,\* the SendfileIOPump objects; "not a pump"
          MaxConn,      \* bound: connections accepted
          MaxQueue,     \* bound: blocks in an output queue
          MaxReads,     \* bound: read requests outstanding
          KeepHandlers, \* poolMaxHttpHandlerCount
          Service,      \* what service() may do (a set of ServiceCall)
          EarlyOutput   \* servlets may write from onReadBodyEvent()

Conns == 1 .. MaxConn
Modes == {"length", "chunked"}   \* framing chosen when the header is written
Outputs == {"none", "buffer", "spill", "flush", "sendfile"}

\* One execution of HttpServlet::service: its output, the asynchronous mode,
\* whether it sets a status and whether it switches the idle timeout off.
ServiceCall == [out : Outputs, mode : Modes, async : BOOLEAN,
                status : BOOLEAN, idleOff : BOOLEAN]

ASSUME NoneAssumption == /\ NoFd \notin Fds /\ NoPump \notin Files
                         /\ NoHandler \notin Handlers
ASSUME BoundsAssumption == /\ MaxConn \in Nat /\ MaxQueue \in Nat
                           /\ MaxReads \in Nat /\ KeepHandlers \in Nat
ASSUME ServiceAssumption == Service \subseteq ServiceCall
ASSUME EarlyOutputAssumption == EarlyOutput \in BOOLEAN

VARIABLES h,        \* the state of every handler
          all,      \* allHttpHandlers; the idle ones are those with h.pooled
          pump,     \* the SendfileIOPump objects
          accepted, \* number of connections received so far
          gone,     \* connections whose client has left
          got,      \* history: got[c], whose blocks client c was sent
          worker    \* "serving", "closing" (EXIT received) or "exited"

vars == <<h, all, pump, accepted, gone, got, worker>>

Block == [pump : Files \cup {NoPump}, conn : Nat]

HandlerState ==
  [status : {"RUNNING", "ANSWERING", "STOPPING", "CLEANING", "STOP"},
   fd     : Fds \cup {NoFd},
   conn   : Nat,              \* history: the connection behind fd
   \* iowriter
   open   : BOOLEAN, wrun : BOOLEAN, queue : Seq(Block), timer : BOOLEAN,
   \* ioreader: fd >= 0, entryQueue.size(), readevio.is_active()
   ropen  : BOOLEAN, reads : Nat, watch : BOOLEAN,
   \* evtimer: 0, or the connection it was armed for; idleTimeout
   idle   : Nat, idleOn : BOOLEAN,
   \* request: headers read, body read, keep-alive; completeFlag; httpCode # 0
   ready  : BOOLEAN, body : BOOLEAN, keep : BOOLEAN,
   done   : BOOLEAN, code : BOOLEAN,
   \* servlet # NULL; servlets created and not yet completed
   servlet : BOOLEAN, live : Int,
   \* response: framing once the header is written, buffered bytes,
   \* asynAnswerMode
   header : Modes \cup {"none"}, buffered : BOOLEAN, async : BOOLEAN,
   pooled : BOOLEAN,
   \* history of the connection: queued output was dropped; error() was called
   cut    : BOOLEAN, failed : BOOLEAN]

PumpState == [st : {"ABSENT", "NEW", "RUNNING", "CLOSED"},
              fd : Fds \cup {NoFd}, own : Handlers \cup {NoHandler},
              conn : Nat]

\* A constructed HttpHandler, not yet initialised.
NewHandler ==
  [status |-> "STOP", fd |-> NoFd, conn |-> 0,
   open |-> FALSE, wrun |-> FALSE, queue |-> <<>>, timer |-> FALSE,
   ropen |-> FALSE, reads |-> 0, watch |-> FALSE,
   idle |-> 0, idleOn |-> FALSE,
   ready |-> FALSE, body |-> FALSE, keep |-> FALSE,
   done |-> FALSE, code |-> FALSE, servlet |-> FALSE, live |-> 0,
   header |-> "none", buffered |-> FALSE, async |-> FALSE,
   pooled |-> FALSE, cut |-> FALSE, failed |-> FALSE]

AbsentPump == [st |-> "ABSENT", fd |-> NoFd, own |-> NoHandler, conn |-> 0]

Init == /\ h = [x \in Handlers |-> NewHandler]
        /\ all = {}
        /\ pump = [f \in Files |-> AbsentPump]
        /\ accepted = 0
        /\ gone = {}
        /\ got = [c \in Conns |-> {}]
        /\ worker = "serving"

-----------------------------------------------------------------------------
(* EvNIOWriter, on the state c of one handler                              *)

WriterStart(c) ==
  IF c.wrun THEN c
  ELSE [c EXCEPT !.wrun = TRUE, !.timer = (c.timer \/ c.queue # <<>>)]

\* write() and transport()
Enqueue(c, p) ==
  IF c.open
  THEN [c EXCEPT !.queue = Append(c.queue, [pump |-> p, conn |-> c.conn]),
                 !.timer = (c.timer \/ c.wrun)]
  ELSE c

WriterReset(c) ==
  [c EXCEPT !.queue = <<>>, !.timer = FALSE,
            !.cut = (c.cut \/ c.queue # <<>>)]

\* isRunning keeps its value
WriterClose(c) ==
  IF c.open THEN [WriterReset(c) EXCEPT !.open = FALSE] ELSE c

-----------------------------------------------------------------------------
(* EvNIOReader, with SocketNIOReader::feedReadEvio                         *)

ReaderRead(c) ==
  IF c.ropen THEN [c EXCEPT !.reads = c.reads + 1, !.watch = TRUE] ELSE c

ReaderClose(c) ==
  IF c.ropen THEN [c EXCEPT !.watch = FALSE, !.reads = 0, !.ropen = FALSE]
  ELSE c

\* Fault: popEntry() without a look at the empty queue.
PopEntryUnchecked(c) ==
  [c EXCEPT !.reads = c.reads - 1, !.watch = (c.reads > 1)]

\* The end of readCallback: popEntry(), then stop or keep the watcher.
PopEntry(c) ==
  IF c.reads = 0 THEN c
  ELSE [c EXCEPT !.reads = c.reads - 1, !.watch = (c.reads > 1)]

-----------------------------------------------------------------------------
(* HttpHandler                                                             *)

\* Fault: a timer that is still active is left alone.
StartTimeoutEvOnce(c) ==
  IF c.idleOn /\ c.idle = 0 THEN [c EXCEPT !.idle = c.conn] ELSE c

StartTimeoutEv(c) == IF c.idleOn THEN [c EXCEPT !.idle = c.conn] ELSE c
StopTimeoutEv(c)  == IF c.idleOn THEN [c EXCEPT !.idle = 0] ELSE c

SetIdleTimeout(c, b) ==
  IF c.idleOn = b THEN c
  ELSE [c EXCEPT !.idle = IF c.idleOn THEN 0 ELSE c.idle, !.idleOn = b]

PrepareRead(c) == IF c.fd = NoFd THEN c ELSE ReaderRead(StartTimeoutEv(c))
StartWrite(c)  == IF c.fd = NoFd THEN c ELSE WriterStart(c)
StopWrite(c)   == IF c.fd = NoFd THEN c ELSE WriterReset(c)

\* Fault: completeFlag outlives its request.
EndRequestKeepsDone(c) ==
  [StopWrite(c) EXCEPT
     !.live = IF c.servlet THEN c.live - 1 ELSE c.live, !.servlet = FALSE,
     !.code = FALSE, !.idleOn = TRUE,
     !.ready = FALSE, !.body = FALSE, !.keep = FALSE,
     !.header = "none", !.buffered = FALSE, !.async = FALSE]

\* The part of clean() between its guard and its end: the servlet gets
\* onCompletionEvent and goes back, request and response are reset.
EndRequest(c) ==
  [StopWrite(c) EXCEPT
     !.live = IF c.servlet THEN c.live - 1 ELSE c.live, !.servlet = FALSE,
     !.code = FALSE, !.idleOn = TRUE, !.done = FALSE,
     !.ready = FALSE, !.body = FALSE, !.keep = FALSE,
     !.header = "none", !.buffered = FALSE, !.async = FALSE]

Clean(c) ==
  IF c.queue # <<>> THEN [c EXCEPT !.status = "CLEANING"]
  ELSE IF c.status = "STOP" THEN EndRequest(c)
  ELSE PrepareRead([EndRequest(c) EXCEPT !.status = "RUNNING"])

\* Fault: stop() forgets fd = -1.
ShutKeepsFd(c) ==
  StopTimeoutEv(
    [EndRequest(ReaderClose(WriterClose([c EXCEPT !.status = "STOP"])))
       EXCEPT !.pooled = TRUE])

\* Past its guards, stop() closes the descriptor and recycles the handler.
Shut(c) ==
  StopTimeoutEv(
    [EndRequest(ReaderClose(WriterClose([c EXCEPT !.status = "STOP"])))
       EXCEPT !.fd = NoFd, !.pooled = TRUE])

\* Fault: stop() does not wait for the queue.
StopHandlerAtOnce(c) == IF c.status = "STOP" THEN c ELSE Shut(c)

\* Fault: stop() recycles the handler before its output is sent.
StopHandlerRecyclesFirst(c) ==
  IF c.status = "STOP" THEN c
  ELSE IF c.queue # <<>> THEN [c EXCEPT !.status = "STOPPING", !.pooled = TRUE]
  ELSE Shut(c)

StopHandler(c) ==
  IF c.status = "STOP" THEN c
  ELSE IF c.queue # <<>> THEN [c EXCEPT !.status = "STOPPING"]
  ELSE Shut(c)

Error(c) ==
  StopHandler(ReaderClose(WriterClose([c EXCEPT !.failed = TRUE])))

\* Http11Handler::onCompleteEvent
OnCompleteEvent(c) == IF c.keep THEN Clean(c) ELSE StopHandler(c)

\* onNotifiedCloseEvent() answers ready.
NotifyClose(c, ready) == IF ~c.servlet \/ ready THEN StopHandler(c) ELSE c

-----------------------------------------------------------------------------
(* Response                                                                *)

\* writeBuffer(false): the header if it is not written yet, then the buffer.
WriteBuffer(c, mode) ==
  IF c.header = "none" \/ c.buffered
  THEN [Enqueue(c, NoPump) EXCEPT
          !.header = IF c.header = "none" THEN mode ELSE c.header,
          !.buffered = FALSE]
  ELSE c

\* The same, followed by a chunk's head when the framing is chunked already.
WriteChunkHead(c, mode) ==
  IF c.header = "chunked"
  THEN [Enqueue(c, NoPump) EXCEPT !.buffered = FALSE]
  ELSE WriteBuffer(c, mode)

\* Fault: complete() does not start the writer.
CompleteUnstarted(c) ==
  IF c.status # "RUNNING" THEN c
  ELSE OnCompleteEvent([WriteChunkHead(c, "length")
                          EXCEPT !.status = "ANSWERING"])

\* Fault: complete() goes ahead on a handler that is already stopping.
CompleteAnyway(c) ==
  IF c.status = "STOP" THEN c
  ELSE OnCompleteEvent([StartWrite(WriteChunkHead(c, "length"))
                          EXCEPT !.status = "ANSWERING"])

\* What is left is written (chunked: with the last chunk), then the request
\* is over.  complete() of a handler that is not RUNNING starts the writer.
Complete(c) ==
  IF c.status # "RUNNING" THEN StartWrite(c)
  ELSE OnCompleteEvent([StartWrite(WriteChunkHead(c, "length"))
                          EXCEPT !.status = "ANSWERING"])

FlushBuffer(c, mode) == WriterStart(WriteBuffer(c, mode))

\* sendfile() with a new pump f; a chunk ends with CRLF.
Sendfile(c, mode, f) ==
  LET d == Enqueue(WriteChunkHead(c, mode), f)
  IN IF d.header = "chunked" THEN Enqueue(d, NoPump) ELSE d

\* The output calls of a servlet.  write() does nothing unless the handler is
\* RUNNING; "spill" is a write() larger than the buffer.
Output(c, out, mode, f) ==
  CASE out = "none"     -> c
    [] out = "buffer"   -> IF c.status = "RUNNING"
                           THEN [c EXCEPT !.buffered = TRUE] ELSE c
    [] out = "spill"    -> IF c.status = "RUNNING"
                           THEN [WriteBuffer([c EXCEPT !.buffered = TRUE], mode)
                                   EXCEPT !.buffered = TRUE]
                           ELSE c
    [] out = "flush"    -> FlushBuffer(c, mode)
    [] out = "sendfile" -> Sendfile(c, mode, f)

-----------------------------------------------------------------------------
(* Reading and handling a request                                          *)

\* Http10Handler::onHttpCodeEvent
OnHttpCode(c) == Complete([c EXCEPT !.code = TRUE])

\* service(), then answer() unless the servlet chose the asynchronous mode.
CallService(c, s, f) ==
  LET d == Output(IF s.idleOff THEN SetIdleTimeout(c, FALSE) ELSE c,
                  s.out, s.mode, f)
      e == [d EXCEPT !.async = (d.async \/ s.async),
                     !.code = (d.code \/ s.status)]
  IN IF e.async
     THEN [e EXCEPT !.done = FALSE]
     ELSE [Complete(e) EXCEPT !.done = TRUE]

\* Fault: a servlet is taken again for every burst of body bytes.
GetServletAgain(c) == [c EXCEPT !.servlet = TRUE, !.live = c.live + 1]

GetServlet(c) ==
  IF c.servlet THEN c ELSE [c EXCEPT !.servlet = TRUE, !.live = c.live + 1]

\* The request line and the headers are complete, a servlet is there.
WithHeaders(c, keep) == GetServlet([c EXCEPT !.ready = TRUE, !.keep = keep])

\* A servlet writes from onReadBodyEvent().
BodyOutput(c, early) == IF early THEN FlushBuffer(c, "length") ELSE c

\* Fault: no further read is requested while a request is incomplete.
GoOnDeaf(c) == IF c.code THEN OnHttpCode(c) ELSE c

\* The end of handleReadCompletionEvent, after handleRequest() or after bytes
\* that do not complete the headers.
GoOn(c) == IF c.code THEN OnHttpCode(c)
           ELSE IF c.done THEN c ELSE PrepareRead(c)

-----------------------------------------------------------------------------
(* Write completions                                                       *)

\* A servlet's onWriteQueueEmptyEvent: nothing, more output, or complete().
OnWriteQueueEmpty(c, react) ==
  CASE ~c.servlet \/ react = "none"      -> c
    [] c.servlet /\ react = "write"      ->
         FlushBuffer([c EXCEPT !.buffered = TRUE], "length")
    [] c.servlet /\ react = "complete"   ->
         IF c.async THEN Complete(c) ELSE c

\* Fault: the queue ran empty, and a handler that waited to stop stays.
HandleWriteNoStop(c, react) ==
  IF c.status = "STOP" THEN StopWrite(c)
  ELSE IF c.queue # <<>> THEN c
  ELSE CASE c.status = "CLEANING"  -> Clean(c)
         [] c.status = "RUNNING"   -> StartTimeoutEv(OnWriteQueueEmpty(c, react))
         [] OTHER                  -> c

\* Fault: the queue ran empty, and a handler that waited to clean up stays.
HandleWriteNoClean(c, react) ==
  IF c.status = "STOP" THEN StopWrite(c)
  ELSE IF c.queue # <<>> THEN c
  ELSE CASE c.status = "STOPPING"  -> StopHandler(c)
         [] c.status = "RUNNING"   -> StartTimeoutEv(OnWriteQueueEmpty(c, react))
         [] OTHER                  -> c

\* handleWriteCompletionEvent with a length that is not negative
HandleWrite(c, react) ==
  IF c.status = "STOP" THEN StopWrite(c)
  ELSE IF c.queue # <<>> THEN c
  ELSE CASE c.status = "STOPPING"  -> StopHandler(c)
         [] c.status = "CLEANING"  -> Clean(c)
         [] c.status = "ANSWERING" -> c
         [] c.status = "RUNNING"   -> StartTimeoutEv(OnWriteQueueEmpty(c, react))

\* popQueueFront(), then the "queue empty" completion or the timer again
PopFront(c, react) ==
  LET d == [c EXCEPT !.queue = Tail(c.queue), !.timer = Len(c.queue) > 1]
  IN IF d.queue = <<>> THEN HandleWrite(d, react) ELSE d

\* EvNIOWriter::handle for the events of a pump
HandleTransport(c, ev, react) ==
  CASE ev = "some"  -> HandleWrite(c, react)
    [] ev = "end"   -> IF c.queue # <<>> /\ Head(c.queue).pump # NoPump
                       THEN PopFront(c, react) ELSE Error(c)
    [] ev = "error" -> Error(c)

\* sendData fires "some" and then "end" when it reaches the planned length.
OnSent(c, ev, react) ==
  CASE ev = "again" -> c
    [] ev = "last"  -> HandleTransport(HandleTransport(c, "some", react),
                                       "end", react)
    [] ev \in {"some", "end", "error"} -> HandleTransport(c, ev, react)

-----------------------------------------------------------------------------
(* The callbacks                                                           *)

Idle == {x \in all : h[x].pooled}

\* New state d of handler x, within the bounds of the instance.
Becomes(x, d) ==
  /\ Len(d.queue) <= MaxQueue
  /\ d.reads <= MaxReads
  /\ h' = [h EXCEPT ![x] = d]

\* The descriptor that a pump was given, as the kernel resolves it now.
ClientOf(fd) == {h[x].conn : x \in {y \in all : h[y].fd = fd}}

\* Response::sendfile: f is created for the connection of x.
CreatePump(x, f) ==
  IF f = NoPump THEN UNCHANGED pump
  ELSE /\ pump[f].st = "ABSENT"
       /\ pump' = [pump EXCEPT ![f] =
            [st |-> "NEW", fd |-> h[x].fd, own |-> x, conn |-> h[x].conn]]

\* HttpHandlerManager::get takes an idle handler, or creates one.
MayServe(x) == IF Idle # {} THEN x \in Idle ELSE x \notin all

\* HttpProcess::fdReadCallback: get() with init(), then start().
Accept(x, fd) ==
  /\ worker # "exited"
  /\ accepted < MaxConn
  /\ MayServe(x)
  /\ \A y \in all : h[y].fd # fd
  /\ accepted' = accepted + 1
  /\ all' = all \cup {x}
  /\ Becomes(x, PrepareRead(
       [SetIdleTimeout(h[x], TRUE) EXCEPT
          !.status = "RUNNING", !.fd = fd, !.conn = accepted + 1,
          !.servlet = FALSE, !.done = FALSE,
          !.open = TRUE, !.ropen = TRUE, !.pooled = FALSE,
          !.cut = FALSE, !.failed = FALSE]))
  /\ UNCHANGED <<pump, gone, got, worker>>

\* readCallback with bytes from the client: stopTimeoutEv() comes first,
\* popEntry() last; d is what handleReadCompletionEvent leaves.
ReadBytes(x, d) ==
  /\ h[x].watch /\ h[x].reads > 0
  /\ h[x].conn \notin gone
  /\ Becomes(x, PopEntry(d))
  /\ UNCHANGED <<all, accepted, gone, got, worker>>

\* httpCode was set before the bytes came.
ReadWithStatus(x) ==
  /\ h[x].code
  /\ ReadBytes(x, OnHttpCode(StopTimeoutEv(h[x])))
  /\ UNCHANGED pump

\* The request line or the headers are still incomplete.
ReadHead(x) ==
  /\ ~h[x].code /\ ~h[x].ready
  /\ ReadBytes(x, GoOn(StopTimeoutEv(h[x])))
  /\ UNCHANGED pump

\* They set httpCode (400, 405, 414, 505).
ReadBadHead(x, keep) ==
  /\ ~h[x].code /\ ~h[x].ready
  /\ ReadBytes(x, OnHttpCode([StopTimeoutEv(h[x]) EXCEPT !.keep = keep]))
  /\ UNCHANGED pump

\* prepareRequestBody: onReadBodyEvent wants more, or sets a status.
ReadBody(x, keep, refused, early) ==
  /\ ~h[x].code /\ ~h[x].body
  /\ h[x].ready => keep = h[x].keep
  /\ early => EarlyOutput
  /\ LET d == BodyOutput(WithHeaders(StopTimeoutEv(h[x]), keep), early)
     IN ReadBytes(x, GoOn([d EXCEPT !.done = refused, !.code = refused]))
  /\ UNCHANGED pump

\* The request is complete, or was: service() is called.
ReadRequest(x, keep, early, s, f) ==
  /\ ~h[x].code
  /\ h[x].ready => keep = h[x].keep
  /\ early => EarlyOutput /\ ~h[x].body
  /\ (f = NoPump) = (s.out # "sendfile")
  /\ LET d == BodyOutput(WithHeaders(StopTimeoutEv(h[x]), keep), early)
     IN ReadBytes(x, GoOn(CallService([d EXCEPT !.body = TRUE], s, f)))
  /\ CreatePump(x, f)

\* Fault: the end of the input closes the reader and nothing else.
ReadEndIgnored(x) ==
  /\ h[x].watch /\ h[x].reads > 0
  /\ Becomes(x, ReaderClose(StopTimeoutEv(h[x])))
  /\ UNCHANGED <<all, pump, accepted, gone, got, worker>>

\* readCallback with end of file or an error
ReadEnd(x) ==
  /\ h[x].watch /\ h[x].reads > 0
  /\ Becomes(x, ReaderClose(Error(StopTimeoutEv(h[x]))))
  /\ UNCHANGED <<all, pump, accepted, gone, got, worker>>

\* EvNIOWriter::timerCallback, the block in front is sent.
WriteFront(x, react) ==
  /\ h[x].timer /\ h[x].queue # <<>>
  /\ Head(h[x].queue).pump = NoPump
  /\ Becomes(x, PopFront([h[x] EXCEPT !.timer = FALSE], react))
  /\ got' = [got EXCEPT ![h[x].conn] = @ \cup {Head(h[x].queue).conn}]
  /\ UNCHANGED <<all, pump, accepted, gone, worker>>

WriteFails(x) ==
  /\ h[x].timer /\ h[x].queue # <<>>
  /\ Head(h[x].queue).pump = NoPump
  /\ Becomes(x, Error([h[x] EXCEPT !.timer = FALSE]))
  /\ UNCHANGED <<all, pump, accepted, gone, got, worker>>

\* SendfileIOPump::sendData; c is the owner of f when it begins.
SendData(f, c, ev, react) ==
  /\ Becomes(pump[f].own, OnSent(c, ev, react))
  /\ pump' = [pump EXCEPT ![f].st =
                 IF ev \in {"some", "again"} THEN "RUNNING" ELSE "CLOSED"]
  /\ got' = IF ev \in {"some", "last"}
            THEN [d \in Conns |-> IF d \in ClientOf(pump[f].fd)
                                  THEN got[d] \cup {pump[f].conn} ELSE got[d]]
            ELSE got
  /\ UNCHANGED <<all, accepted, gone, worker>>

\* EvNIOWriter::timerCallback, a pump is in front.
StartPump(x, ev, react) ==
  /\ h[x].timer /\ h[x].queue # <<>>
  /\ Head(h[x].queue).pump # NoPump
  /\ pump[Head(h[x].queue).pump].st = "NEW"
  /\ SendData(Head(h[x].queue).pump, [h[x] EXCEPT !.timer = FALSE], ev, react)

RestartPump(x) ==
  /\ h[x].timer /\ h[x].queue # <<>>
  /\ Head(h[x].queue).pump # NoPump
  /\ pump[Head(h[x].queue).pump].st # "NEW"
  /\ Becomes(x, Error([h[x] EXCEPT !.timer = FALSE]))
  /\ UNCHANGED <<all, pump, accepted, gone, got, worker>>

\* SendfileIOPump::timerCallback
PumpTimer(f, ev, react) ==
  /\ pump[f].st = "RUNNING"
  /\ SendData(f, h[pump[f].own], ev, react)

\* HttpHandler::timeoutCallback
IdleTimeout(x) ==
  /\ h[x].idle # 0
  /\ Becomes(x, Error([h[x] EXCEPT !.idle = 0]))
  /\ UNCHANGED <<all, pump, accepted, gone, got, worker>>

\* An asynchronous servlet at work, from a callback of its own.
ServletOutput(x, out, mode, f) ==
  /\ h[x].servlet /\ h[x].async
  /\ (f = NoPump) = (out # "sendfile")
  /\ Becomes(x, Output(h[x], out, mode, f))
  /\ CreatePump(x, f)
  /\ UNCHANGED <<all, accepted, gone, got, worker>>

ServletSetStatus(x) ==
  /\ h[x].servlet /\ h[x].async
  /\ Becomes(x, [h[x] EXCEPT !.code = TRUE])
  /\ UNCHANGED <<all, pump, accepted, gone, got, worker>>

ServletComplete(x) ==
  /\ h[x].servlet /\ h[x].async
  /\ Becomes(x, Complete(h[x]))
  /\ UNCHANGED <<all, pump, accepted, gone, got, worker>>

-----------------------------------------------------------------------------
(* The pool and the end of the process                                     *)

\* ~HttpHandler deletes the Response, which deletes its pumps.
Free(freed) ==
  /\ all' = all \ freed
  /\ h' = [x \in Handlers |-> IF x \in freed THEN NewHandler ELSE h[x]]
  /\ pump' = [f \in Files |-> IF pump[f].own \in freed THEN AbsentPump
                              ELSE pump[f]]

\* HttpHandlerManager::cleanup, from the CleanerTimer
Cleanup(freed) ==
  /\ worker # "exited"
  /\ freed \subseteq Idle /\ freed # {}
  /\ \/ Cardinality(freed) = Cardinality(all) - KeepHandlers
     \/ /\ freed = Idle
        /\ Cardinality(freed) < Cardinality(all) - KeepHandlers
  /\ Free(freed)
  /\ UNCHANGED <<accepted, gone, got, worker>>

\* HttpProcess::executeClose, on the message EXIT: notifyCloseAll(), which
\* frees the idle handlers, and exit(0) if no handler is left.
ExecuteClose(ready) ==
  LET told  == [x \in Handlers |->
                  IF x \in all /\ h[x].fd # NoFd
                  THEN NotifyClose(h[x], x \in ready) ELSE h[x]]
      freed == {x \in all : told[x].pooled}
  IN /\ worker # "exited"
     /\ all' = all \ freed
     /\ h' = [x \in Handlers |-> IF x \in freed THEN NewHandler ELSE told[x]]
     /\ pump' = [f \in Files |-> IF pump[f].own \in freed THEN AbsentPump
                                 ELSE pump[f]]
     /\ worker' = IF all' = {} THEN "exited" ELSE "closing"
     /\ UNCHANGED <<accepted, gone, got>>

ClientLeaves(c) ==
  /\ c <= accepted /\ c \notin gone
  /\ gone' = gone \cup {c}
  /\ UNCHANGED <<h, all, pump, accepted, got, worker>>

Events == {"some", "last", "end", "error", "again"}
Reactions == {"none", "write", "complete"}

Read(x) ==
  \/ ReadWithStatus(x)
  \/ ReadHead(x)
  \/ \E keep \in BOOLEAN :
       \/ ReadBadHead(x, keep)
       \/ \E refused, early \in BOOLEAN : ReadBody(x, keep, refused, early)
       \/ \E early \in BOOLEAN, s \in Service, f \in Files \cup {NoPump} :
            ReadRequest(x, keep, early, s, f)
  \/ ReadEnd(x)

WriterTimer(x) ==
  \/ \E react \in Reactions : WriteFront(x, react)
  \/ WriteFails(x)
  \/ \E ev \in Events, react \in Reactions : StartPump(x, ev, react)
  \/ RestartPump(x)

Servlet(x) ==
  \/ \E out \in Outputs \ {"none"}, mode \in Modes, f \in Files \cup {NoPump} :
       ServletOutput(x, out, mode, f)
  \/ ServletSetStatus(x)
  \/ ServletComplete(x)

Next ==
  \/ \E x \in Handlers :
       \/ \E fd \in Fds : Accept(x, fd)
       \/ Read(x)
       \/ WriterTimer(x)
       \/ IdleTimeout(x)
       \/ Servlet(x)
  \/ \E f \in Files, ev \in Events, react \in Reactions : PumpTimer(f, ev, react)
  \/ \E freed \in SUBSET all : Cleanup(freed)
  \/ \E ready \in SUBSET all : ExecuteClose(ready)
  \/ \E c \in Conns : ClientLeaves(c)

Spec == Init /\ [][Next]_vars

\* libev keeps calling the timers and the watchers; a socket whose client left
\* becomes readable (end of file), one whose client stays takes data or fails.
Fairness ==
  /\ \A x \in Handlers :
       /\ WF_vars(WriterTimer(x))
       /\ WF_vars(h[x].conn \in gone /\ ReadEnd(x))
  /\ \A f \in Files :
       WF_vars(\E ev \in Events \ {"again"}, react \in Reactions :
                 PumpTimer(f, ev, react))
  /\ WF_vars(\E freed \in SUBSET all : Cleanup(freed))

FairSpec == Spec /\ Fairness

-----------------------------------------------------------------------------
(* Properties                                                              *)

TypeOK ==
  /\ h \in [Handlers -> HandlerState]
  /\ all \subseteq Handlers
  /\ pump \in [Files -> PumpState]
  /\ accepted \in 0 .. MaxConn
  /\ gone \subseteq Conns
  /\ got \in [Conns -> SUBSET Conns]
  /\ worker \in {"serving", "closing", "exited"}

\* A handler that waits for its client can hear it: a read request is queued,
\* the watcher runs and, unless the servlet switched it off, the idle timer.
NoDeafHandler ==
  \A x \in all : h[x].status = "RUNNING" =>
     h[x].reads > 0 /\ h[x].watch /\ (h[x].idleOn => h[x].idle # 0)

\* HttpHandler.h:41: STOPPING and CLEANING are waits for unsent output.  With
\* an empty queue no completion would ever end them.
WaitHasOutput ==
  \A x \in all : h[x].status \in {"STOPPING", "CLEANING"} =>
     h[x].open /\ h[x].queue # <<>>

\* Output that is queued moves: the writer was started and either its timer or
\* the pump in front will call it.
AnswerMoves ==
  \A x \in all :
     /\ h[x].status = "CLEANING" => h[x].wrun
     /\ h[x].wrun /\ h[x].queue # <<>> =>
          \/ h[x].timer
          \/ /\ Head(h[x].queue).pump # NoPump
             /\ pump[Head(h[x].queue).pump].st = "RUNNING"

\* The pool and the descriptors agree: a handler is idle exactly when its
\* connection is closed, then nothing of it can be called back by I/O, and no
\* two handlers serve one descriptor.
PoolMatchesDescriptors ==
  /\ \A x \in all :
       IF h[x].pooled
       THEN /\ h[x].status = "STOP" /\ h[x].fd = NoFd
            /\ ~h[x].open /\ ~h[x].ropen /\ ~h[x].watch /\ ~h[x].timer
       ELSE h[x].status # "STOP" /\ h[x].fd # NoFd
  /\ \A x, y \in all : x # y /\ h[x].fd = h[y].fd => h[x].fd = NoFd

\* HttpServlet.h:102: every servlet that served a request gets exactly one
\* onCompletionEvent, whatever ended the request.
OneCompletionPerServlet ==
  \A x \in Handlers : h[x].live = IF h[x].servlet THEN 1 ELSE 0

\* When the handler reads the next request, on the same connection or on another,
\* what the last one set is reset: request, response, status code, mode and idle
\* timeout, and completeFlag as well if no servlet writes early and no pump is there.
\* Early output that is already sent leaves completeFlag set (HttpHandler.cpp:517),
\* and a pump may outlive its connection (NoStrayBytes).
CleanSlate ==
  \A x \in all : h[x].status = "RUNNING" /\ ~h[x].servlet =>
     /\ h[x].header = "none" /\ ~h[x].buffered /\ h[x].queue = <<>>
     /\ ~h[x].code /\ ~h[x].async /\ h[x].idleOn
     /\ ~h[x].ready /\ ~h[x].body /\ ~h[x].keep
     /\ ~EarlyOutput /\ Files = {} => ~h[x].done

\* Closing a connection in the regular way never cuts off queued output.
NoSilentTruncation == \A x \in all : h[x].cut => h[x].failed

\* An idle timer only ever closes the connection it was armed for.
IdleTimerIsOwn ==
  \A x \in all : h[x].idle # 0 /\ h[x].status # "STOP" =>
     h[x].idle = h[x].conn

\* A client is sent only what was written for it (Response.h:71).
NoStrayBytes == \A c \in Conns : got[c] \subseteq {c}

\* Every connection whose client has left is given up, also one that waits for
\* its servlet or for its output.
Serving(c) == \E x \in all : h[x].conn = c /\ ~h[x].pooled
ClientGoneIsReclaimed == \A c \in Conns : c \in gone ~> ~Serving(c)

\* Sending an answer ends: the connection is read again or closed.
AnswerEnds ==
  \A x \in Handlers : h[x].status = "CLEANING" ~> h[x].status # "CLEANING"

\* The connections of a worker, as HttpConnection.tla describes them.
Phase(c) ==
  IF c > accepted THEN "absent"
  ELSE IF ~Serving(c) THEN "closed"
  ELSE LET x == CHOOSE y \in all : h[y].conn = c /\ ~h[y].pooled
       IN CASE h[x].status = "CLEANING" -> "answering"
            [] h[x].status = "STOPPING" -> "closing"
            [] OTHER -> IF h[x].servlet THEN "serving" ELSE "reading"

Connection == INSTANCE HttpConnection
                WITH phase <- [c \in Conns |-> Phase(c)]
ImplementsHttpConnection == Connection!Spec
=============================================================================
