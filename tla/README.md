# libevhttp in TLA+

libevhttp is a small HTTP/1.x server library in C++ on top of libev. A master
process accepts connections and passes their descriptors to worker processes;
a worker serves many connections in one event loop, with non-blocking reads and
writes. This directory holds TLA+ modules of its core, the TLC instances that
check them, and machine-checked proofs about the output queue, the connections of a
worker, the parser of a request, the read/write pump, the dispatcher and the message
channel between the processes. Paths such as
`HttpHandler.cpp:124` are relative to `src/`.

## 1. The system

### Parts, state and operations

| Part | State | Operations | Hard behaviour |
|---|---|---|---|
| Output queue (`EvNIOWriter`, `SocketNIOWriter`) | descriptor, `isRunning`, queue of data blocks and pumps, one-shot timer | `write`, `transport`, `start`, `stop`, `close`, `setFD`, timer callback, pump events | the timer must be armed after every one of a dozen outcomes; partial writes, EAGAIN; a second timer (the pump's) drives the same queue |
| File pump (`SendfileIOPump`) | NEW / RUNNING / CLOSED, position, length, own timer | `start`, timer callback, `close` | ends by length or by end of file; sizes of its calls are computed anew after each result; goes on after its writer is closed |
| Input queue (`EvNIOReader`, `SocketNIOReader`) | descriptor, queue of read requests, watcher | `read`, `read` with a full buffer, `close`, read callback | end of file is seen only with a request outstanding |
| Connection (`HttpHandler`, `Http10Handler`, `Http11Handler`) | five-valued status, flags of the request, idle timer, servlet | read and write completions, timeout, `stop`, `clean`, `error`, `notifyClose` | nested callbacks; waits for output in STOPPING and CLEANING; reuse for further requests and connections |
| Response | framing, buffer, asynchronous mode, pumps | `write`, `flushBuffer`, `sendfile`, `setStatus`, `complete` | may be called by an asynchronous servlet at any time, also after the connection ended |
| Request (`RequestData`, parsing in `HttpHandler`) | bytes received, positions of all parts, headers | `append`, `prepareRequestLine`, `prepareRequestHeaders`, `prepareRequestBody` | any cut of the input into bursts |
| `ChunkedBodyBuilder` | size line, size, bytes read | `build` | state kept between bursts |
| Pool (`HttpHandlerManager`) | all handlers, idle handlers | `get`, `recycle`, `cleanup`, `notifyCloseAll` | handlers are recycled inside their own callbacks |
| Servlets (`HttpServletManager`, `HttpServlet.h`) | idle and recycled servlets | `get`, `recycle`, `cleanup` | one `onCompletionEvent` each |
| Dispatcher (`Dispatcher`, `HttpServer`) | live and destroyed processes | `dispatch`, `cleanup`, `notifyCloseProcesses`, `killProcesses` | forks replacements while connections are under way |
| Process channel (`Process`, `ProcessFDSender`, `HttpProcess`) | queue of descriptors, two socket pairs, `exiting` | `sendFD`, `recvFD`, messages (queries, EXIT) | a descriptor lives in two processes; numbers are used again; workers die |
| Read/write pump (`RWIOPump`, `AbstractIOPump`) | NEW / RUNNING / CLOSED, planned length, bytes per read, own timer, one buffer | `start`, `setLength`, `reset`, `close`, read and write completions, timer callback | three objects call each other in turn; the next block is read when the client took the last one (the block itself is copied, `RWIOPump.cpp:189`) |
| `EventDispatcher`, `MemoryPool`, `CleanerTimer`, `Conf`, `logger`, `HttpUtils`, `StringUtils`, ... | small | helpers | see section 8 |

### How they interact

There are no threads. Within a process everything is a libev callback that runs
to completion, including every nested listener call: a read completion may call
the servlet, which writes, which completes the response, which stops and
recycles the handler, all before the read callback pops its own queue entry.
So the unit of interleaving is one callback, and the difficulty is in what a
callback finds after its nested calls. The modules have one action per callback.
Between processes there are two socket pairs per worker (messages, descriptors)
and `fork()`.

### What makes each part correct

* Output queue: bytes leave in the order they were submitted, and no others; the queue
  never stalls; "queue empty" is reported only when everything was delivered; an error
  is reported only for an error.
* Connection: every wait ends; the client can be heard whenever the handler
  waits for it; what a request set is reset before the next; regular ends do not
  truncate answers; each servlet is completed once; no client gets another's
  bytes; no timer hits another connection.
* Pump: the client gets the source in order, also when the transfer is resumed; the end
  is told when all was taken; one block is in flight; a running pump is called back.
* Input: what is parsed does not depend on how the bytes arrive.
* Process messages: whole messages in order; numbers shown are not older than the
  question; EXIT and the end of a process are noticed.
* Dispatcher: a connection is in exactly one place; every open client descriptor
  is in one queue; what was dispatched is served; never more workers than
  configured.

## 2. Modules

| Module | Models |
|---|---|
| `ByteStream` | What `IIOWriter.h` promises its user: a FIFO of bytes with submit, deliver, shut, renew. |
| `EvNIOWriter` | `EvNIOWriter.cpp`, `SocketNIOWriter.cpp`, `SendfileIOPump.cpp`: implements `ByteStream`. |
| `EvNIOWriter_proofs` | The theorems about `EvNIOWriter`. |
| `HttpConnection` | The phases of one connection and the moves between them. |
| `HttpHandler` | `HttpHandler.cpp`, `Http1*Handler.cpp`, `Response.cpp`, `HttpHandlerManager.cpp`, with the reader and the writer as they are used there: implements `HttpConnection`. |
| `HttpHandler_proofs` | The inductive invariant of `HttpHandler` and the theorems that follow from it. |
| `HttpHandler_serves_proofs` | The theorems about what a client gets and whether it is heard. |
| `MCHttpHandler` | The servlets of the instances. |
| `RequestInput` | The request line, the headers and the chunked body, burst by burst: `HttpHandler.cpp:229-451`, `RequestData.cpp`, `ChunkedBodyBuilder.cpp`. |
| `RequestInput_head_proofs` | Where the parts of a request stand in its text, and what its line and headers do to the parser. |
| `RequestInput_proofs` | The body, one burst, the inductive invariant and the theorems about `RequestInput`. |
| `MCRequestInput` | The requests of the instances. |
| `Dispatcher` | `Dispatcher.cpp`, `HttpServer.cpp`, `Process.cpp`, `ProcessFDSender.cpp`, `HttpProcess.cpp`: descriptors. |
| `Dispatcher_proofs` | The theorems about `Dispatcher`. |
| `ProcessMessages` | `Process.cpp`, `HttpProcess.cpp`, `EvNIOReader.cpp`: messages. |
| `ProcessMessages_proofs` | The theorems about `ProcessMessages`. |
| `RWIOPump` | `RWIOPump.cpp`, `AbstractIOPump.cpp`, with its `EvNIOReader` and `EvNIOWriter` and the servlet that drives it (`RWIOPumpHttpServlet.h`). |
| `MCRWIOPump` | The offsets of the instance. |
| `RWIOPump_proofs` | The theorems about `RWIOPump`. |

### EvNIOWriter

`open` is `fd >= 0`; `running`, `queue`, `timer` are `isRunning`, `dataQueue` and
`writeEvtimer`; `pump` holds each pump's status, timer and what it still owes.
Bytes are numbered as they are accepted, so a block is an interval `from..to`
and the kernel's side is the number `sent` (bytes beyond a plan are not counted in it, they end
`exact`). `timerCallback` is split by outcome:
`WriteAll`, `WritePart`, `WriteAgain`, `WriteFails`, and with a pump in front
`StartPump` and `RestartPump`. `SendData` is `SendfileIOPump::sendData`; its
events go to `EvNIOWriter::handle`, whose end-of-transfer branch is
`TransportEnd`. A pump with a planned length (`limited`) may have more of its file behind
the plan (`more`). `each` and `cap` are `readBytesPerEach` and `sendBytesPerEach`: a call of
`sendfile()` asks for `cap` bytes; `Caps` gives the `cap` of the next call, and `SendAgain`
(EAGAIN) sets it to `each`, whatever is left of the plan (`SendfileIOPump.cpp:146-148`).
`Offered` is what the call can therefore take, so the last one of a planned transfer may take
more than the plan (section 6). `ordered`, `exact`, `failed` and `event` are history: whether
all deliveries were contiguous, whether the descriptor took submitted bytes only, whether
the system reported an error, and the last completion event; `again` is history of a pump
(the last call, or the last before the one that ended the transfer, met EAGAIN), by which
`Overshot` says who may have ended `exact`, and by how much. `SetFD` waits until no
pump of the old descriptor runs; what happens without that wait is the subject of the run `stray`.

### HttpHandler

Each handler is a record: status, the writer's and reader's state, the idle
timer (0, or the connection it was armed for), the request's flags
(`ready` headers, `body`, `keep`, `done` = `completeFlag`, `code` = `httpCode` is
set), the servlet and the response. The methods are operators on that record
and are composed the way the code calls them, e.g.
`Error` = close writer, close reader, `StopHandler`; `Complete` =
write what is left, start the writer, then `OnCompleteEvent`, which is `Clean`
or `StopHandler`. The actions are the callbacks: `Accept`, the reads by what
they bring (`ReadHead`, `ReadBadHead`, `ReadBody`, `ReadRequest`, `ReadWithStatus`,
`ReadEnd`), `WriteFront`, `WriteFails`, `StartPump`, `RestartPump`, `PumpTimer`,
`IdleTimeout`, the calls of an asynchronous servlet, `Cleanup` of the pool,
`ExecuteClose` (EXIT), and a client that leaves. A burst of output is one block;
EAGAIN and partial writes do not change the state here and are left to
`EvNIOWriter`.

A servlet is a member of `Service`: what it writes (nothing, into the buffer,
more than the buffer, with a flush, or a file), how it frames the answer, whether
it is asynchronous, sets a status, or switches the idle timeout off. With
`EarlyOutput` it may also write while it is still being given the body. An asynchronous servlet calls
`Output`, `setStatus` and `complete()` at any time until it is handed back, whatever the
handler's status. A `complete()` later than that is not taken: the handler is in the
pool, without a descriptor, and `StartWrite` then does nothing. `setIdleTimeout(true)` is
called by `start()` of the handler (`Accept`); a servlet only switches the timer off, as those
of the example do.

### RequestInput

A byte is one of the characters the code looks for, a digit, or a member of `Other`. The
code also looks for HT, which counts as white space in front of a value and at the
beginning of a folded line (`HttpHandler.cpp:412`, `RequestData.cpp:156`); HT is left out, and no
member of `Other` stands for it.
The operators keep the parser's positions and its loop over bytes, with the local
variables of `prepareRequestHeaders` in the record `k` (`HeaderLoop`). `Read(n)` is one
completion with `n` bytes; `ReadTooLong` and `ReadBadLine` are the refusals with
414 and 400. The consumer of the body is the chunked builder, as in the example
servlet `ReadChunkedBodyHttpServlet`; `BuildLoop` is `build()` byte by byte.

`IsRequest` says which requests a client may send, and `RequestsAssumption` that
`Requests` are such. They are of any length and have any number of headers and blocks:

* the method is not empty (a leading blank would leave `methodEnd` 0) and has no blank;
  it may hold a LF, which is refused with 400;
* the path has no `?`, blank or LF, parameters have no blank or LF and are
  followed by a protocol (see section 6), and the protocol has no LF;
* a header's name is not empty, does not begin with a blank or a NUL, and holds no `:` and
  no LF; after `:` and blanks comes a value, which does not begin with a blank, CR or LF and
  whose LFs are followed by a blank (a folded header); a line without `:` has no value;
* a block has 1 to 3 bytes, so its size line is one digit: longer size lines are the
  business of `strtol` (`Size`). Its bytes are arbitrary, and may look like the framing;
* what follows the last block (`ending`) is arbitrary. `Closes` is what `build()` waits for
  there, a CR behind a LF. The bodies that `Response` writes have it; `input_plain_end` is
  about those that do not.

### Dispatcher

`proc` holds the master's `HttpProcess` objects and their descriptor senders,
`child` the worker processes with what is in their channels, `table` the
master's descriptor table (client descriptors only, lowest free number first),
`copies` the descriptors a child inherited at `fork()`. `failed` is history: a
worker died or a descriptor could not be sent. The master's sockets to its workers are
not in `table`, so a descriptor number that is closed too late (`SendFDFails`) may belong to
another client in the model, but not to such a socket.

### ProcessMessages

`end` holds both `Process` objects: the reader's queue of requests (`want` =
`planLength`, `buf` = what has arrived), `msgExist` and the header read last.
`wire[e]` is what was written for `e` and not read yet, in the peer's
`EvNIOWriter` or in the socket. A byte is its message and its place in it, so a
message that was put together wrongly is seen. One `recv()` is one action, with
any number of bytes that fit the request. When a process ends (`Dies`, or
`exitProcess`), what the kernel had not taken from it is lost, at any byte. The
result of `recv()` is kept in an unsigned variable (`EvNIOReader.cpp:111`), so an
error shortens a request that has bytes and fails one that has none
(`ReceiveError`); a readiness without data is assumed not to happen on a socket
pair, it would lose a byte in the same way. `Dispatcher` abstracts this module to
EXIT messages and to `ExitProcess` of a dead worker; `ExitArrives` and
`DeathIsNoticed` say that these do happen.

### RWIOPump

A byte is its place in the source. `status`, `offset`, `length`, `each`
(`readBytesPerEach`), `timer` and `sended` are the pump's fields; `reading` and
`pos` are its reader's `entryQueue` and the position of the source; `queue`,
`running` and `wtimer` are its writer's. The pump is an event listener of both, so
each action is a callback of one object with what it makes the others do:
`ReadSome` is a read that is written at once, `ReadEnd` and `ReadFails` end the
transfer, `WriteAll`, `WritePart`, `WriteLast`, `WriteFails` and `WriteAgain` are the
outcomes of the writer's timer, `PumpTimer` is the timer that asks for the next
block. The servlet calls `Start` when the header is out, `Close` when its connection
is given up, and ends the transfer in the transport event (`Complete`). It may also
`Reset` the pump and start it again. `base`, `sent`, `ordered`, `dropped` and `ended` are
history: `GoesOn` compares where a transfer starts with what the client has had before, and
`dropped` says that `reset()` emptied a queue in between, so `ordered` is about all transfers of
the pump and not only about the last one. A speed limit is modelled by the size of
the reads it gives (`CalculateSpeed`), not by the intervals. The writer here is the
pump's own, with nothing else in it.

## 3. The runs

| Run | Instance | Shows |
|---|---|---|
| `writer` | 2 pumps, blocks of 1-2 bytes, 5 bytes per descriptor, files 0 or 1 byte longer than planned | order, nothing but the submitted bytes except by an overshoot, no stall, completion means delivered, callbacks find work, refinement of `ByteStream`, everything drains |
| `handler` | 1 handler, 1 descriptor, 1 file, 2 connections, 9 kinds of servlet, early output | `WaitHasOutput`, `AnswerMoves`, `OneCompletionPerServlet`, `NoSilentTruncation`, refinement of `HttpConnection` |
| `pool` | 2 handlers, 2 descriptors, 2 connections, no files, no early output | `PoolMatchesDescriptors`, `CleanSlate`, `IdleTimerIsOwn`, `NoDeafHandler`, `NoStrayBytes` |
| `live` | 1 connection, 1 file, pool of size 0 | `ClientGoneIsReclaimed`, `AnswerEnds` |
| `dispatcher` | 2 workers and 1 replacement, 3 connections, 2 numbers | `InOnePlace`, `CustodyUntilFailure`, `PoolStaysWithinLimit`, `DispatchedIsServed` |
| `messages` | 3 messages (query, user message with data, EXIT), headers of 2 bytes, data of 1 or 2 | `MessagesArriveWhole`, `OneReadOutstanding`, `AnswersAreFresh`, `ExitArrives`, `DeathIsNoticed` |
| `pump` | a source of 5 bytes, blocks of 3; 5 offsets, planned lengths 2, 3, 4 and none, with and without a speed limit, two resets | `OutIsSource`, `EndMeansAllSent`, `OneBlockInFlight`, `RunningIsCalledBack`, `TransferEnds` |
| `input` | 269 requests, every cut into bursts | `SplitIndependent`, `ParsedIsSent` (`HeadIsRight` and `BodyIsRight`) |
| `behind_pump`, `stray`, `dispatcher_inherit`, `input_plain_end` | small | one divergence each, section 5 |

The bounds, and why they suffice:

* `MaxBlock` 2 gives blocks that are taken whole and in parts; `MaxBytes` 5 gives
  queues of several blocks and two files, of both kinds (planned length, end of
  file), one behind the other. `MaxMore` 1 is enough for a transfer to overshoot, and for
  another one not to. The theorems have no such bound.
* `MaxConn` 2 on one handler is one reuse of the object; what a request leaves
  behind is seen by the next. `MaxQueue` 4 is a header, a file, the CRLF of a chunk
  and the last chunk. `MaxReads` 2: between callbacks a
  handler has one read request, and within the read callback the next one is queued before the
  old one is popped.
* Two handlers and two descriptors let a number be used again while the other
  handler is busy. `pool` is without files because a pump that outlives its
  connection is a known violation of `NoStrayBytes` (run `stray`); without
  pumps the property holds.
* Two workers, one replacement: a worker dies while another serves, and the
  replacement is forked with open descriptors. Three connections on two numbers:
  each number is used twice. `MaxExits` only bounds repeated
  `notifyCloseProcesses`.
* Headers and answers of 2 bytes can be read in one part and in two, and cut off in the
  middle; three messages put a header behind data and data behind a header.
* A source of 5 bytes and blocks of 3 give two reads and a short one, blocks taken whole
  and in parts, planned lengths below, at and above a block, and offsets before, at
  and behind the end; two resets start a transfer a second and a third time. The
  theorems have none of these bounds.
* `LineMax` 24 and `BufferSize` 40 in `input` are longer than the longest
  request line and about as long as the longest request, so a request arrives in
  anything from one burst to one burst per byte, and some first bursts are
  refused with 414.

Deadlock is not checked in the instances of `HttpHandler`, `Dispatcher`,
`ProcessMessages`, `RWIOPump` and `RequestInput`: they stop when all connections of
the bound are used up, both processes are gone, the pump is closed or the request is
read. `EvNIOWriter` never stops.

`Symmetry` (handlers, descriptors and files are interchangeable) is used only in
`pool`, which checks invariants.

## 4. Fairness

* `EvNIOWriter`: a timer that stays armed is called, and a descriptor that is
  offered the same bytes again and again takes some: weak fairness of
  `WriteAll \/ WritePart`, of starting a pump, and of a running pump's progress.
  It is what libev and a peer that reads give. Nothing is assumed about the
  owner: `Drains` allows it to stop or close the writer.
* `HttpHandler`: timers and watchers that stay active are called; a client that
  left makes its socket readable (end of file); a peer that stays takes data or
  the write fails (a peer that neither reads nor leaves can hold a handler in
  CLEANING for ever, because the idle timer does not run there). Nothing is
  assumed about servlets: an asynchronous one may never answer.
* `Dispatcher`: senders, receivers and the ends of channels are served by the two
  event loops. No fairness for `Finish`, so handlers may take for ever, nor for
  any failure.
* `ProcessMessages`: a socket with data is read, one whose peer is gone reports it.
* `RWIOPump`: timers that are armed are called; a source that is asked gives bytes or
  its end; a client that is offered a block takes some of it or leaves. None for the
  servlet's calls nor for failures.

## 5. Disagreements between code and text that a run shows

1. `behind_pump`: `write()` behind a running pump re-arms the writer's timer
   (`EvNIOWriter.cpp:95`); its callback starts the pump again, takes the refusal for
   an I/O error (`:178`) and closes a healthy connection. `ErrorsAreIOErrors`
   fails. `Response::sendfile` itself does this with chunked framing.
2. `stray`: closing a connection leaves a running pump with its descriptor number
   (`EvNIOWriter.cpp:136`); the next connection with that number gets the rest of
   the file.
3. `dispatcher_inherit`: replacements are forked from `dispatch()` and keep copies
   of client descriptors (`HttpProcess.cpp:219`).
4. `input_plain_end`: a chunked body that ends with `0 CRLF CRLF` is never seen to
   end (`ChunkedBodyBuilder.cpp:84`); one that ends like this library's own answers
   is.

## 6. Behaviours kept in the models without a run of their own

* The planned length of a file is a maximum (`IIOPump.h:46`), and `sendData()` caps its next
  call at what is left of it (`SendfileIOPump.cpp:139-142`). EAGAIN takes the uncapped size
  again (`:146-148`), and a sum beyond the plan is accepted (`:110`): of a plan of 10 bytes 6 are
  sent, then EAGAIN, then 10 more. The client gets up to one read more of the file than
  `Content-Length` or the chunk's size said. `SendAgain` and `SendLast` keep this. `InOrder` says that nothing else
  makes the descriptor take bytes that were not submitted, and how many they are at most
  (`Overshot`); in `ByteStream`, `Deliver` may end `exact`.
* `resources.h:78` says that a pool size of 0, the default, is no limit; `cleanup()` takes it as
  0 handlers to be kept and frees every idle one (`HttpHandlerManager.cpp:82-88`). `Cleanup`
  with `KeepHandlers = 0` keeps this.
* `Process.cpp:194` says a descriptor is closed whether or not it was sent; on failure
  `ProcessFDSender.cpp:47-52` names the descriptor of the *last successful* event (or
  -1), so that one is closed and the unsent ones stay open (`SendFDFails`).
* `RWIOPump` with a planned length asks for no block after the first
  (`RWIOPump.cpp:119-137`): unless the plan fits one read, the transfer stands still
  for good (`NextBlock`). `RunningIsCalledBack` and `TransferEnds` are stated for
  transfers without a planned length.
* `reset()` of `RWIOPump` keeps the pump's timer and `sendedBytes` (`RWIOPump.cpp:69`): a
  transfer with a planned length that is started again ends when both together
  reach the plan, and the old timer may ask for a block while one is in flight. `EndMeansAllSent` and
  the first half of `OneBlockInFlight` are stated up to the first reset.
* The limit of the request line is compared with everything received, headers and
  body included (`Http10Handler.cpp:139`), so a short line can be refused with 414
  when much arrives with it (`ReadTooLong`).
* `totalRequestCount` is raised by every `clean()` (`HttpHandler.cpp:202`), also when an
  idle connection is closed (`CountRequest` does not say when).
* Early output: `completeFlag` is set from the result of `handleRequest()` after
  `clean()`, called inside it, has reset it (`HttpHandler.cpp:517`). If the output
  was already sent, `clean()` runs at once, the flag stays set, and the next
  request on the connection is not read beyond its first burst (`:526`).
  `NoDeafHandler`, and what `CleanSlate` says of `done`, is therefore checked and proved
  with `EarlyOutput = FALSE`; the run `handler` has it `TRUE`.
* `setStatus()` of an asynchronous servlet completes the response at the next
  burst without its `complete()` (`Response.cpp:133`, `HttpServlet.h:101`).
* A worker told to exit looks once whether all handlers are closed
  (`HttpProcess.cpp:47`); if one is busy it never looks again and stays until the
  master ends or kills it (`worker` in `HttpHandler` stays "closing").
* `stop()` of the writer leaves a running pump alone, whose end arms the timer of
  the stopped writer (`EvNIOWriter.cpp:271`). Nothing in the library calls it;
  `NoStall` and `Drains` speak of running writers.
* The loop over the parameters of a request line lacks a `break` after the LF of a
  line without protocol (`HttpHandler.cpp:328`), so later lines move the
  positions. `Params` keeps this; such lines are answered 505 by
  `Http11Handler` anyway, and the instances do not contain them.
* The LF after the CR that ends a chunked body is left to the next burst.
* `Dispatcher`: EXIT may overtake descriptors that were sent before it, and they are
  lost with the worker; `DispatchedIsServed` is stated up to the first failure.

## 7. Theorems

The theorems hold for every value of the constants and rest only on the named
assumptions of the modules (sizes are positive, bounds are numbers, `NoPump` is not a
pump, requests are such as `IsRequest` says, and the like), which TLC evaluates in every run of those modules. Each proof
module defines an inductive invariant `IInv`, shows that `Init` gives it and every
action keeps it, and derives the properties of the run from it.

| Module | Theorem | Says |
|---|---|---|
| `EvNIOWriter_proofs` | `Invariance` | `Spec => []IInv` |
| | `TypeCorrect`, `NeverStalls`, `DeliversInOrder`, `EmptyIsDelivered`, `CallbacksHaveWork` | `TypeOK`, `NoStall`, `InOrder`, `EmptyMeansDelivered`, `CallbacksFindWork` always hold |
| | `WriterImplementsByteStream` | every step of the writer is a step of `ByteStream` or leaves its variables unchanged |
| `HttpHandler_proofs` | `HandlerInvariance`, `HandlerTypeCorrect`, `WaitsAreForOutput`, `OutputMoves`, `PoolAndDescriptorsAgree`, `ServletsCompleteOnce`, `TruncationIsAnError`, `IdleTimersAreOwn` | `IInv`, `TypeOK`, `WaitHasOutput`, `AnswerMoves`, `PoolMatchesDescriptors`, `OneCompletionPerServlet`, `NoSilentTruncation`, `IdleTimerIsOwn` always hold |
| | `WorkerImplementsHttpConnection` | every callback moves each connection as `HttpConnection` allows, or leaves it |
| `HttpHandler_serves_proofs` | `NobodyElsesBytes`, `NobodyElsesBytesWithoutFiles` | `NoStrayBytes` always holds if no pump outlives its connection; if there are no files, always |
| | `RunningPumpsAreInFront` | under the same premise a running pump is the front of its owner's queue |
| | `HandlersHear`, `HandlersHearWithoutFiles` | `NoDeafHandler` always holds without early output, under the same premise; if there are no files, without it |
| | `RequestsStartClean` | `CleanSlate` always holds, for any servlets and files; what it says of `completeFlag` is about workers without early output and files |
| `RequestInput_proofs` | `ParserInvariance`, `ParserTypeCorrect`, `AnySplitIsTheSame`, `RequestIsSent` | `IInv`, `TypeOK`, `SplitIndependent`, `ParsedIsSent` always hold |
| | `HeadIsSent` | the first half of `ParsedIsSent`: the request line and the headers |
| `RWIOPump_proofs` | `PumpInvariance`, `PumpTypeCorrect`, `PumpSendsTheSource`, `PumpEndsAfterAll`, `PumpFlowControl`, `PumpNeverForgotten` | `IInv`, `TypeOK`, `OutIsSource`, `EndMeansAllSent`, `OneBlockInFlight`, `RunningIsCalledBack` always hold |
| `Dispatcher_proofs` | `DispatcherInvariance`, `DispatcherTypeCorrect`, `ConnectionsAreInOnePlace`, `MasterKeepsCustody`, `PoolIsWithinLimit` | `IInv`, `TypeOK`, `InOnePlace`, `CustodyUntilFailure`, `PoolStaysWithinLimit` always hold |
| `ProcessMessages_proofs` | `MessagesInvariance`, `MessagesTypeCorrect`, `WholeMessages`, `OneRead`, `FreshAnswers` | `IInv`, `TypeOK`, `MessagesArriveWhole`, `OneReadOutstanding`, `AnswersAreFresh` always hold |

### The output queue

None of the properties is inductive alone: "queue empty means delivered" follows
only if the queue's blocks cover exactly what is not yet sent. `IInv` therefore
adds to `TypeOK` and the run's properties:

* `ClosedOrDrained`: a closed writer has nothing queued, and an open one with an empty
  queue owes nothing;
* `Contiguous`: the blocks of the queue follow each other without a gap up to
  `submitted`;
* `FrontIsNext`: a data block in front begins at `sent + 1`;
* `QueuedPumps`: a queued pump is NEW, or in front and RUNNING; it stands at the start
  of its block, in front at `sent + 1`, owes the rest of it, and is queued once; before
  it met EAGAIN its `cap` is within what is left of a planned length (`Planned`);
* `RunningPumpsHaveTimers`.

The preservation proof has a lemma per operation (`PushInv`, `StartStopInv`,
`ClosedInv`, `WritePartInv`, `WriteAllInv`, ...). `PopFrontInv` is shared by the end
of a data block and of a transfer, `SendDataInv` by the start of a pump and its
timer. Three lemmas say what `Append`, `Tail` and trimming the front do to the
items of a queue. `OnlySubmitted` needs `Planned`: only a `cap` taken anew after EAGAIN can
exceed the rest, so a transfer that ends `exact` is `Overshot`, and it stays so, as a closed
pump is not touched again (`OnlySubmittedStays`). The refinement (`NextMoves`) uses `IInv` to
show that the bytes taken are the next ones.

### The connections of a worker

A callback is a composition of methods, and in the middle of one the properties do not
hold: `complete()` has set ANSWERING and not yet called `clean()`, a servlet was taken
and the status not yet looked at. So the proof follows the methods. `Good(c, S, R)` says
what holds of a handler `c` between callbacks, when it owns the pumps `S` and the pumps `R`
are running; `Base` is the part of it that every method keeps:

* each field has its type, and what ties fields together: one completion due per servlet,
  `cut` only with `failed`, no idle timer armed while it is switched off (`Typed`);
* a pooled handler is `Closed`: no descriptor, watcher, timer, output, servlet; any other is
  `Opened`: descriptor, reader and writer open, status not STOP;
* `Flow`: queued output of a started writer has the timer, or a pump of `R` in front;
* `IdleOwn`: an idle timer is that of the connection.

The rest of `Good` is `Wait` (STOPPING and CLEANING have output, ANSWERING does not outlast a
callback, CLEANING has a started writer) and `Fresh` (RUNNING without a servlet means that
all of `CleanSlate` but `done` holds). A lemma per method says which of these it needs and which
it gives: `StopHandlerGood`, `ErrorGood`, `CleanGood`, `CompleteGood`, `CallServiceGood`,
`PopFrontGood`, `OnSentGood`, `AcceptGood`, ... Methods that touch only some groups of
fields are classified (`Rests`: reader and idle timer; `Writes`: output; `Requests`: the request), so the
rest is shown unchanged once per class. Each action is then one lemma (`...Stepped`), and
`SteppedInv` lifts the new state of one handler to all of them: `PumpsKeepGood` says that the
others do not mind a pump that was created, or one of somebody else that ended. `IInv` is `Good` of
every handler with the pumps it owns, `PumpsInv`, `DescriptorsInv` and `ConnsInv` (a
connection has one handler at most). `Moves`, kept beside `Good`, is what a callback may do to
the status of a connection, and is all that the refinement needs besides `IInv`. The servlet is
any member of `Service`, and early output is allowed.

`NoStrayBytes` and `NoDeafHandler` do not hold for all values of the constants: both fail once a
file pump outlives its connection (section 5), and the second also with early output
(section 6). `HttpHandler_serves_proofs` shows that nothing else breaks them. Its premise
`PumpsEndWithConnections` says that no pump runs for a connection that its handler no
longer serves; the run `stray` finds the behaviour of the code in which it does not hold. A
behaviour that keeps it keeps `NoStrayBytes` (`NextStray`: a queued block is its connection's,
and `PlacesInv`, a part of `IInv`, gives the pump of a served connection that connection's
descriptor) and has every running pump in front of its owner's queue (`PumpInFront`). The
latter is what `NoDeafHandler` needs: the end of a pump pops the front of its owner's queue and
then reports to the handler, which must not be one that has written nothing and waits for its
client. `Hears` says the rest: a RUNNING handler has a read request, an active watcher and the idle
timer unless it is switched off, and has neither completed its answer nor, with a synchronous
servlet, begun it. Without files the premise holds by itself, which gives the two corollaries
that the run `pool` shows on its instance. `Hears` also has that `completeFlag` is not set, which
`RequestsStartClean` takes from it for workers without early output and files; the rest of
`CleanSlate` is `Fresh`.

### The parser of a request

`SplitIndependent` compares two runs of the parser and `ParsedIsSent` compares the parser with
the request; both follow from one description of the parser in terms of the request alone.
`ParserIs(r, n, s, b)` says what head `s` and builder `b` are when the first `n` bytes of the
text of `r` have been seen; it determines both (`ParserUnique`), holds at the start
(`ParserAtStart`), and is handed on by `Handle` from any position to any later one
(`HandleStep`). The invariant is that `ParserIs` holds at `received`, and that `DataIs` does: the
bytes kept are those of the text, as far as they were not erased. After an error,
`ParserIs` holds at the end of the burst before.

* `RequestInput_head_proofs` first computes where each part of a request begins in its text
  (`Places`), which bytes stand there (`LineFacts`, `HeaderIsAt`) and therefore which do not. In
  the request line each of the four searches finds its end as soon as it has arrived and not
  before; `LineAt(r, n)` is the head in between. The headers are a loop over bytes that starts again at the
  last finished header on every burst. `LoopState(r, i, k)` is the state of the local variables
  before byte `i`, and `HeaderStateStep` is the step: within a header, at the first byte of the next one (which
  saves it), at the empty line, and behind it. `LoopStands` and `HeadersSteps` say that the
  loop, entered again at `cur` with its variables reset, comes to the same state; that is the
  heart of `SplitIndependent`.
* `RequestInput_proofs` describes the builder likewise: `BodyState(r, n, b)` says in which block
  byte `n` is, which part of it `b` has given out, and what it keeps of the size line;
  `BodyStateStep` is the step over one byte. Between two bursts `build()` forgets that it has to step over a
  byte (`skip`); `BodyStopped` shows that this changes nothing, since that byte is a CR or LF in
  front of a size line, which the next call drops as well. `BodyFacts` reads off
  the state what was given out, `BodyCloses` that the end is seen.

The model's loops are recursive functions, so that what they compute can be shown by induction: the
library's induction theorems are about operators, which the provers cannot instantiate, but
well-foundedness of `<` on the natural numbers gives the same for sets (`LeastNumber`, `Induction`),
and with it that the functions exist (`BuildRunExists`) and what they keep (`HeaderLoopStates`,
`BuildLoopSteps`).

### The read/write pump

`OutIsSource` looks at what the client has; what it will get is spread over the
writer's queue, the reader's request and the source's position. `IInv` says that
these join without a gap: `Contiguous` (queued blocks follow each other up to
`Mark`, the byte before the next one to be read) and `FrontIsNext` (the queue, or else
the next read, follows what the client took). `Stands` carries this over a reset: without
an offset the client is never ahead of the source, and behind it before a start only if
`reset()` dropped something. `Planned` counts: with a planned
length at most one block is under way, what was sent and the next read fit into the
plan. `OneRequest`, `AtRest`, `EndedIsClosed` and `WriterGoes` tie the status to the
timers and queues. `ReadsFitTheBuffer` is the lemma about `CalculateSpeed`.

### The dispatcher

`InOnePlace` and `CustodyUntilFailure` count with cardinalities and sequences. `IInv`
says the same without counting: `Places` (whatever is in two places of one kind is in
one place, places of different kinds have nothing in common, and only accepted
connections are anywhere) and `Custody` (until a failure the open descriptors are the
queued ones, each at one position of one queue of a working sender). `Channels`
gives "buried at most once": an open message channel belongs to a listed process
that was never buried. `Unforked` says that workers not yet forked have nothing, so a
replacement starts empty; `Limit` is the bound itself, kept because `Missing` forks only what
is missing. The lemmas `LosePlaces`, `AcceptPlaces`, `SendPlaces` and `RecvPlaces` (and
`CustodyKept`, `CustodyAccepts`, `CustodyGives` for the descriptors) state once what it
takes to lose, add or move connections without disturbing the rest.

### The message channel

`MessagesArriveWhole` needs to know where in the stream each end is. The messages sent
to an end lie one after the other; `Offsets` gives the place where each begins.
`Reading` says that what the end has consumed (the messages it was handed, the header
it keeps, its buffer) is a prefix of that stream, that the buffer and the header are
the bytes of the current message (`Holding`), and that the wire is the stream from
there on, all of it while both ends live (`Stream`). Each action is a lemma about one
channel (`PartArrives`, `HeaderArrives`, `MessageArrives`, `SendOpen`, `CutWire`,
`ErrorEnd`, ...), used for both directions. `AnswersAreFresh` is counted (`Counts`):
the queries without answer are the queries the worker has not handled and the answers under way,
in the same order, and no answer under way is older than its query.

### Only model-checked

`ClientGoneIsReclaimed`, `AnswerEnds`, `DispatchedIsServed`, `Drains`,
`ExitArrives`, `DeathIsNoticed`, `TransferEnds` and all other liveness (reasoning with
fairness and ENABLED is beyond the prover): these are all temporal properties the runs check, except the two
refinements. `ErrorsAreIOErrors`, `NoStrayBytes` with files, `ClosedEverywhere` and `EndIsSeen` are the
properties that the runs of section 5 find violated. Every invariant that a passing run checks is stated by a theorem.

## 8. Not modelled

* Texts: status lines, header wording, cookies, dates, MIME types, logging;
  `parseParameters`, which splits a complete string.
* Intervals of time: speed limits set the timer's interval and the bytes per call (the
  latter is in `RWIOPump`); pumps that write in blocking mode.
* `EventDispatcher`: each event in the modelled parts has one listener, registered once and
  not removed while it is called; `fireAsynEvent` has no user. `MemoryPool`: plain
  `malloc` and `free`, and groups of pointers freed together; invisible to the other
  modules.
* `Conf`, `SocketUtils`, `logger`, `ProcessSignal`, `Timer`: wrappers of system calls.
* The example program, apart from the two servlets that drive modelled parts. Most
  files of the repository by number and size are the JavaScript, style sheets and pages in
  `evhttpd_example-0.0.3/www` (jQuery, jQuery UI, flot, and the web pages of another
  product): files for the example to serve. They are not part of the library, and
  nothing here models them. Of the library's own C++ sources (`*.cpp` outside the
  example) the modules cover about half of the lines of code; the rest is mostly the texts and wrappers named
  above.

## 9. What is left

* A stream of pipelined requests on top of `RequestInput`: `clean()` drops the bytes behind
  a request that came in the same burst (`HttpHandler.cpp:185`).
* The framing of `Response` against a reading client.
* Blocks of a body whose size line has several digits in the theorems about `RequestInput`.

## 10. Running

`tlc -config EvNIOWriter.cfg EvNIOWriter`, and likewise for the other
configurations (`HttpHandler*.cfg` with `MCHttpHandler`, `RequestInput*.cfg` with
`MCRequestInput`, `RWIOPump.cfg` with `MCRWIOPump`); `tlapm EvNIOWriter_proofs.tla`, and
likewise for the other `*_proofs` modules (those of `Dispatcher`, `HttpHandler` and `RequestInput` take some minutes).
