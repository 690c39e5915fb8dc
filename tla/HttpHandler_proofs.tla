------------------------- MODULE HttpHandler_proofs -------------------------
(***************************************************************************)
(* Proofs about HttpHandler for any number of handlers, connections,       *)
(* descriptors and files, and for any servlets.                            *)
(*                                                                         *)
(* A callback composes methods of one handler, so the inductive step is    *)
(* taken method by method.  Good says what holds of a handler between      *)
(* callbacks, Base what holds also in the middle of one, and a lemma for   *)
(* each method says which of the two it needs and which it leaves.         *)
(***************************************************************************)
EXTENDS HttpHandler, SequenceTheorems, TLAPS

FieldNames ==
  {"status", "fd", "conn", "open", "wrun", "queue", "timer", "ropen", "reads",
   "watch", "idle", "idleOn", "ready", "body", "keep", "done", "code",
   "servlet", "live", "header", "buffered", "async", "pooled", "cut", "failed"}

Shape(c) == /\ DOMAIN c = FieldNames
            /\ c = [f \in FieldNames |-> c[f]]

Statuses  == {"RUNNING", "ANSWERING", "STOPPING", "CLEANING", "STOP"}
BlockOf(S, k) == [pump : S \cup {NoPump}, conn : Conns \cap {k}]

\* The type of a handler whose pumps are in S, by groups of fields, with what
\* ties the fields of a group to each other.
PlaceType(c)     == /\ c.status \in Statuses /\ c.fd \in Fds \cup {NoFd}
                    /\ c.conn \in Nat /\ c.pooled \in BOOLEAN
WriterType(c, S) == /\ c.open \in BOOLEAN /\ c.wrun \in BOOLEAN
                    /\ c.queue \in Seq(BlockOf(S, c.conn)) /\ c.timer \in BOOLEAN
ReaderType(c)    == /\ c.ropen \in BOOLEAN /\ c.reads \in Nat
                    /\ c.watch \in BOOLEAN
IdleType(c)      == /\ c.idle \in Nat /\ c.idleOn \in BOOLEAN
                    /\ c.idleOn \/ c.idle = 0
RequestType(c)   == /\ c.ready \in BOOLEAN /\ c.body \in BOOLEAN
                    /\ c.keep \in BOOLEAN /\ c.done \in BOOLEAN
                    /\ c.code \in BOOLEAN
ServletType(c)   == /\ c.servlet \in BOOLEAN
                    /\ c.live = IF c.servlet THEN 1 ELSE 0
ResponseType(c)  == /\ c.header \in Modes \cup {"none"}
                    /\ c.buffered \in BOOLEAN /\ c.async \in BOOLEAN
HistoryType(c)   == /\ c.cut \in BOOLEAN /\ c.failed \in BOOLEAN
                    /\ c.cut => c.failed

Typed(c, S) ==
  /\ Shape(c)
  /\ PlaceType(c) /\ WriterType(c, S) /\ ReaderType(c) /\ IdleType(c)
  /\ RequestType(c) /\ ServletType(c) /\ ResponseType(c) /\ HistoryType(c)

\* Nothing is left of a finished request.
Slate(c) == /\ c.header = "none" /\ ~c.buffered /\ c.queue = <<>>
            /\ ~c.code /\ ~c.async /\ ~c.ready /\ ~c.body /\ ~c.keep

\* A handler without a connection, as it was constructed or in the pool.
Closed(c) ==
  /\ c.status = "STOP" /\ c.fd = NoFd /\ ~c.open /\ ~c.ropen
  /\ ~c.timer /\ c.reads = 0 /\ ~c.watch /\ ~c.servlet /\ Slate(c)

Opened(c) ==
  c.status # "STOP" /\ c.fd # NoFd /\ c.open /\ c.ropen /\ c.conn \in Conns

\* Queued output moves, by the timer or by a pump of R in front.
Flow(c, R) ==
  c.wrun /\ c.queue # <<>> => c.timer \/ Head(c.queue).pump \in R

\* An idle timer is that of the connection.
IdleOwn(c) == c.idle # 0 /\ c.status # "STOP" => c.idle = c.conn

\* What holds of a handler of allHttpHandlers also within a callback.
Base(c, S, R) ==
  /\ Typed(c, S) /\ IdleOwn(c) /\ Flow(c, R)
  /\ IF c.pooled THEN Closed(c) ELSE Opened(c)

\* A wait is one for output, and a handler without a servlet is ready for the
\* next request; Wait in two parts, as the first may be about to be false.
HasOutput(c) == c.status \in {"STOPPING", "CLEANING"} => c.queue # <<>>
Answered(c)  == c.status # "ANSWERING" /\ (c.status = "CLEANING" => c.wrun)
Wait(c)      == HasOutput(c) /\ Answered(c)
Fresh(c)     == c.status = "RUNNING" /\ ~c.servlet => Slate(c) /\ c.idleOn

Good(c, S, R) == Base(c, S, R) /\ Wait(c) /\ Fresh(c)

\* What a method leaves alone, by groups of fields.
SamePlace(c, d)    == /\ d.status = c.status /\ d.fd = c.fd
                      /\ d.conn = c.conn /\ d.pooled = c.pooled
SameWriter(c, d)   == /\ d.open = c.open /\ d.wrun = c.wrun
                      /\ d.queue = c.queue /\ d.timer = c.timer
                      /\ d.conn = c.conn
SameReader(c, d)   == /\ d.ropen = c.ropen /\ d.reads = c.reads
                      /\ d.watch = c.watch
SameIdle(c, d)     == d.idle = c.idle /\ d.idleOn = c.idleOn
SameRequest(c, d)  == /\ d.ready = c.ready /\ d.body = c.body
                      /\ d.keep = c.keep /\ d.done = c.done /\ d.code = c.code
SameServlet(c, d)  == d.servlet = c.servlet /\ d.live = c.live
SameResponse(c, d) == /\ d.header = c.header /\ d.buffered = c.buffered
                      /\ d.async = c.async
SameHistory(c, d)  == d.cut = c.cut /\ d.failed = c.failed

\* Only the reader and the idle timer are touched; a servlet may switch the
\* timer off.
Rests(c, d) ==
  /\ SamePlace(c, d) /\ SameWriter(c, d) /\ SameRequest(c, d)
  /\ SameServlet(c, d) /\ SameResponse(c, d) /\ SameHistory(c, d)
  /\ d.ropen = c.ropen
  /\ c.servlet \/ d.idleOn = c.idleOn

\* Output is added: the writer and the response's framing are touched.
Writes(c, d) ==
  /\ SamePlace(c, d) /\ SameReader(c, d) /\ SameIdle(c, d)
  /\ SameRequest(c, d) /\ SameServlet(c, d) /\ SameHistory(c, d)
  /\ d.open = c.open /\ d.async = c.async
  /\ c.wrun => d.wrun
  /\ c.queue # <<>> => d.queue # <<>> /\ Head(d.queue) = Head(c.queue)

\* The request goes on: its own state, the servlet and the response are touched.
Requests(c, d) ==
  /\ SamePlace(c, d) /\ SameWriter(c, d) /\ SameReader(c, d)
  /\ SameIdle(c, d) /\ SameHistory(c, d)
  /\ c.servlet => d.servlet

\* What any callback keeps of a connection.
Moves(c, d) ==
  /\ d.conn = c.conn /\ d.fd \in {c.fd, NoFd}
  /\ c.pooled => d.pooled
  /\ c.status = "STOPPING" => d.status = "STOPPING" \/ d.pooled
  /\ c.status = "CLEANING" /\ d.status = "RUNNING" => ~d.servlet

-----------------------------------------------------------------------------
(* Types                                                                   *)

LEMMA TypedState ==
  ASSUME NEW c, NEW S, S \subseteq Files, Typed(c, S)
  PROVE  c \in HandlerState
<1>1. c.queue \in Seq(Block)
  <2>1. BlockOf(S, c.conn) \subseteq Block
    BY DEF BlockOf, Block, Conns
  <2> QED
    BY <2>1 DEF Typed, WriterType
<1>2. DOMAIN c = FieldNames
  BY DEF Typed, Shape
<1>3. c.live \in Int
  BY DEF Typed, ServletType
<1> QED
  BY <1>1, <1>2, <1>3, SMTT(60)
  DEF HandlerState, Typed, PlaceType, WriterType, ReaderType, IdleType,
      RequestType, ServletType, ResponseType, HistoryType,
      Statuses, FieldNames, Shape

LEMMA NewIsClosed ==
  ASSUME NEW S
  PROVE  /\ Typed(NewHandler, S) /\ Closed(NewHandler)
         /\ ~NewHandler.pooled /\ NewHandler.idle = 0
<1>1. <<>> \in Seq(BlockOf(S, NewHandler.conn))
  BY EmptySeq
<1>2. Shape(NewHandler)
  BY DEF NewHandler, Shape, FieldNames
<1>3. Typed(NewHandler, S)
  BY <1>1, <1>2
  DEF NewHandler, Typed, PlaceType, WriterType, ReaderType, IdleType,
      RequestType, ServletType, ResponseType, HistoryType, Statuses
<1> QED
  BY <1>3 DEF NewHandler, Closed, Slate

LEMMA SameTypes ==
  ASSUME NEW c, NEW d, NEW S
  PROVE  /\ SamePlace(c, d) /\ PlaceType(c) => PlaceType(d)
         /\ SameWriter(c, d) /\ WriterType(c, S) => WriterType(d, S)
         /\ SameReader(c, d) /\ ReaderType(c) => ReaderType(d)
         /\ SameIdle(c, d) /\ IdleType(c) => IdleType(d)
         /\ SameRequest(c, d) /\ RequestType(c) => RequestType(d)
         /\ SameServlet(c, d) /\ ServletType(c) => ServletType(d)
         /\ SameResponse(c, d) /\ ResponseType(c) => ResponseType(d)
         /\ SameHistory(c, d) /\ HistoryType(c) => HistoryType(d)
BY DEF PlaceType, WriterType, ReaderType, IdleType, RequestType, ServletType,
       ResponseType, HistoryType, SamePlace, SameWriter, SameReader, SameIdle,
       SameRequest, SameServlet, SameResponse, SameHistory

\* A step that touches only some of the groups keeps Base when it keeps the
\* types of those.
LEMMA RestsBase ==
  ASSUME NEW S, NEW R, NEW c, Base(c, S, R), NEW d, Shape(d), Rests(c, d),
         ReaderType(d), IdleType(d), IdleOwn(d),
         c.pooled => SameReader(c, d)
  PROVE  Base(d, S, R)
<1>1. Typed(d, S)
  BY SameTypes DEF Base, Typed, Rests
<1>2. c.pooled => Closed(d)
  BY DEF Base, Closed, Slate, Rests, SamePlace, SameWriter, SameReader,
     SameRequest, SameServlet, SameResponse
<1>3. ~c.pooled => Opened(d)
  BY DEF Base, Opened, Rests, SamePlace, SameWriter
<1>4. Flow(d, R) /\ d.pooled = c.pooled
  BY DEF Base, Flow, Rests, SameWriter, SamePlace
<1> QED
  BY <1>1, <1>2, <1>3, <1>4 DEF Base

LEMMA WritesBase ==
  ASSUME NEW S, NEW R, NEW c, Base(c, S, R), ~c.pooled,
         NEW d, Shape(d), Writes(c, d),
         WriterType(d, S), ResponseType(d), Flow(d, R)
  PROVE  Base(d, S, R)
<1>1. Typed(d, S)
  BY SameTypes DEF Base, Typed, Writes
<1>2. Opened(d)
  BY DEF Base, Opened, Writes, SamePlace, SameReader
<1>3. IdleOwn(d) /\ ~d.pooled
  BY DEF Base, IdleOwn, Writes, SameIdle, SamePlace
<1> QED
  BY <1>1, <1>2, <1>3 DEF Base

LEMMA RequestsBase ==
  ASSUME NEW S, NEW R, NEW c, Base(c, S, R), ~c.pooled,
         NEW d, Shape(d), Requests(c, d),
         RequestType(d), ServletType(d), ResponseType(d)
  PROVE  Base(d, S, R)
<1>1. Typed(d, S)
  BY SameTypes DEF Base, Typed, Requests
<1>2. Opened(d)
  BY DEF Base, Opened, Requests, SamePlace, SameWriter, SameReader
<1>3. IdleOwn(d) /\ Flow(d, R) /\ ~d.pooled
  BY DEF Base, IdleOwn, Flow, Requests, SameIdle, SamePlace, SameWriter
<1> QED
  BY <1>1, <1>2, <1>3 DEF Base

LEMMA StatusBase ==
  ASSUME NEW S, NEW R, NEW c, Base(c, S, R), ~c.pooled,
         NEW s \in Statuses \ {"STOP"}, NEW d, d = [c EXCEPT !.status = s]
  PROVE  /\ Base(d, S, R) /\ d.status = s /\ ~d.pooled
         /\ d.fd = c.fd /\ d.conn = c.conn
         /\ SameWriter(c, d) /\ SameReader(c, d) /\ SameIdle(c, d)
         /\ SameRequest(c, d) /\ SameServlet(c, d) /\ SameResponse(c, d)
         /\ SameHistory(c, d)
<1>1. /\ Shape(d) /\ d.status = s
      /\ d.fd = c.fd /\ d.conn = c.conn /\ d.pooled = c.pooled
      /\ SameWriter(c, d) /\ SameReader(c, d) /\ SameIdle(c, d)
      /\ SameRequest(c, d) /\ SameServlet(c, d) /\ SameResponse(c, d)
      /\ SameHistory(c, d)
  <2>1. Shape(c)
    BY DEF Base, Typed
  <2> QED
    BY <2>1 DEF Shape, FieldNames, SameWriter, SameReader, SameIdle,
       SameRequest, SameServlet, SameResponse, SameHistory
<1>2. Typed(d, S)
  <2>1. PlaceType(d)
    BY <1>1 DEF Base, Typed, PlaceType
  <2> QED
    BY <1>1, <2>1, SameTypes DEF Base, Typed
<1>3. Opened(d)
  BY <1>1 DEF Base, Opened, SameWriter, SameReader
<1>4. IdleOwn(d) /\ Flow(d, R)
  BY <1>1 DEF Base, Opened, IdleOwn, Flow, SameWriter, SameIdle
<1> QED
  BY <1>1, <1>2, <1>3, <1>4 DEF Base

-----------------------------------------------------------------------------
(* The writer and the reader                                               *)

LEMMA WriterStartWrites ==
  ASSUME NEW S, NEW R, NEW c, Base(c, S, R), NEW d, d = WriterStart(c)
  PROVE  /\ Base(d, S, R) /\ Writes(c, d) /\ d.wrun
         /\ d.queue = c.queue /\ SameResponse(c, d)
<1>1. Shape(c)
  BY DEF Base, Typed
<1>2. CASE c.wrun
  <2>1. d = c
    BY <1>2 DEF WriterStart
  <2> QED
    BY <1>2, <2>1 DEF Writes, SamePlace, SameReader, SameIdle, SameRequest,
       SameServlet, SameHistory, SameResponse
<1>3. CASE ~c.wrun
  <2> DEFINE t == c.timer \/ c.queue # <<>>
  <2>1. d = [c EXCEPT !.wrun = TRUE, !.timer = t]
    BY <1>3 DEF WriterStart
  <2> HIDE DEF t
  <2>2. /\ Shape(d) /\ SamePlace(c, d) /\ SameReader(c, d) /\ SameIdle(c, d)
        /\ SameRequest(c, d) /\ SameServlet(c, d) /\ SameResponse(c, d)
        /\ SameHistory(c, d)
        /\ d.open = c.open /\ d.queue = c.queue /\ d.wrun = TRUE /\ d.timer = t
    BY <1>1, <2>1 DEF Shape, FieldNames, SamePlace, SameReader, SameIdle,
       SameRequest, SameServlet, SameResponse, SameHistory
  <2>3. /\ t \in BOOLEAN /\ (c.queue # <<>> => t)
        /\ (~c.timer /\ c.queue = <<>> => ~t)
    BY DEF t
  <2>4. Writes(c, d)
    BY <2>2 DEF Writes, SameResponse
  <2>5. Typed(d, S)
    <3>1. WriterType(d, S)
      BY <2>2, <2>3 DEF Base, Typed, WriterType, SamePlace
    <3> QED
      BY <2>2, <3>1, SameTypes DEF Base, Typed
  <2>6. c.pooled => Closed(d)
    BY <2>2, <2>3 DEF Base, Closed, Slate, SamePlace, SameReader,
       SameRequest, SameServlet, SameResponse
  <2>7. ~c.pooled => Opened(d)
    BY <2>2 DEF Base, Opened, SamePlace, SameReader
  <2>8. IdleOwn(d) /\ Flow(d, R)
    BY <2>2, <2>3 DEF Base, IdleOwn, Flow, SamePlace, SameIdle
  <2> QED
    BY <2>2, <2>4, <2>5, <2>6, <2>7, <2>8 DEF Base, SamePlace
<1> QED
  BY <1>2, <1>3

WithQueue(c, q, t) == [c EXCEPT !.queue = q, !.timer = t]

LEMMA QueueFields ==
  ASSUME NEW c, Shape(c), NEW q, NEW t, NEW d, d = WithQueue(c, q, t)
  PROVE  /\ Shape(d) /\ SamePlace(c, d) /\ SameReader(c, d) /\ SameIdle(c, d)
         /\ SameRequest(c, d) /\ SameServlet(c, d) /\ SameResponse(c, d)
         /\ SameHistory(c, d)
         /\ d.open = c.open /\ d.queue = q /\ d.wrun = c.wrun /\ d.timer = t
BY DEF WithQueue, Shape, FieldNames, SamePlace, SameReader, SameIdle,
       SameRequest, SameServlet, SameResponse, SameHistory

LEMMA EnqueueWrites ==
  ASSUME NEW S, NEW R, NEW c, Base(c, S, R), ~c.pooled,
         NEW p \in S \cup {NoPump}, NEW d, d = Enqueue(c, p)
  PROVE  /\ Base(d, S, R) /\ Writes(c, d) /\ d.queue # <<>>
         /\ SameResponse(c, d)
<1> DEFINE b == [pump |-> p, conn |-> c.conn]
           q == Append(c.queue, b)
           t == c.timer \/ c.wrun
<1>1. d = WithQueue(c, q, t)
  BY DEF Base, Opened, Enqueue, WithQueue
<1>2. /\ b \in BlockOf(S, c.conn) /\ c.queue \in Seq(BlockOf(S, c.conn))
  BY DEF Base, Opened, Typed, WriterType, BlockOf
<1> HIDE DEF b
<1>3. /\ q \in Seq(BlockOf(S, c.conn)) /\ q # <<>>
      /\ c.queue # <<>> => Head(q) = Head(c.queue)
  BY <1>2, AppendProperties, EmptySeq
<1>4. t \in BOOLEAN /\ (c.wrun => t)
  OBVIOUS
<1> HIDE DEF q, t
<1>5. /\ Shape(d) /\ SamePlace(c, d) /\ SameReader(c, d) /\ SameIdle(c, d)
      /\ SameRequest(c, d) /\ SameServlet(c, d) /\ SameResponse(c, d)
      /\ SameHistory(c, d)
      /\ d.open = c.open /\ d.queue = q /\ d.wrun = c.wrun /\ d.timer = t
  <2>1. Shape(c)
    BY DEF Base, Typed
  <2> QED
    BY <1>1, <2>1, QueueFields
<1>6. Writes(c, d)
  BY <1>3, <1>5 DEF Writes, SameResponse
<1>7. WriterType(d, S)
  BY <1>3, <1>4, <1>5 DEF Base, Typed, WriterType, SamePlace
<1>8. ResponseType(d)
  BY <1>5, SameTypes DEF Base, Typed
<1>9. Flow(d, R)
  BY <1>4, <1>5 DEF Flow
<1> QED
  BY <1>3, <1>5, <1>6, <1>7, <1>8, <1>9, WritesBase

LEMMA WritesTransitive ==
  ASSUME NEW c, NEW d, NEW e, Writes(c, d), Writes(d, e)
  PROVE  Writes(c, e)
BY DEF Writes, SamePlace, SameReader, SameIdle, SameRequest, SameServlet,
       SameHistory

LEMMA WritesReflexive ==
  ASSUME NEW c
  PROVE  Writes(c, c) /\ Rests(c, c) /\ Requests(c, c)
BY DEF Writes, Rests, Requests, SamePlace, SameWriter, SameReader, SameIdle,
       SameRequest, SameServlet, SameResponse, SameHistory

\* The reader and the idle timer: whatever is done to them keeps a handler Good.
WithReads(c, n, w) == [c EXCEPT !.reads = n, !.watch = w]
WithIdle(c, i)     == [c EXCEPT !.idle = i]

LEMMA ReadsFields ==
  ASSUME NEW c, Shape(c), NEW n, NEW w, NEW d, d = WithReads(c, n, w)
  PROVE  /\ Shape(d) /\ Rests(c, d) /\ SameIdle(c, d)
         /\ d.reads = n /\ d.watch = w
BY DEF WithReads, Shape, FieldNames, Rests, SamePlace, SameWriter, SameIdle,
   SameRequest, SameServlet, SameResponse, SameHistory

LEMMA IdleFields ==
  ASSUME NEW c, Shape(c), NEW i, NEW d, d = WithIdle(c, i)
  PROVE  /\ Shape(d) /\ Rests(c, d) /\ SameReader(c, d)
         /\ d.idleOn = c.idleOn /\ d.idle = i
BY DEF WithIdle, Shape, FieldNames, Rests, SamePlace, SameWriter, SameReader,
   SameRequest, SameServlet, SameResponse, SameHistory

LEMMA StartTimeoutEvRests ==
  ASSUME NEW S, NEW R, NEW c, Base(c, S, R), NEW d, d = StartTimeoutEv(c)
  PROVE  Base(d, S, R) /\ Rests(c, d) /\ SameReader(c, d) /\ d.idleOn = c.idleOn
<1>1. CASE c.idleOn
  <2>1. d = WithIdle(c, c.conn)
    BY <1>1 DEF StartTimeoutEv, WithIdle
  <2>2. /\ Shape(d) /\ Rests(c, d) /\ SameReader(c, d)
        /\ d.idleOn = c.idleOn /\ d.idle = c.conn
    BY <2>1, IdleFields DEF Base, Typed
  <2>3. IdleType(d) /\ IdleOwn(d)
    BY <1>1, <2>2 DEF Base, Typed, IdleType, PlaceType, IdleOwn, Rests, SamePlace
  <2>4. ReaderType(d)
    BY <2>2, SameTypes DEF Base, Typed
  <2> QED
    BY <2>2, <2>3, <2>4, RestsBase
<1>2. CASE ~c.idleOn
  <2>1. d = c
    BY <1>2 DEF StartTimeoutEv
  <2> QED
    BY <2>1, WritesReflexive DEF SameReader
<1> QED
  BY <1>1, <1>2

LEMMA NoTimeoutRests ==
  ASSUME NEW S, NEW R, NEW c, Base(c, S, R), NEW d, d = WithIdle(c, 0)
  PROVE  Base(d, S, R) /\ Rests(c, d) /\ SameReader(c, d)
<1>1. /\ Shape(d) /\ Rests(c, d) /\ SameReader(c, d)
      /\ d.idleOn = c.idleOn /\ d.idle = 0
  BY IdleFields DEF Base, Typed
<1>2. IdleType(d) /\ IdleOwn(d)
  BY <1>1 DEF Base, Typed, IdleType, IdleOwn
<1>3. ReaderType(d)
  BY <1>1, SameTypes DEF Base, Typed
<1> QED
  BY <1>1, <1>2, <1>3, RestsBase

LEMMA StopTimeoutEvRests ==
  ASSUME NEW S, NEW R, NEW c, Base(c, S, R), NEW d, d = StopTimeoutEv(c)
  PROVE  Base(d, S, R) /\ Rests(c, d)
<1>1. d = c \/ d = WithIdle(c, 0)
  BY DEF StopTimeoutEv, WithIdle
<1> QED
  BY <1>1, NoTimeoutRests, WritesReflexive

IdleOff(c) == SetIdleTimeout(c, FALSE)
WithNoIdle(c) == [c EXCEPT !.idle = 0, !.idleOn = FALSE]

LEMMA NoIdleFields ==
  ASSUME NEW c, Shape(c), c.servlet, NEW d, d = WithNoIdle(c)
  PROVE  /\ Shape(d) /\ Rests(c, d) /\ SameReader(c, d)
         /\ ~d.idleOn /\ d.idleOn \in BOOLEAN /\ d.idle = 0
BY DEF WithNoIdle, Shape, FieldNames, Rests, SamePlace, SameWriter,
   SameReader, SameRequest, SameServlet, SameResponse, SameHistory

LEMMA IdleOffRests ==
  ASSUME NEW S, NEW R, NEW c, Base(c, S, R), c.servlet,
         NEW d, d = IdleOff(c)
  PROVE  Base(d, S, R) /\ Rests(c, d)
<1>1. CASE c.idleOn
  <2>1. d = WithNoIdle(c)
    BY <1>1 DEF IdleOff, SetIdleTimeout, WithNoIdle
  <2>2. /\ Shape(d) /\ Rests(c, d) /\ SameReader(c, d)
        /\ ~d.idleOn /\ d.idleOn \in BOOLEAN /\ d.idle = 0
    BY <2>1, NoIdleFields DEF Base, Typed
  <2>3. IdleType(d) /\ IdleOwn(d)
    BY <2>2 DEF IdleType, IdleOwn
  <2>4. ReaderType(d)
    BY <2>2, SameTypes DEF Base, Typed
  <2> QED
    BY <2>2, <2>3, <2>4, RestsBase
<1>2. CASE ~c.idleOn
  <2>1. d = c
    BY <1>2 DEF IdleOff, SetIdleTimeout, Base, Typed, IdleType
  <2> QED
    BY <2>1, WritesReflexive
<1> QED
  BY <1>1, <1>2

LEMMA ReaderReadRests ==
  ASSUME NEW S, NEW R, NEW c, Base(c, S, R), ~c.pooled,
         NEW d, d = ReaderRead(c)
  PROVE  Base(d, S, R) /\ Rests(c, d) /\ SameIdle(c, d)
<1> DEFINE w == TRUE
<1>1. d = WithReads(c, c.reads + 1, w)
  BY DEF ReaderRead, WithReads, Base, Opened
<1>2. w \in BOOLEAN
  OBVIOUS
<1> HIDE DEF w
<1>3. /\ Shape(d) /\ Rests(c, d) /\ SameIdle(c, d)
      /\ d.reads = c.reads + 1 /\ d.watch = w
  BY <1>1, ReadsFields DEF Base, Typed
<1>4. ReaderType(d)
  BY <1>2, <1>3 DEF Base, Typed, ReaderType, Rests
<1>5. IdleType(d)
  BY <1>3, SameTypes DEF Base, Typed
<1>6. IdleOwn(d)
  BY <1>3 DEF Base, IdleOwn, Rests, SameIdle, SamePlace
<1> QED
  BY <1>3, <1>4, <1>5, <1>6, RestsBase

LEMMA PrepareReadRests ==
  ASSUME NEW S, NEW R, NEW c, Base(c, S, R), NEW d, d = PrepareRead(c)
  PROVE  Base(d, S, R) /\ Rests(c, d)
<1>1. CASE c.pooled
  <2>1. d = c
    BY <1>1 DEF PrepareRead, Base, Closed
  <2> QED
    BY <2>1, WritesReflexive
<1>2. CASE ~c.pooled
  <2> DEFINE e == StartTimeoutEv(c)
  <2>1. Base(e, S, R) /\ Rests(c, e)
    BY StartTimeoutEvRests
  <2>2. d = ReaderRead(e)
    BY <1>2 DEF PrepareRead, Base, Opened
  <2> HIDE DEF e
  <2>3. ~e.pooled
    BY <1>2, <2>1 DEF Rests, SamePlace
  <2>4. Base(d, S, R) /\ Rests(e, d)
    BY <2>1, <2>2, <2>3, ReaderReadRests
  <2>5. Rests(c, d)
    BY <2>1, <2>4 DEF Rests, SamePlace, SameWriter, SameRequest, SameServlet,
       SameResponse, SameHistory
  <2> QED
    BY <2>4, <2>5
<1> QED
  BY <1>1, <1>2

LEMMA PopEntryRests ==
  ASSUME NEW S, NEW R, NEW c, Base(c, S, R), NEW d, d = PopEntry(c)
  PROVE  Base(d, S, R) /\ Rests(c, d)
<1>1. CASE c.reads = 0
  <2>1. d = c
    BY <1>1 DEF PopEntry
  <2> QED
    BY <2>1, WritesReflexive
<1>2. CASE c.reads # 0
  <2>1. d = WithReads(c, c.reads - 1, c.reads > 1)
    BY <1>2 DEF PopEntry, WithReads
  <2>2. /\ Shape(d) /\ Rests(c, d) /\ SameIdle(c, d)
        /\ d.reads = c.reads - 1 /\ d.watch = (c.reads > 1)
    BY <2>1, ReadsFields DEF Base, Typed
  <2>3. ReaderType(d)
    BY <1>2, <2>2 DEF Base, Typed, ReaderType, Rests
  <2>4. IdleType(d) /\ IdleOwn(d)
    <3>1. IdleType(d)
      BY <2>2, SameTypes DEF Base, Typed
    <3> QED
      BY <3>1, <2>2 DEF Base, IdleOwn, Rests, SameIdle, SamePlace
  <2>5. ~c.pooled
    BY <1>2 DEF Base, Closed
  <2> QED
    BY <2>2, <2>3, <2>4, <2>5, RestsBase
<1> QED
  BY <1>1, <1>2

LEMMA RestsGood ==
  ASSUME NEW c, NEW d, Rests(c, d)
  PROVE  /\ Wait(c) => Wait(d)
         /\ Answered(c) => Answered(d)
         /\ Fresh(c) => Fresh(d)
BY DEF Rests, Wait, HasOutput, Answered, Fresh, Slate, SamePlace, SameWriter,
       SameRequest, SameServlet, SameResponse

-----------------------------------------------------------------------------
(* Closing                                                                 *)

\* The writer and the reader after close(), and before it.
WriterShut(c)  == ~c.open /\ c.queue = <<>> /\ ~c.timer
ReaderShut(c)  == ~c.ropen /\ c.reads = 0 /\ ~c.watch

WithWriterClosed(c, k) ==
  [c EXCEPT !.queue = <<>>, !.timer = FALSE, !.cut = k, !.open = FALSE]
WithReaderClosed(c) == [c EXCEPT !.watch = FALSE, !.reads = 0, !.ropen = FALSE]
WithWriterReset(c, k) ==
  [c EXCEPT !.queue = <<>>, !.timer = FALSE, !.cut = k]

LEMMA WriterClosedFields ==
  ASSUME NEW c, Shape(c), NEW k, NEW d, d = WithWriterClosed(c, k)
  PROVE  /\ Shape(d) /\ SamePlace(c, d) /\ SameReader(c, d) /\ SameIdle(c, d)
         /\ SameRequest(c, d) /\ SameServlet(c, d) /\ SameResponse(c, d)
         /\ d.open \in BOOLEAN /\ ~d.open /\ d.queue = <<>>
         /\ d.timer \in BOOLEAN /\ ~d.timer /\ d.wrun = c.wrun
         /\ d.cut = k /\ d.failed = c.failed
BY DEF WithWriterClosed, Shape, FieldNames, SamePlace, SameReader, SameIdle,
   SameRequest, SameServlet, SameResponse

LEMMA WriterResetFields ==
  ASSUME NEW c, Shape(c), NEW k, NEW d, d = WithWriterReset(c, k)
  PROVE  /\ Shape(d) /\ SamePlace(c, d) /\ SameReader(c, d) /\ SameIdle(c, d)
         /\ SameRequest(c, d) /\ SameServlet(c, d) /\ SameResponse(c, d)
         /\ d.open = c.open /\ d.queue = <<>>
         /\ d.timer \in BOOLEAN /\ ~d.timer /\ d.wrun = c.wrun
         /\ d.cut = k /\ d.failed = c.failed
BY DEF WithWriterReset, Shape, FieldNames, SamePlace, SameReader, SameIdle,
   SameRequest, SameServlet, SameResponse

LEMMA ReaderClosedFields ==
  ASSUME NEW c, Shape(c), NEW d, d = WithReaderClosed(c)
  PROVE  /\ Shape(d) /\ SamePlace(c, d) /\ SameWriter(c, d) /\ SameIdle(c, d)
         /\ SameRequest(c, d) /\ SameServlet(c, d) /\ SameResponse(c, d)
         /\ SameHistory(c, d)
         /\ d.ropen \in BOOLEAN /\ d.reads = 0 /\ d.watch \in BOOLEAN
         /\ ReaderShut(d)
BY DEF WithReaderClosed, ReaderShut, Shape, FieldNames, SamePlace, SameWriter,
   SameIdle, SameRequest, SameServlet, SameResponse, SameHistory

LEMMA WriterCloseShuts ==
  ASSUME NEW S, NEW c, Shape(c), WriterType(c, S), c.cut \in BOOLEAN,
         c.open \/ WriterShut(c), NEW d, d = WriterClose(c)
  PROVE  /\ Shape(d) /\ SamePlace(c, d) /\ SameReader(c, d) /\ SameIdle(c, d)
         /\ SameRequest(c, d) /\ SameServlet(c, d) /\ SameResponse(c, d)
         /\ WriterType(d, S) /\ WriterShut(d)
         /\ d.cut \in BOOLEAN /\ d.failed = c.failed
         /\ c.queue = <<>> => d.cut = c.cut
<1>1. CASE c.open
  <2> DEFINE k == c.cut \/ c.queue # <<>>
  <2>1. d = WithWriterClosed(c, k)
    BY <1>1 DEF WriterClose, WriterReset, WithWriterClosed
  <2>2. k \in BOOLEAN /\ (c.queue = <<>> => k = c.cut)
    OBVIOUS
  <2> HIDE DEF k
  <2>3. /\ Shape(d) /\ SamePlace(c, d) /\ SameReader(c, d) /\ SameIdle(c, d)
        /\ SameRequest(c, d) /\ SameServlet(c, d) /\ SameResponse(c, d)
        /\ d.open \in BOOLEAN /\ ~d.open /\ d.queue = <<>>
        /\ d.timer \in BOOLEAN /\ ~d.timer /\ d.wrun = c.wrun
        /\ d.cut = k /\ d.failed = c.failed
    BY <2>1, WriterClosedFields
  <2>4. <<>> \in Seq(BlockOf(S, d.conn))
    BY EmptySeq
  <2> QED
    BY <2>2, <2>3, <2>4 DEF WriterType, WriterShut
<1>2. CASE ~c.open
  <2>1. d = c
    BY <1>2 DEF WriterClose
  <2> QED
    BY <1>2, <2>1 DEF SamePlace, SameReader, SameIdle, SameRequest,
       SameServlet, SameResponse
<1> QED
  BY <1>1, <1>2

LEMMA ReaderCloseShuts ==
  ASSUME NEW c, Shape(c), ReaderType(c), c.ropen \/ ReaderShut(c),
         NEW d, d = ReaderClose(c)
  PROVE  /\ Shape(d) /\ SamePlace(c, d) /\ SameWriter(c, d) /\ SameIdle(c, d)
         /\ SameRequest(c, d) /\ SameServlet(c, d) /\ SameResponse(c, d)
         /\ SameHistory(c, d) /\ ReaderType(d) /\ ReaderShut(d)
<1>1. CASE c.ropen
  <2>1. d = WithReaderClosed(c)
    BY <1>1 DEF ReaderClose, WithReaderClosed
  <2> QED
    BY <2>1, ReaderClosedFields DEF ReaderType
<1>2. CASE ~c.ropen
  <2>1. d = c
    BY <1>2 DEF ReaderClose
  <2> QED
    BY <1>2, <2>1 DEF SamePlace, SameWriter, SameIdle, SameRequest,
       SameServlet, SameResponse, SameHistory
<1> QED
  BY <1>1, <1>2

\* clean() past its guard: the request is over.
WithoutRequest(c, v) ==
  [c EXCEPT !.live = v, !.servlet = FALSE,
            !.code = FALSE, !.idleOn = TRUE, !.done = FALSE,
            !.ready = FALSE, !.body = FALSE, !.keep = FALSE,
            !.header = "none", !.buffered = FALSE, !.async = FALSE]

LEMMA RequestFields ==
  ASSUME NEW c, Shape(c), NEW v, NEW d, d = WithoutRequest(c, v)
  PROVE  /\ Shape(d) /\ SamePlace(c, d) /\ SameWriter(c, d)
         /\ SameReader(c, d) /\ SameHistory(c, d)
         /\ d.idle = c.idle /\ d.idleOn \in BOOLEAN /\ d.idleOn
         /\ RequestType(d) /\ ~d.code /\ ~d.ready /\ ~d.done
         /\ ~d.body /\ ~d.keep
         /\ d.servlet \in BOOLEAN /\ ~d.servlet /\ d.live = v
         /\ ResponseType(d) /\ d.header = "none" /\ ~d.buffered /\ ~d.async
BY DEF WithoutRequest, Shape, FieldNames, SamePlace, SameWriter, SameReader,
   SameHistory, RequestType, ResponseType

LEMMA EndRequestClears ==
  ASSUME NEW S, NEW c, Shape(c), WriterType(c, S), IdleType(c), ServletType(c),
         HistoryType(c), c.queue = <<>>, NEW d, d = EndRequest(c)
  PROVE  /\ Shape(d) /\ SamePlace(c, d) /\ SameReader(c, d) /\ SameHistory(c, d)
         /\ WriterType(d, S) /\ d.open = c.open /\ d.wrun = c.wrun
         /\ d.timer => c.timer
         /\ IdleType(d) /\ d.idle = c.idle /\ d.idleOn
         /\ RequestType(d) /\ ~d.done /\ ServletType(d) /\ ~d.servlet
         /\ ResponseType(d) /\ Slate(d)
<1> DEFINE e == StopWrite(c)
           v == IF c.servlet THEN c.live - 1 ELSE c.live
           k == c.cut \/ c.queue # <<>>
<1>1. d = WithoutRequest(e, v)
  BY DEF EndRequest, WithoutRequest
<1>2. v = 0
  BY DEF ServletType
<1>3. k = c.cut
  BY DEF HistoryType
<1>4. <<>> \in Seq(BlockOf(S, d.conn))
  BY EmptySeq
<1>5. /\ Shape(e) /\ SamePlace(c, e) /\ SameReader(c, e) /\ SameIdle(c, e)
      /\ SameRequest(c, e) /\ SameServlet(c, e) /\ SameHistory(c, e)
      /\ WriterType(e, S) /\ e.open = c.open /\ e.wrun = c.wrun
      /\ e.queue = <<>> /\ (e.timer => c.timer)
  <2>1. CASE c.fd = NoFd
    <3>1. e = c
      BY <2>1 DEF StopWrite
    <3> HIDE DEF e
    <3> QED
      BY <3>1 DEF SamePlace, SameReader, SameIdle, SameRequest, SameServlet,
         SameHistory
  <2>2. CASE c.fd # NoFd
    <3>1. e = WithWriterReset(c, k)
      BY <2>2 DEF StopWrite, WriterReset, WithWriterReset
    <3> HIDE DEF e, k
    <3>2. /\ Shape(e) /\ SamePlace(c, e) /\ SameReader(c, e) /\ SameIdle(c, e)
          /\ SameRequest(c, e) /\ SameServlet(c, e) /\ SameResponse(c, e)
          /\ e.open = c.open /\ e.queue = <<>>
          /\ e.timer \in BOOLEAN /\ ~e.timer /\ e.wrun = c.wrun
          /\ e.cut = k /\ e.failed = c.failed
      BY <3>1, WriterResetFields
    <3> QED
      BY <1>3, <1>4, <3>2 DEF SameHistory, WriterType
  <2> QED
    BY <2>1, <2>2
<1> HIDE DEF e, v, k
<1>6. /\ Shape(d) /\ SamePlace(e, d) /\ SameWriter(e, d)
      /\ SameReader(e, d) /\ SameHistory(e, d)
      /\ d.idle = e.idle /\ d.idleOn \in BOOLEAN /\ d.idleOn
      /\ RequestType(d) /\ ~d.code /\ ~d.ready /\ ~d.done
      /\ ~d.body /\ ~d.keep
      /\ d.servlet \in BOOLEAN /\ ~d.servlet /\ d.live = v
      /\ ResponseType(d) /\ d.header = "none" /\ ~d.buffered /\ ~d.async
  BY <1>1, <1>5, RequestFields
<1>7. SamePlace(c, d) /\ SameReader(c, d) /\ SameHistory(c, d)
  BY <1>5, <1>6 DEF SamePlace, SameReader, SameHistory
<1>8. WriterType(d, S) /\ d.open = c.open /\ d.wrun = c.wrun
      /\ (d.timer => c.timer) /\ d.queue = <<>>
  BY <1>5, <1>6 DEF WriterType, SameWriter
<1>9. IdleType(d) /\ d.idle = c.idle
  BY <1>5, <1>6 DEF IdleType, SameIdle
<1>10. ServletType(d)
  BY <1>2, <1>6 DEF ServletType
<1> QED
  BY <1>6, <1>7, <1>8, <1>9, <1>10 DEF Slate

WithStatus(c, s) == [c EXCEPT !.status = s]
WithFailed(c)    == [c EXCEPT !.failed = TRUE]
Recycled(c)      == [c EXCEPT !.fd = NoFd, !.pooled = TRUE]

LEMMA StatusFields ==
  ASSUME NEW c, Shape(c), NEW s, NEW d, d = WithStatus(c, s)
  PROVE  /\ Shape(d) /\ d.status = s
         /\ d.fd = c.fd /\ d.conn = c.conn /\ d.pooled = c.pooled
         /\ SameWriter(c, d) /\ SameReader(c, d) /\ SameIdle(c, d)
         /\ SameRequest(c, d) /\ SameServlet(c, d) /\ SameResponse(c, d)
         /\ SameHistory(c, d)
BY DEF WithStatus, Shape, FieldNames, SameWriter, SameReader, SameIdle,
   SameRequest, SameServlet, SameResponse, SameHistory

LEMMA FailedFields ==
  ASSUME NEW c, Shape(c), NEW d, d = WithFailed(c)
  PROVE  /\ Shape(d) /\ SamePlace(c, d)
         /\ SameWriter(c, d) /\ SameReader(c, d) /\ SameIdle(c, d)
         /\ SameRequest(c, d) /\ SameServlet(c, d) /\ SameResponse(c, d)
         /\ d.cut = c.cut /\ d.failed \in BOOLEAN /\ d.failed
BY DEF WithFailed, Shape, FieldNames, SamePlace, SameWriter, SameReader,
   SameIdle, SameRequest, SameServlet, SameResponse

LEMMA RecycledFields ==
  ASSUME NEW c, Shape(c), NEW d, d = Recycled(c)
  PROVE  /\ Shape(d) /\ d.status = c.status /\ d.conn = c.conn
         /\ d.fd = NoFd /\ d.pooled \in BOOLEAN /\ d.pooled
         /\ SameWriter(c, d) /\ SameReader(c, d) /\ SameIdle(c, d)
         /\ SameRequest(c, d) /\ SameServlet(c, d) /\ SameResponse(c, d)
         /\ SameHistory(c, d)
BY DEF Recycled, Shape, FieldNames, SameWriter, SameReader, SameIdle,
   SameRequest, SameServlet, SameResponse, SameHistory

LEMMA IdleStopped ==
  ASSUME NEW c, Shape(c), IdleType(c), NEW d, d = WithIdle(c, 0)
  PROVE  Shape(d) /\ Rests(c, d) /\ SameReader(c, d) /\ IdleType(d) /\ d.idle = 0
<1>1. /\ Shape(d) /\ Rests(c, d) /\ SameReader(c, d)
      /\ d.idleOn = c.idleOn /\ d.idle = 0
  BY IdleFields
<1> QED
  BY <1>1 DEF IdleType

\* The end of stop(), of a handler with nothing to send: it is in the pool.
LEMMA ShutRecycles ==
  ASSUME NEW S, NEW R, NEW c, Typed(c, S), c.queue = <<>>,
         c.open \/ WriterShut(c), c.ropen \/ ReaderShut(c),
         NEW d, d = Shut(c)
  PROVE  Base(d, S, R) /\ d.pooled /\ d.conn = c.conn /\ d.fd = NoFd
<1> DEFINE c1 == WithStatus(c, "STOP")
           c2 == WriterClose(c1)
           c3 == ReaderClose(c2)
           c4 == EndRequest(c3)
           c5 == Recycled(c4)
<1>1. d = StopTimeoutEv(c5)
  BY DEF Shut, WithStatus, Recycled
<1>2. /\ Shape(c1) /\ c1.status = "STOP" /\ c1.conn = c.conn
      /\ SameWriter(c, c1) /\ SameReader(c, c1) /\ SameIdle(c, c1)
      /\ SameServlet(c, c1) /\ SameHistory(c, c1)
  BY StatusFields DEF Typed
<1> HIDE DEF c1
<1>3. /\ WriterType(c1, S) /\ ReaderType(c1) /\ IdleType(c1)
      /\ ServletType(c1) /\ HistoryType(c1)
  BY <1>2, SameTypes DEF Typed
<1>4. /\ c1.queue = <<>> /\ c1.cut \in BOOLEAN
      /\ c1.open \/ WriterShut(c1)
      /\ c1.ropen \/ ReaderShut(c1)
  BY <1>2, <1>3 DEF SameWriter, SameReader, WriterShut, ReaderShut, HistoryType
<1>5. /\ Shape(c2) /\ SamePlace(c1, c2) /\ SameReader(c1, c2)
      /\ SameIdle(c1, c2) /\ SameServlet(c1, c2)
      /\ WriterType(c2, S) /\ WriterShut(c2)
      /\ c2.failed = c1.failed /\ c2.cut = c1.cut
  BY <1>2, <1>3, <1>4, WriterCloseShuts
<1> HIDE DEF c2
<1>6. /\ ReaderType(c2) /\ IdleType(c2) /\ ServletType(c2)
      /\ HistoryType(c2)
      /\ c2.ropen \/ ReaderShut(c2)
  <2>1. SameHistory(c1, c2)
    BY <1>5 DEF SameHistory
  <2>2. c2.ropen \/ ReaderShut(c2)
    BY <1>4, <1>5 DEF SameReader, ReaderShut
  <2> QED
    BY <1>3, <1>5, <2>1, <2>2, SameTypes
<1>7. /\ Shape(c3) /\ SamePlace(c2, c3) /\ SameWriter(c2, c3)
      /\ SameIdle(c2, c3) /\ SameServlet(c2, c3) /\ SameHistory(c2, c3)
      /\ ReaderType(c3) /\ ReaderShut(c3)
  BY <1>5, <1>6, ReaderCloseShuts
<1> HIDE DEF c3
<1>8. /\ WriterType(c3, S) /\ IdleType(c3) /\ ServletType(c3)
      /\ HistoryType(c3) /\ WriterShut(c3) /\ c3.queue = <<>>
  <2>1. /\ WriterType(c3, S) /\ IdleType(c3) /\ ServletType(c3)
        /\ HistoryType(c3)
    BY <1>5, <1>6, <1>7, SameTypes
  <2>2. WriterShut(c3) /\ c3.queue = <<>>
    BY <1>5, <1>7 DEF SameWriter, WriterShut
  <2> QED
    BY <2>1, <2>2
<1>9. /\ Shape(c4) /\ SamePlace(c3, c4) /\ SameReader(c3, c4)
      /\ SameHistory(c3, c4)
      /\ WriterType(c4, S) /\ c4.open = c3.open
      /\ c4.timer => c3.timer
      /\ IdleType(c4) /\ c4.idleOn
      /\ RequestType(c4) /\ ServletType(c4) /\ ~c4.servlet
      /\ ResponseType(c4) /\ Slate(c4)
  BY <1>7, <1>8, EndRequestClears
<1> HIDE DEF c4
<1>10. /\ Shape(c5) /\ c5.status = c4.status /\ c5.conn = c4.conn
       /\ c5.fd = NoFd /\ c5.pooled \in BOOLEAN /\ c5.pooled
       /\ SameWriter(c4, c5) /\ SameReader(c4, c5) /\ SameIdle(c4, c5)
       /\ SameRequest(c4, c5) /\ SameServlet(c4, c5) /\ SameResponse(c4, c5)
       /\ SameHistory(c4, c5)
  BY <1>9, RecycledFields
<1> HIDE DEF c5
<1>11. IdleType(c5) /\ c5.idleOn
  BY <1>9, <1>10, SameTypes DEF SameIdle
<1>12. /\ Shape(d) /\ Rests(c5, d) /\ SameReader(c5, d)
       /\ IdleType(d) /\ d.idle = 0
  <2>1. d = WithIdle(c5, 0)
    BY <1>1, <1>11 DEF StopTimeoutEv, WithIdle
  <2> QED
    BY <1>10, <1>11, <2>1, IdleStopped
<1>13. /\ d.status = "STOP" /\ d.conn = c.conn /\ d.fd = NoFd
       /\ d.pooled \in BOOLEAN /\ d.pooled
  BY <1>2, <1>5, <1>7, <1>9, <1>10, <1>12 DEF SamePlace, Rests
<1>14. PlaceType(d)
  BY <1>13 DEF Typed, PlaceType, Statuses
<1>15. /\ WriterType(d, S) /\ ReaderType(d) /\ HistoryType(d)
       /\ RequestType(d) /\ ServletType(d) /\ ResponseType(d)
  <2>1. ReaderType(c4) /\ HistoryType(c4)
    BY <1>7, <1>8, <1>9, SameTypes
  <2>2. /\ WriterType(c5, S) /\ ReaderType(c5) /\ HistoryType(c5)
        /\ RequestType(c5) /\ ServletType(c5) /\ ResponseType(c5)
    BY <1>9, <1>10, <2>1, SameTypes
  <2> QED
    BY <1>12, <2>2, SameTypes DEF Rests
<1>16. Closed(d)
  <2>1. WriterShut(c4) /\ ReaderShut(c4)
    BY <1>7, <1>8, <1>9 DEF WriterShut, ReaderShut, SameReader, Slate
  <2>2. ~d.open /\ ~d.timer /\ ReaderShut(d)
    BY <1>10, <1>12, <2>1
    DEF WriterShut, ReaderShut, SameReader, SameWriter, Rests
  <2>3. Slate(d) /\ ~d.servlet
    BY <1>9, <1>10, <1>12
    DEF Slate, SameWriter, SameRequest, SameServlet, SameResponse, Rests
  <2> QED
    BY <1>13, <2>2, <2>3 DEF Closed, ReaderShut
<1>17. IdleOwn(d) /\ Flow(d, R)
  BY <1>12, <1>16 DEF IdleOwn, Flow, Closed, Slate
<1> QED
  BY <1>12, <1>13, <1>14, <1>15, <1>16, <1>17 DEF Base, Typed

LEMMA PooledGood ==
  ASSUME NEW S, NEW R, NEW c, Base(c, S, R), c.pooled
  PROVE  Good(c, S, R)
BY DEF Base, Good, Closed, Wait, HasOutput, Answered, Fresh

LEMMA StopHandlerGood ==
  ASSUME NEW S, NEW R, NEW c, Base(c, S, R), NEW d, d = StopHandler(c)
  PROVE  /\ Good(d, S, R) /\ d.conn = c.conn /\ d.fd \in {c.fd, NoFd}
         /\ d.pooled \/ d.status = "STOPPING"
<1>1. CASE c.pooled
  <2>1. d = c
    BY <1>1 DEF StopHandler, Base, Closed
  <2> QED
    BY <1>1, <2>1, PooledGood
<1>2. CASE ~c.pooled /\ c.queue # <<>>
  <2> DEFINE s == "STOPPING"
  <2>1. d = [c EXCEPT !.status = s]
    BY <1>2 DEF StopHandler, Base, Opened
  <2>2. s \in Statuses \ {"STOP"}
    BY DEF Statuses
  <2> HIDE DEF s
  <2>3. /\ Base(d, S, R) /\ d.status = s /\ ~d.pooled
        /\ d.fd = c.fd /\ d.conn = c.conn /\ SameWriter(c, d)
    BY <1>2, <2>1, <2>2, StatusBase
  <2>4. Wait(d) /\ Fresh(d)
    BY <1>2, <2>3 DEF Wait, HasOutput, Answered, Fresh, SameWriter, s
  <2> QED
    BY <2>3, <2>4 DEF Good, s
<1>3. CASE ~c.pooled /\ c.queue = <<>>
  <2>1. d = Shut(c)
    BY <1>3 DEF StopHandler, Base, Opened
  <2>2. Base(d, S, R) /\ d.pooled /\ d.conn = c.conn /\ d.fd = NoFd
    BY <1>3, <2>1, ShutRecycles DEF Base, Opened
  <2> QED
    BY <2>2, PooledGood
<1> QED
  BY <1>1, <1>2, <1>3

\* error() always ends in the pool.
LEMMA ErrorGood ==
  ASSUME NEW S, NEW R, NEW c, Base(c, S, R), NEW d, d = Error(c)
  PROVE  Good(d, S, R) /\ d.pooled /\ d.conn = c.conn /\ d.fd = NoFd
<1> DEFINE c1 == WithFailed(c)
           c2 == WriterClose(c1)
           c3 == ReaderClose(c2)
<1>1. d = StopHandler(c3)
  BY DEF Error, WithFailed
<1>2. (c.open \/ WriterShut(c)) /\ (c.ropen \/ ReaderShut(c))
  BY DEF Base, Opened, Closed, Slate, WriterShut, ReaderShut
<1>3. /\ Shape(c1) /\ SamePlace(c, c1)
      /\ SameWriter(c, c1) /\ SameReader(c, c1) /\ SameIdle(c, c1)
      /\ SameRequest(c, c1) /\ SameServlet(c, c1) /\ SameResponse(c, c1)
      /\ c1.cut = c.cut /\ c1.failed \in BOOLEAN /\ c1.failed
  BY FailedFields DEF Base, Typed
<1> HIDE DEF c1
<1>4. Typed(c1, S)
  <2>1. HistoryType(c1)
    BY <1>3 DEF HistoryType, Base, Typed
  <2> QED
    BY <1>3, <2>1, SameTypes DEF Base, Typed
<1>5. (c1.open \/ WriterShut(c1)) /\ (c1.ropen \/ ReaderShut(c1))
  BY <1>2, <1>3 DEF WriterShut, ReaderShut, SameWriter, SameReader
<1>6. /\ Shape(c2) /\ SamePlace(c1, c2) /\ SameReader(c1, c2) /\ SameIdle(c1, c2)
      /\ SameRequest(c1, c2) /\ SameServlet(c1, c2) /\ SameResponse(c1, c2)
      /\ WriterType(c2, S) /\ WriterShut(c2)
      /\ c2.cut \in BOOLEAN /\ c2.failed = c1.failed
  BY <1>4, <1>5, WriterCloseShuts DEF Typed, HistoryType
<1> HIDE DEF c2
<1>7. Typed(c2, S)
  <2>1. HistoryType(c2)
    BY <1>3, <1>6 DEF HistoryType
  <2> QED
    BY <1>4, <1>6, <2>1, SameTypes DEF Typed
<1>8. c2.ropen \/ ReaderShut(c2)
  BY <1>5, <1>6 DEF ReaderShut, SameReader
<1>9. /\ Shape(c3) /\ SamePlace(c2, c3) /\ SameWriter(c2, c3) /\ SameIdle(c2, c3)
      /\ SameRequest(c2, c3) /\ SameServlet(c2, c3) /\ SameResponse(c2, c3)
      /\ SameHistory(c2, c3) /\ ReaderType(c3) /\ ReaderShut(c3)
  BY <1>7, <1>8, ReaderCloseShuts DEF Typed
<1> HIDE DEF c3
<1>10. Typed(c3, S) /\ WriterShut(c3) /\ c3.queue = <<>>
  BY <1>6, <1>7, <1>9, SameTypes DEF Typed, SameWriter, WriterShut
<1>11. SamePlace(c, c3)
  BY <1>3, <1>6, <1>9 DEF SamePlace
<1>12. CASE c.pooled
  <2>1. c3.status = "STOP" /\ c3.pooled /\ c3.fd = NoFd /\ c3.conn = c.conn
    BY <1>11, <1>12 DEF Base, Closed, SamePlace
  <2>2. d = c3
    BY <1>1, <2>1 DEF StopHandler
  <2>3. Closed(c3)
    <3>1. Slate(c3) /\ ~c3.servlet
      BY <1>3, <1>6, <1>9, <1>10, <1>12
      DEF Base, Closed, Slate, SameRequest, SameServlet, SameResponse
    <3> QED
      BY <1>9, <1>10, <2>1, <3>1 DEF Closed, WriterShut, ReaderShut
  <2>4. IdleOwn(c3) /\ Flow(c3, R)
    BY <1>10, <2>1 DEF IdleOwn, Flow
  <2>5. Base(c3, S, R)
    BY <1>10, <2>1, <2>3, <2>4 DEF Base
  <2> QED
    BY <2>1, <2>2, <2>5, PooledGood
<1>13. CASE ~c.pooled
  <2>1. c3.status # "STOP" /\ c3.conn = c.conn
    BY <1>11, <1>13 DEF Base, Opened, SamePlace
  <2>2. d = Shut(c3)
    BY <1>1, <1>10, <2>1 DEF StopHandler
  <2>3. Base(d, S, R) /\ d.pooled /\ d.conn = c3.conn /\ d.fd = NoFd
    BY <1>9, <1>10, <2>2, ShutRecycles
  <2> QED
    BY <2>1, <2>3, PooledGood
<1> QED
  BY <1>12, <1>13

\* clean() reads on or waits for its output.
LEMMA CleanGood ==
  ASSUME NEW S, NEW R, NEW c, Base(c, S, R), ~c.pooled, c.wrun,
         NEW d, d = Clean(c)
  PROVE  /\ Good(d, S, R) /\ d.conn = c.conn /\ d.fd = c.fd
         /\ d.status = "CLEANING" \/ (d.status = "RUNNING" /\ ~d.servlet)
<1>1. CASE c.queue # <<>>
  <2> DEFINE s == "CLEANING"
  <2>1. d = [c EXCEPT !.status = s]
    BY <1>1 DEF Clean
  <2>2. s \in Statuses \ {"STOP"}
    BY DEF Statuses
  <2> HIDE DEF s
  <2>3. /\ Base(d, S, R) /\ d.status = s /\ ~d.pooled
        /\ d.fd = c.fd /\ d.conn = c.conn /\ SameWriter(c, d)
    BY <2>1, <2>2, StatusBase
  <2>4. Wait(d) /\ Fresh(d)
    BY <1>1, <2>3 DEF Wait, HasOutput, Answered, Fresh, SameWriter, s
  <2> QED
    BY <2>3, <2>4 DEF Good, s
<1>2. CASE c.queue = <<>>
  <2> DEFINE s  == "RUNNING"
             c1 == EndRequest(c)
             c2 == [c1 EXCEPT !.status = s]
  <2>1. d = PrepareRead(c2)
    BY <1>2 DEF Clean, Base, Opened
  <2>2. s \in Statuses \ {"STOP"}
    BY DEF Statuses
  <2> HIDE DEF s
  <2>3. /\ Shape(c1) /\ SamePlace(c, c1) /\ SameReader(c, c1)
        /\ SameHistory(c, c1)
        /\ WriterType(c1, S) /\ c1.open = c.open
        /\ IdleType(c1) /\ c1.idle = c.idle
        /\ RequestType(c1) /\ ServletType(c1) /\ ~c1.servlet
        /\ ResponseType(c1) /\ Slate(c1) /\ c1.idleOn
    BY <1>2, EndRequestClears DEF Base, Typed
  <2> HIDE DEF c1
  <2>4. Base(c1, S, R) /\ ~c1.pooled
    <3>1. Typed(c1, S)
      BY <2>3, SameTypes DEF Base, Typed
    <3>2. Opened(c1) /\ ~c1.pooled
      BY <2>3 DEF Base, Opened, SamePlace, SameReader
    <3>3. IdleOwn(c1) /\ Flow(c1, R)
      BY <2>3 DEF Base, IdleOwn, Flow, Slate, SamePlace
    <3> QED
      BY <3>1, <3>2, <3>3 DEF Base
  <2>5. /\ Base(c2, S, R) /\ c2.status = s /\ ~c2.pooled
        /\ c2.fd = c1.fd /\ c2.conn = c1.conn
        /\ SameWriter(c1, c2) /\ SameIdle(c1, c2) /\ SameRequest(c1, c2)
        /\ SameServlet(c1, c2) /\ SameResponse(c1, c2)
    BY <2>2, <2>4, StatusBase
  <2> HIDE DEF c2
  <2>6. Slate(c2) /\ c2.idleOn /\ ~c2.servlet
    BY <2>3, <2>5
    DEF Slate, SameWriter, SameIdle, SameRequest, SameServlet, SameResponse
  <2>7. Base(d, S, R) /\ Rests(c2, d)
    BY <2>1, <2>5, PrepareReadRests
  <2>8. Wait(c2) /\ Fresh(c2)
    BY <2>5, <2>6 DEF Wait, HasOutput, Answered, Fresh, s
  <2>9. Wait(d) /\ Fresh(d)
    BY <2>7, <2>8, RestsGood
  <2>10. /\ d.status = "RUNNING" /\ ~d.servlet
         /\ d.conn = c.conn /\ d.fd = c.fd
    BY <2>3, <2>5, <2>6, <2>7 DEF Rests, SamePlace, SameServlet, s
  <2> QED
    BY <2>7, <2>9, <2>10 DEF Good
<1> QED
  BY <1>1, <1>2

LEMMA OnCompleteGood ==
  ASSUME NEW S, NEW R, NEW c, Base(c, S, R), ~c.pooled, c.wrun,
         NEW d, d = OnCompleteEvent(c)
  PROVE  Good(d, S, R) /\ d.conn = c.conn /\ d.fd \in {c.fd, NoFd}
<1>1. d = Clean(c) \/ d = StopHandler(c)
  BY DEF OnCompleteEvent
<1> QED
  BY <1>1, CleanGood, StopHandlerGood

LEMMA StopHandlerMoves ==
  ASSUME NEW S, NEW R, NEW c, Base(c, S, R), NEW d, d = StopHandler(c)
  PROVE  Moves(c, d)
<1>1. /\ Good(d, S, R) /\ d.conn = c.conn /\ d.fd \in {c.fd, NoFd}
      /\ d.pooled \/ d.status = "STOPPING"
  BY StopHandlerGood
<1>2. c.pooled => d = c
  BY DEF StopHandler, Base, Closed
<1>3. d.status # "RUNNING"
  BY <1>1 DEF Good, Base, Closed
<1> QED
  BY <1>1, <1>2, <1>3 DEF Moves

LEMMA ErrorMoves ==
  ASSUME NEW S, NEW R, NEW c, Base(c, S, R), NEW d, d = Error(c)
  PROVE  Moves(c, d)
<1>1. Good(d, S, R) /\ d.pooled /\ d.conn = c.conn /\ d.fd = NoFd
  BY ErrorGood
<1>2. d.status # "RUNNING"
  BY <1>1 DEF Good, Base, Closed
<1> QED
  BY <1>1, <1>2 DEF Moves

LEMMA MovesAfter ==
  ASSUME NEW c, NEW e, NEW d, SamePlace(c, e), Moves(e, d)
  PROVE  Moves(c, d)
BY DEF SamePlace, Moves

LEMMA MovesThenRests ==
  ASSUME NEW c, NEW e, NEW d, Moves(c, e), Rests(e, d)
  PROVE  Moves(c, d)
BY DEF Rests, SamePlace, SameServlet, Moves

LEMMA SameMoves ==
  ASSUME NEW c, NEW d, SamePlace(c, d), SameServlet(c, d),
         c.status = "CLEANING" => d.status # "RUNNING"
  PROVE  Moves(c, d)
BY DEF SamePlace, SameServlet, Moves

-----------------------------------------------------------------------------
(* The response                                                            *)

WithHeader(c, m) == [c EXCEPT !.header = m, !.buffered = FALSE]
Unbuffered(c)    == [c EXCEPT !.buffered = FALSE]
Buffered(c)      == [c EXCEPT !.buffered = TRUE]

LEMMA ResponseFields ==
  ASSUME NEW c, Shape(c), NEW m, NEW d,
         d = WithHeader(c, m) \/ d = Unbuffered(c) \/ d = Buffered(c)
  PROVE  /\ Shape(d) /\ SamePlace(c, d) /\ SameWriter(c, d) /\ SameReader(c, d)
         /\ SameIdle(c, d) /\ SameRequest(c, d) /\ SameServlet(c, d)
         /\ SameHistory(c, d)
         /\ d.header \in {c.header, m} /\ d.buffered \in BOOLEAN
         /\ d.async = c.async
<1>1. CASE d = WithHeader(c, m)
  BY <1>1 DEF WithHeader, Shape, FieldNames, SamePlace, SameWriter, SameReader,
     SameIdle, SameRequest, SameServlet, SameHistory
<1>2. CASE d = Unbuffered(c)
  BY <1>2 DEF Unbuffered, Shape, FieldNames, SamePlace, SameWriter, SameReader,
     SameIdle, SameRequest, SameServlet, SameHistory
<1>3. CASE d = Buffered(c)
  BY <1>3 DEF Buffered, Shape, FieldNames, SamePlace, SameWriter, SameReader,
     SameIdle, SameRequest, SameServlet, SameHistory
<1> QED
  BY <1>1, <1>2, <1>3

LEMMA ResponseWrites ==
  ASSUME NEW S, NEW R, NEW c, Base(c, S, R), ~c.pooled,
         NEW m \in Modes \cup {"none"}, NEW d,
         d = WithHeader(c, m) \/ d = Unbuffered(c) \/ d = Buffered(c)
  PROVE  Base(d, S, R) /\ Writes(c, d) /\ ~d.pooled
<1>1. /\ Shape(d) /\ SamePlace(c, d) /\ SameWriter(c, d) /\ SameReader(c, d)
      /\ SameIdle(c, d) /\ SameRequest(c, d) /\ SameServlet(c, d)
      /\ SameHistory(c, d)
      /\ d.header \in {c.header, m} /\ d.buffered \in BOOLEAN
      /\ d.async = c.async
  BY ResponseFields DEF Base, Typed
<1>2. Writes(c, d) /\ ~d.pooled
  BY <1>1 DEF Writes, SameWriter, SamePlace
<1>3. WriterType(d, S)
  BY <1>1, SameTypes DEF Base, Typed
<1>4. ResponseType(d)
  BY <1>1 DEF Base, Typed, ResponseType
<1>5. Flow(d, R)
  BY <1>1 DEF Base, Flow, SameWriter
<1> QED
  BY <1>1, <1>2, <1>3, <1>4, <1>5, WritesBase

LEMMA WriteBufferWrites ==
  ASSUME NEW S, NEW R, NEW c, Base(c, S, R), ~c.pooled,
         NEW mode \in Modes, NEW d, d = WriteBuffer(c, mode)
  PROVE  Base(d, S, R) /\ Writes(c, d) /\ ~d.pooled
<1>1. CASE c.header = "none" \/ c.buffered
  <2> DEFINE e == Enqueue(c, NoPump)
             m == IF c.header = "none" THEN mode ELSE c.header
  <2>1. d = WithHeader(e, m)
    BY <1>1 DEF WriteBuffer, WithHeader
  <2>2. m \in Modes \cup {"none"}
    BY DEF Base, Typed, ResponseType
  <2>3. Base(e, S, R) /\ Writes(c, e)
    BY EnqueueWrites
  <2> HIDE DEF e, m
  <2>4. ~e.pooled
    BY <2>3 DEF Writes, SamePlace
  <2>5. Base(d, S, R) /\ Writes(e, d) /\ ~d.pooled
    BY <2>1, <2>2, <2>3, <2>4, ResponseWrites
  <2> QED
    BY <2>3, <2>5, WritesTransitive
<1>2. CASE ~(c.header = "none" \/ c.buffered)
  <2>1. d = c
    BY <1>2 DEF WriteBuffer
  <2> QED
    BY <2>1, WritesReflexive
<1> QED
  BY <1>1, <1>2

LEMMA WriteChunkHeadWrites ==
  ASSUME NEW S, NEW R, NEW c, Base(c, S, R), ~c.pooled,
         NEW mode \in Modes, NEW d, d = WriteChunkHead(c, mode)
  PROVE  Base(d, S, R) /\ Writes(c, d) /\ ~d.pooled
<1>1. CASE c.header = "chunked"
  <2> DEFINE e == Enqueue(c, NoPump)
  <2>1. d = Unbuffered(e)
    BY <1>1 DEF WriteChunkHead, Unbuffered
  <2>2. Base(e, S, R) /\ Writes(c, e)
    BY EnqueueWrites
  <2> HIDE DEF e
  <2>3. ~e.pooled
    BY <2>2 DEF Writes, SamePlace
  <2>4. Base(d, S, R) /\ Writes(e, d) /\ ~d.pooled
    BY <2>1, <2>2, <2>3, ResponseWrites
  <2> QED
    BY <2>2, <2>4, WritesTransitive
<1>2. CASE c.header # "chunked"
  <2>1. d = WriteBuffer(c, mode)
    BY <1>2 DEF WriteChunkHead
  <2> QED
    BY <2>1, WriteBufferWrites
<1> QED
  BY <1>1, <1>2

LEMMA FlushBufferWrites ==
  ASSUME NEW S, NEW R, NEW c, Base(c, S, R), ~c.pooled,
         NEW mode \in Modes, NEW d, d = FlushBuffer(c, mode)
  PROVE  Base(d, S, R) /\ Writes(c, d) /\ ~d.pooled
<1> DEFINE e == WriteBuffer(c, mode)
<1>1. Base(e, S, R) /\ Writes(c, e) /\ ~e.pooled
  BY WriteBufferWrites
<1>2. d = WriterStart(e)
  BY DEF FlushBuffer
<1> HIDE DEF e
<1>3. Base(d, S, R) /\ Writes(e, d)
  BY <1>1, <1>2, WriterStartWrites
<1>4. ~d.pooled
  BY <1>1, <1>3 DEF Writes, SamePlace
<1> QED
  BY <1>1, <1>3, <1>4, WritesTransitive

LEMMA SendfileWrites ==
  ASSUME NEW S, NEW R, NEW c, Base(c, S, R), ~c.pooled,
         NEW mode \in Modes, NEW f \in S \cup {NoPump},
         NEW d, d = Sendfile(c, mode, f)
  PROVE  Base(d, S, R) /\ Writes(c, d) /\ ~d.pooled
<1> DEFINE e == WriteChunkHead(c, mode)
           g == Enqueue(e, f)
<1>1. d = g \/ d = Enqueue(g, NoPump)
  BY DEF Sendfile
<1>2. Base(e, S, R) /\ Writes(c, e) /\ ~e.pooled
  BY WriteChunkHeadWrites
<1> HIDE DEF e
<1>3. Base(g, S, R) /\ Writes(e, g)
  BY <1>2, EnqueueWrites
<1> HIDE DEF g
<1>4. Writes(c, g) /\ ~g.pooled
  BY <1>2, <1>3, WritesTransitive DEF Writes, SamePlace
<1>5. CASE d = Enqueue(g, NoPump)
  <2>1. Base(d, S, R) /\ Writes(g, d)
    BY <1>3, <1>4, <1>5, EnqueueWrites
  <2> QED
    BY <1>4, <2>1, WritesTransitive DEF Writes, SamePlace
<1> QED
  BY <1>1, <1>3, <1>4, <1>5

LEMMA OutputWrites ==
  ASSUME NEW S, NEW R, NEW c, Base(c, S, R), ~c.pooled,
         NEW out \in Outputs, NEW mode \in Modes, NEW f \in S \cup {NoPump},
         NEW d, d = Output(c, out, mode, f)
  PROVE  Base(d, S, R) /\ Writes(c, d) /\ ~d.pooled
<1>1. CASE d = c
  BY <1>1, WritesReflexive
<1>2. CASE d = Buffered(c)
  BY <1>2, ResponseWrites
<1>3. CASE out = "spill" /\ d # c
  <2> DEFINE b == Buffered(c)
             e == WriteBuffer(b, mode)
  <2>1. d = Buffered(e)
    BY <1>3 DEF Output, Buffered
  <2>2. Base(b, S, R) /\ Writes(c, b) /\ ~b.pooled
    BY ResponseWrites
  <2> HIDE DEF b
  <2>3. Base(e, S, R) /\ Writes(b, e) /\ ~e.pooled
    BY <2>2, WriteBufferWrites
  <2> HIDE DEF e
  <2>4. Base(d, S, R) /\ Writes(e, d) /\ ~d.pooled
    BY <2>1, <2>3, ResponseWrites
  <2>5. Writes(c, e)
    BY <2>2, <2>3, WritesTransitive
  <2> QED
    BY <2>4, <2>5, WritesTransitive
<1>4. CASE out = "flush"
  <2>1. d = FlushBuffer(c, mode)
    BY <1>4 DEF Output
  <2> QED
    BY <2>1, FlushBufferWrites
<1>5. CASE out = "sendfile"
  <2>1. d = Sendfile(c, mode, f)
    BY <1>5 DEF Output
  <2> QED
    BY <2>1, SendfileWrites
<1>6. CASE out \in {"none", "buffer"}
  <2>1. d = c \/ d = Buffered(c)
    BY <1>6 DEF Output, Buffered
  <2> QED
    BY <2>1, <1>1, <1>2
<1> QED
  BY <1>1, <1>3, <1>4, <1>5, <1>6 DEF Outputs

LEMMA WritesWait ==
  ASSUME NEW c, NEW d, Wait(c), Writes(c, d)
  PROVE  Wait(d) /\ SamePlace(c, d) /\ SameServlet(c, d)
BY DEF Wait, HasOutput, Answered, Writes, SamePlace

LEMMA CompleteGood ==
  ASSUME NEW S, NEW R, NEW c, Base(c, S, R), ~c.pooled, Wait(c),
         NEW d, d = Complete(c)
  PROVE  /\ Good(d, S, R) /\ Moves(c, d)
         /\ c.status # "RUNNING" => d.status = c.status
<1>1. CASE c.status # "RUNNING"
  <2>1. d = WriterStart(c)
    BY <1>1 DEF Complete, StartWrite, Base, Opened
  <2>2. Base(d, S, R) /\ Writes(c, d)
    BY <2>1, WriterStartWrites
  <2>3. Wait(d) /\ SamePlace(c, d) /\ SameServlet(c, d)
    BY <2>2, WritesWait
  <2>4. Fresh(d) /\ d.status # "RUNNING"
    BY <1>1, <2>3 DEF Fresh, SamePlace
  <2> QED
    BY <2>2, <2>3, <2>4, SameMoves DEF Good, SamePlace
<1>2. CASE c.status = "RUNNING"
  <2> DEFINE m == "length"
             s == "ANSWERING"
             c1 == WriteChunkHead(c, m)
             c2 == WriterStart(c1)
             c3 == [c2 EXCEPT !.status = s]
  <2>1. m \in Modes /\ s \in Statuses \ {"STOP"}
    BY DEF Modes, Statuses
  <2>2. d = OnCompleteEvent([StartWrite(c1) EXCEPT !.status = s])
    BY <1>2 DEF Complete
  <2> HIDE DEF m, s
  <2>3. Base(c1, S, R) /\ Writes(c, c1) /\ ~c1.pooled
    BY <2>1, WriteChunkHeadWrites
  <2> HIDE DEF c1
  <2>4. d = OnCompleteEvent(c3)
    BY <2>2, <2>3 DEF StartWrite, Base, Opened
  <2>5. Base(c2, S, R) /\ Writes(c1, c2) /\ c2.wrun
    BY <2>3, WriterStartWrites
  <2> HIDE DEF c2
  <2>6. ~c2.pooled /\ SamePlace(c, c2)
    BY <2>3, <2>5 DEF Writes, SamePlace
  <2>7. /\ Base(c3, S, R) /\ ~c3.pooled
        /\ c3.fd = c2.fd /\ c3.conn = c2.conn /\ SameWriter(c2, c3)
    BY <2>1, <2>5, <2>6, StatusBase
  <2> HIDE DEF c3
  <2>8. c3.wrun
    BY <2>5, <2>7 DEF SameWriter
  <2>9. Good(d, S, R) /\ d.conn = c3.conn /\ d.fd \in {c3.fd, NoFd}
    BY <2>4, <2>7, <2>8, OnCompleteGood
  <2> QED
    BY <1>2, <2>6, <2>7, <2>9 DEF Moves, SamePlace
<1> QED
  BY <1>1, <1>2

-----------------------------------------------------------------------------
(* Requests                                                                *)

Coded(c)        == [c EXCEPT !.code = TRUE]
Kept(c, k)      == [c EXCEPT !.keep = k]
Headed(c, k)    == [c EXCEPT !.ready = TRUE, !.keep = k]
Bodied(c)       == [c EXCEPT !.body = TRUE]
Judged(c, v)    == [c EXCEPT !.done = v, !.code = v]
Called(c, a, b) == [c EXCEPT !.async = a, !.code = b]
Done(c)         == [c EXCEPT !.done = TRUE]
Undone(c)       == [c EXCEPT !.done = FALSE]
Taken(c, v)     == [c EXCEPT !.servlet = TRUE, !.live = v]

\* d is c after one of these steps of a request; a and b are Boolean.
RequestStep(c, d, a, b) ==
  \/ d = Coded(c)  \/ d = Kept(c, a)  \/ d = Headed(c, a) \/ d = Bodied(c)
  \/ d = Judged(c, a) \/ d = Called(c, a, b) \/ d = Done(c) \/ d = Undone(c)
  \/ d = Taken(c, 1)

LEMMA RequestStepFields ==
  ASSUME NEW c, Shape(c), RequestType(c), ServletType(c), ResponseType(c),
         NEW a \in BOOLEAN, NEW b \in BOOLEAN, NEW d, RequestStep(c, d, a, b)
  PROVE  /\ Shape(d) /\ Requests(c, d)
         /\ RequestType(d) /\ ServletType(d) /\ ResponseType(d)
<1>1. CASE d = Coded(c)
  BY <1>1 DEF Coded, Shape, FieldNames, Requests, SamePlace, SameWriter,
     SameReader, SameIdle, SameHistory, RequestType, ServletType, ResponseType
<1>2. CASE d = Kept(c, a)
  BY <1>2 DEF Kept, Shape, FieldNames, Requests, SamePlace, SameWriter,
     SameReader, SameIdle, SameHistory, RequestType, ServletType, ResponseType
<1>3. CASE d = Headed(c, a)
  BY <1>3 DEF Headed, Shape, FieldNames, Requests, SamePlace, SameWriter,
     SameReader, SameIdle, SameHistory, RequestType, ServletType, ResponseType
<1>4. CASE d = Bodied(c)
  BY <1>4 DEF Bodied, Shape, FieldNames, Requests, SamePlace, SameWriter,
     SameReader, SameIdle, SameHistory, RequestType, ServletType, ResponseType
<1>5. CASE d = Judged(c, a)
  BY <1>5 DEF Judged, Shape, FieldNames, Requests, SamePlace, SameWriter,
     SameReader, SameIdle, SameHistory, RequestType, ServletType, ResponseType
<1>6. CASE d = Called(c, a, b)
  BY <1>6 DEF Called, Shape, FieldNames, Requests, SamePlace, SameWriter,
     SameReader, SameIdle, SameHistory, RequestType, ServletType, ResponseType
<1>7. CASE d = Done(c)
  BY <1>7 DEF Done, Shape, FieldNames, Requests, SamePlace, SameWriter,
     SameReader, SameIdle, SameHistory, RequestType, ServletType, ResponseType
<1>8. CASE d = Undone(c)
  BY <1>8 DEF Undone, Shape, FieldNames, Requests, SamePlace, SameWriter,
     SameReader, SameIdle, SameHistory, RequestType, ServletType, ResponseType
<1>9. CASE d = Taken(c, 1)
  BY <1>9 DEF Taken, Shape, FieldNames, Requests, SamePlace, SameWriter,
     SameReader, SameIdle, SameHistory, RequestType, ServletType, ResponseType
<1> QED
  BY <1>1, <1>2, <1>3, <1>4, <1>5, <1>6, <1>7, <1>8, <1>9 DEF RequestStep

LEMMA RequestStepBase ==
  ASSUME NEW S, NEW R, NEW c, Base(c, S, R), ~c.pooled,
         NEW a \in BOOLEAN, NEW b \in BOOLEAN, NEW d, RequestStep(c, d, a, b)
  PROVE  Base(d, S, R) /\ Requests(c, d) /\ ~d.pooled
<1>1. /\ Shape(d) /\ Requests(c, d)
      /\ RequestType(d) /\ ServletType(d) /\ ResponseType(d)
  BY RequestStepFields DEF Base, Typed
<1>2. ~d.pooled
  BY <1>1 DEF Requests, SamePlace
<1> QED
  BY <1>1, <1>2, RequestsBase

LEMMA RequestsWait ==
  ASSUME NEW c, NEW d, Requests(c, d)
  PROVE  /\ Wait(c) => Wait(d)
         /\ SamePlace(c, d) /\ (c.servlet => d.servlet)
BY DEF Requests, Wait, HasOutput, Answered, SamePlace, SameWriter

\* The mark of a completed request is nothing that Good looks at.
LEMMA DoneGood ==
  ASSUME NEW S, NEW R, NEW c, Good(c, S, R), NEW d, d = Done(c)
  PROVE  Good(d, S, R) /\ SamePlace(c, d) /\ SameServlet(c, d)
<1>1. /\ Shape(d) /\ SamePlace(c, d) /\ SameWriter(c, d)
      /\ SameReader(c, d) /\ SameIdle(c, d) /\ SameServlet(c, d)
      /\ SameResponse(c, d) /\ SameHistory(c, d)
      /\ d.code = c.code /\ d.ready = c.ready
      /\ d.body = c.body /\ d.keep = c.keep
  <2>1. Shape(c)
    BY DEF Good, Base, Typed
  <2> QED
    BY <2>1 DEF Done, Shape, FieldNames, SamePlace, SameWriter, SameReader,
       SameIdle, SameServlet, SameResponse, SameHistory
<1>2. RequestType(d)
  <2>1. Shape(c) /\ RequestType(c)
    BY DEF Good, Base, Typed
  <2> QED
    BY <2>1 DEF Done, Shape, FieldNames, RequestType
<1>3. Typed(d, S)
  BY <1>1, <1>2, SameTypes DEF Good, Base, Typed
<1>4. c.pooled => Closed(d)
  BY <1>1 DEF Good, Base, Closed, Slate, SamePlace, SameWriter, SameReader,
     SameServlet, SameResponse
<1>5. ~c.pooled => Opened(d)
  BY <1>1 DEF Good, Base, Opened, SamePlace, SameWriter, SameReader
<1>6. IdleOwn(d) /\ Flow(d, R) /\ d.pooled = c.pooled
  BY <1>1 DEF Good, Base, IdleOwn, Flow, SamePlace, SameWriter, SameIdle
<1>7. Wait(d) /\ Fresh(d)
  BY <1>1 DEF Good, Wait, HasOutput, Answered, Fresh, Slate, SamePlace,
     SameWriter, SameIdle, SameServlet, SameResponse
<1> QED
  BY <1>1, <1>3, <1>4, <1>5, <1>6, <1>7 DEF Good, Base

LEMMA OnHttpCodeGood ==
  ASSUME NEW S, NEW R, NEW c, Base(c, S, R), ~c.pooled, Wait(c),
         NEW d, d = OnHttpCode(c)
  PROVE  Good(d, S, R) /\ Moves(c, d)
<1> DEFINE e == Coded(c)
<1>1. d = Complete(e)
  BY DEF OnHttpCode, Coded
<1>2. Base(e, S, R) /\ Requests(c, e) /\ ~e.pooled
  <2>1. \A a, b : RequestStep(c, e, a, b)
    BY DEF RequestStep
  <2> HIDE DEF e
  <2> QED
    BY <2>1, RequestStepBase
<1> HIDE DEF e
<1>3. Wait(e) /\ SamePlace(c, e)
  BY <1>2, RequestsWait
<1> QED
  BY <1>1, <1>2, <1>3, CompleteGood, MovesAfter

LEMMA CallServiceGood ==
  ASSUME NEW S, NEW R, NEW c, Base(c, S, R), ~c.pooled, Wait(c), c.servlet,
         NEW s \in ServiceCall, NEW f \in S \cup {NoPump},
         NEW d, d = CallService(c, s, f)
  PROVE  /\ Good(d, S, R) /\ Moves(c, d)
         /\ c.status # "RUNNING" => d.status = c.status
<1> DEFINE i == IF s.idleOff THEN IdleOff(c) ELSE c
           o == Output(i, s.out, s.mode, f)
           a == o.async \/ s.async
           b == o.code \/ s.status
           e == Called(o, a, b)
<1>1. d = IF e.async THEN Undone(e) ELSE Done(Complete(e))
  BY DEF CallService, IdleOff, Called, Undone, Done
<1>2. s.out \in Outputs /\ s.mode \in Modes
  BY DEF ServiceCall
<1>3. Base(i, S, R) /\ Rests(c, i)
  BY IdleOffRests, WritesReflexive
<1> HIDE DEF i
<1>4. ~i.pooled /\ Wait(i) /\ i.servlet /\ SamePlace(c, i)
  BY <1>3, RestsGood DEF Rests, SamePlace, SameServlet
<1>5. Base(o, S, R) /\ Writes(i, o) /\ ~o.pooled
  BY <1>2, <1>3, <1>4, OutputWrites
<1> HIDE DEF o
<1>6. Wait(o) /\ SamePlace(i, o) /\ o.servlet
  BY <1>4, <1>5, WritesWait DEF SameServlet
<1>7. Base(e, S, R) /\ Requests(o, e) /\ ~e.pooled
  <2>1. a \in BOOLEAN /\ b \in BOOLEAN
    OBVIOUS
  <2>2. RequestStep(o, e, a, b)
    BY DEF RequestStep
  <2> HIDE DEF a, b, e
  <2> QED
    BY <1>5, <2>1, <2>2, RequestStepBase
<1> HIDE DEF a, b, e
<1>8. Wait(e) /\ SamePlace(o, e) /\ e.servlet
  BY <1>6, <1>7, RequestsWait
<1>9. SamePlace(c, e)
  BY <1>4, <1>6, <1>8 DEF SamePlace
<1>10. CASE e.async
  <2>1. d = Undone(e)
    BY <1>1, <1>10
  <2>2. \A u, v : RequestStep(e, d, u, v)
    BY <2>1 DEF RequestStep
  <2>3. Base(d, S, R) /\ Requests(e, d) /\ ~d.pooled
    BY <1>7, <2>2, RequestStepBase
  <2>4. Wait(d) /\ SamePlace(e, d) /\ d.servlet
    BY <1>8, <2>3, RequestsWait
  <2>5. Fresh(d)
    BY <2>4 DEF Fresh
  <2>6. Moves(c, d)
    <3>1. SamePlace(c, d)
      BY <1>9, <2>4 DEF SamePlace
    <3>2. c.status # "RUNNING" => d.status # "RUNNING"
      BY <3>1 DEF SamePlace
    <3> QED
      BY <3>1, <3>2 DEF Moves, SamePlace
  <2> QED
    BY <1>9, <2>3, <2>4, <2>5, <2>6 DEF Good, SamePlace
<1>11. CASE ~e.async
  <2> DEFINE g == Complete(e)
  <2>1. d = Done(g)
    BY <1>1, <1>11
  <2>2. /\ Good(g, S, R) /\ Moves(e, g)
        /\ e.status # "RUNNING" => g.status = e.status
    BY <1>7, <1>8, CompleteGood
  <2> HIDE DEF g
  <2>3. Good(d, S, R) /\ SamePlace(g, d) /\ SameServlet(g, d)
    BY <2>1, <2>2, DoneGood
  <2>4. Moves(c, g)
    BY <1>9, <2>2, MovesAfter
  <2>5. Moves(c, d)
    BY <2>3, <2>4 DEF Moves, SamePlace, SameServlet
  <2> QED
    BY <1>9, <2>2, <2>3, <2>5 DEF SamePlace
<1> QED
  BY <1>10, <1>11

LEMMA WithHeadersBase ==
  ASSUME NEW S, NEW R, NEW c, Base(c, S, R), ~c.pooled, Wait(c),
         NEW keep \in BOOLEAN, NEW d, d = WithHeaders(c, keep)
  PROVE  /\ Base(d, S, R) /\ ~d.pooled /\ Wait(d) /\ d.servlet
         /\ SamePlace(c, d)
<1> DEFINE e == Headed(c, keep)
<1>1. d = GetServlet(e)
  BY DEF WithHeaders, Headed
<1>2. Base(e, S, R) /\ Requests(c, e) /\ ~e.pooled
  <2>1. \A b : RequestStep(c, e, keep, b)
    BY DEF RequestStep
  <2> HIDE DEF e
  <2> QED
    BY <2>1, RequestStepBase
<1> HIDE DEF e
<1>3. Wait(e) /\ SamePlace(c, e)
  BY <1>2, RequestsWait
<1>4. CASE e.servlet
  BY <1>1, <1>2, <1>3, <1>4 DEF GetServlet
<1>5. CASE ~e.servlet
  <2>1. d = Taken(e, e.live + 1)
    BY <1>1, <1>5 DEF GetServlet, Taken
  <2>2. e.live + 1 = 1
    BY <1>2, <1>5 DEF Base, Typed, ServletType
  <2>3. d = Taken(e, 1)
    BY <2>1, <2>2
  <2>4. \A a, b : RequestStep(e, d, a, b)
    BY <2>3 DEF RequestStep
  <2>5. Base(d, S, R) /\ Requests(e, d) /\ ~d.pooled
    BY <1>2, <2>4, RequestStepBase
  <2>6. d.servlet
    <3>1. Shape(e)
      BY <1>2 DEF Base, Typed
    <3> QED
      BY <2>3, <3>1 DEF Taken, Shape, FieldNames
  <2>7. Wait(d) /\ SamePlace(c, d)
    BY <1>3, <2>5, RequestsWait DEF SamePlace
  <2> QED
    BY <2>5, <2>6, <2>7
<1> QED
  BY <1>4, <1>5

LEMMA BodyOutputBase ==
  ASSUME NEW S, NEW R, NEW c, Base(c, S, R), ~c.pooled, Wait(c), c.servlet,
         NEW early, NEW d, d = BodyOutput(c, early)
  PROVE  /\ Base(d, S, R) /\ ~d.pooled /\ Wait(d) /\ d.servlet
         /\ SamePlace(c, d)
<1>1. CASE d = c
  BY <1>1 DEF SamePlace
<1>2. CASE d # c
  <2> DEFINE m == "length"
  <2>1. m \in Modes
    BY DEF Modes
  <2>2. d = FlushBuffer(c, m)
    BY <1>2 DEF BodyOutput
  <2> HIDE DEF m
  <2>3. Base(d, S, R) /\ Writes(c, d) /\ ~d.pooled
    BY <2>1, <2>2, FlushBufferWrites
  <2> QED
    BY <2>3, WritesWait DEF SameServlet
<1> QED
  BY <1>1, <1>2

LEMMA GoOnGood ==
  ASSUME NEW S, NEW R, NEW c, Good(c, S, R), NEW d, d = GoOn(c)
  PROVE  Good(d, S, R) /\ Moves(c, d)
<1>1. CASE c.code
  <2>1. ~c.pooled
    BY <1>1 DEF Good, Base, Closed, Slate
  <2>2. d = OnHttpCode(c)
    BY <1>1 DEF GoOn
  <2> QED
    BY <2>1, <2>2, OnHttpCodeGood DEF Good
<1>2. CASE d = c
  <2>1. Moves(c, d)
    BY <1>2 DEF Moves, Good, Fresh, Base, Typed
  <2> QED
    BY <1>2, <2>1
<1>3. CASE ~c.code /\ d # c
  <2>1. d = PrepareRead(c)
    BY <1>3 DEF GoOn
  <2>2. Base(d, S, R) /\ Rests(c, d)
    BY <2>1, PrepareReadRests DEF Good
  <2>3. Wait(d) /\ Fresh(d)
    BY <2>2, RestsGood DEF Good
  <2>4. Moves(c, d)
    BY <2>2, SameMoves DEF Rests, SamePlace
  <2> QED
    BY <2>2, <2>3, <2>4 DEF Good
<1> QED
  BY <1>1, <1>2, <1>3

-----------------------------------------------------------------------------
(* Write completions                                                       *)

LEMMA OnWriteQueueEmptyGood ==
  ASSUME NEW S, NEW R, NEW c, Good(c, S, R), c.status = "RUNNING",
         NEW react \in Reactions, NEW d, d = OnWriteQueueEmpty(c, react)
  PROVE  Good(d, S, R) /\ Moves(c, d)
<1>1. ~c.pooled
  BY DEF Good, Base, Closed
<1>2. CASE d = c
  BY <1>2 DEF Moves, Good, Fresh
<1>3. CASE c.servlet /\ react = "write"
  <2> DEFINE m == "length"
             b == Buffered(c)
  <2>1. m \in Modes
    BY DEF Modes
  <2>2. d = FlushBuffer(b, m)
    BY <1>3 DEF OnWriteQueueEmpty, Buffered
  <2>3. Base(b, S, R) /\ Writes(c, b) /\ ~b.pooled
    BY <1>1, <2>1, ResponseWrites DEF Good
  <2> HIDE DEF m, b
  <2>4. Base(d, S, R) /\ Writes(b, d)
    BY <2>1, <2>2, <2>3, FlushBufferWrites
  <2>5. Writes(c, d)
    BY <2>3, <2>4, WritesTransitive
  <2>6. Wait(d) /\ SamePlace(c, d) /\ SameServlet(c, d)
    BY <2>5, WritesWait DEF Good
  <2>7. Fresh(d) /\ Moves(c, d)
    BY <1>3, <2>6, SameMoves DEF Fresh, SameServlet
  <2> QED
    BY <2>4, <2>6, <2>7 DEF Good
<1>4. CASE d = Complete(c)
  BY <1>1, <1>4, CompleteGood DEF Good
<1>5. d = c \/ (c.servlet /\ react = "write") \/ d = Complete(c)
  BY DEF OnWriteQueueEmpty, Reactions
<1> QED
  BY <1>2, <1>3, <1>4, <1>5

LEMMA HandleWriteGood ==
  ASSUME NEW S, NEW R, NEW c, Base(c, S, R), Answered(c), Fresh(c),
         NEW react \in Reactions, NEW d, d = HandleWrite(c, react)
  PROVE  Good(d, S, R) /\ Moves(c, d)
<1>1. CASE c.pooled
  <2>1. d = c
    BY <1>1 DEF HandleWrite, StopWrite, Base, Closed
  <2>2. Good(c, S, R)
    BY <1>1, PooledGood
  <2> QED
    BY <1>1, <2>1, <2>2 DEF Moves, Base, Closed
<1>2. CASE ~c.pooled /\ c.queue # <<>>
  <2>1. d = c
    BY <1>2 DEF HandleWrite, Base, Opened
  <2>2. Wait(c)
    BY <1>2 DEF Wait, HasOutput
  <2> QED
    BY <2>1, <2>2 DEF Good, Moves
<1>3. CASE ~c.pooled /\ c.queue = <<>>
  <2>1. c.status # "STOP"
    BY <1>3 DEF Base, Opened
  <2>2. CASE c.status = "STOPPING"
    <3>1. d = StopHandler(c)
      BY <1>3, <2>1, <2>2 DEF HandleWrite
    <3> QED
      BY <3>1, StopHandlerGood, StopHandlerMoves
  <2>3. CASE c.status = "CLEANING"
    <3>1. d = Clean(c)
      BY <1>3, <2>1, <2>3 DEF HandleWrite
    <3>2. c.wrun
      BY <2>3 DEF Answered
    <3>3. /\ Good(d, S, R) /\ d.conn = c.conn /\ d.fd = c.fd
          /\ d.status = "CLEANING" \/ (d.status = "RUNNING" /\ ~d.servlet)
      BY <1>3, <3>1, <3>2, CleanGood
    <3> QED
      BY <1>3, <2>3, <3>3 DEF Moves
  <2>4. CASE c.status = "RUNNING"
    <3> DEFINE e == OnWriteQueueEmpty(c, react)
    <3>1. d = StartTimeoutEv(e)
      BY <1>3, <2>1, <2>4 DEF HandleWrite
    <3>2. Good(c, S, R)
      BY <2>4 DEF Good, Wait, HasOutput
    <3>3. Good(e, S, R) /\ Moves(c, e)
      BY <2>4, <3>2, OnWriteQueueEmptyGood
    <3> HIDE DEF e
    <3>4. Base(d, S, R) /\ Rests(e, d)
      BY <3>1, <3>3, StartTimeoutEvRests DEF Good
    <3>5. Wait(d) /\ Fresh(d)
      BY <3>3, <3>4, RestsGood DEF Good
    <3>6. Moves(c, d)
      BY <3>3, <3>4, MovesThenRests
    <3> QED
      BY <3>4, <3>5, <3>6 DEF Good
  <2>5. c.status \in {"STOPPING", "CLEANING", "RUNNING"}
    BY <2>1 DEF Base, Typed, PlaceType, Statuses, Answered
  <2> QED
    BY <2>2, <2>3, <2>4, <2>5
<1> QED
  BY <1>1, <1>2, <1>3

\* In the pool there is no output, whatever pumps are running.
LEMMA PooledAnyRunning ==
  ASSUME NEW S, NEW R, NEW c, Base(c, S, R), c.pooled, NEW Q
  PROVE  Good(c, S, Q)
<1>1. Flow(c, Q)
  BY DEF Base, Closed, Slate, Flow
<1>2. Base(c, S, Q)
  BY <1>1 DEF Base
<1> QED
  BY <1>2, PooledGood

\* Popping asks nothing of the timer: it is set again when a block is left.
LEMMA PoppedBase ==
  ASSUME NEW S, NEW R, NEW c, Base(c, S, R), Answered(c), Fresh(c),
         c.queue # <<>>, NEW Q,
         NEW e, e = WithQueue(c, Tail(c.queue), Len(c.queue) > 1)
  PROVE  /\ Base(e, S, Q) /\ Answered(e) /\ Fresh(e)
         /\ SamePlace(c, e) /\ SameReader(c, e) /\ SameIdle(c, e)
         /\ SameRequest(c, e) /\ SameServlet(c, e) /\ SameResponse(c, e)
<1> DEFINE q == Tail(c.queue)
           t == Len(c.queue) > 1
<1>0. ~c.pooled /\ Opened(c) /\ (c.status = "RUNNING" => c.servlet)
  BY DEF Base, Closed, Slate, Fresh
<1>1. c.queue \in Seq(BlockOf(S, c.conn))
  BY DEF Base, Typed, WriterType
<1>2. /\ q \in Seq(BlockOf(S, c.conn)) /\ Len(q) = Len(c.queue) - 1
      /\ Len(c.queue) \in Nat
  BY <1>1, HeadTailProperties, LenProperties
<1>3. t \in BOOLEAN /\ (q # <<>> => t)
  <2>1. q # <<>> => Len(q) \in Nat \ {0}
    BY <1>2, EmptySeq
  <2> HIDE DEF q
  <2> QED
    BY <1>2, <2>1
<1>4. e = WithQueue(c, q, t)
  OBVIOUS
<1> HIDE DEF q, t
<1>5. /\ Shape(e) /\ SamePlace(c, e) /\ SameReader(c, e) /\ SameIdle(c, e)
      /\ SameRequest(c, e) /\ SameServlet(c, e) /\ SameResponse(c, e)
      /\ SameHistory(c, e)
      /\ e.open = c.open /\ e.queue = q /\ e.wrun = c.wrun /\ e.timer = t
  BY <1>4, QueueFields DEF Base, Typed
<1>6. Base(e, S, Q)
  <2>1. WriterType(e, S)
    BY <1>2, <1>3, <1>5 DEF Base, Typed, WriterType, SamePlace
  <2>2. Typed(e, S)
    BY <1>5, <2>1, SameTypes DEF Base, Typed
  <2>3. Opened(e) /\ ~e.pooled
    BY <1>0, <1>5 DEF Opened, SamePlace, SameReader
  <2>4. IdleOwn(e) /\ Flow(e, Q)
    BY <1>3, <1>5 DEF Base, IdleOwn, Flow, SamePlace, SameIdle
  <2> QED
    BY <2>2, <2>3, <2>4 DEF Base
<1>7. Answered(e) /\ Fresh(e)
  BY <1>0, <1>5 DEF Answered, Fresh, SamePlace, SameServlet
<1> QED
  BY <1>5, <1>6, <1>7

LEMMA PopFrontGood ==
  ASSUME NEW S, NEW R, NEW c, Base(c, S, R), Answered(c), Fresh(c),
         c.queue # <<>>, NEW Q,
         NEW react \in Reactions, NEW d, d = PopFront(c, react)
  PROVE  Good(d, S, Q) /\ Moves(c, d)
<1> DEFINE e == WithQueue(c, Tail(c.queue), Len(c.queue) > 1)
<1>1. d = IF e.queue = <<>> THEN HandleWrite(e, react) ELSE e
  BY DEF PopFront, WithQueue
<1>2. /\ Base(e, S, Q) /\ Answered(e) /\ Fresh(e)
      /\ SamePlace(c, e) /\ SameServlet(c, e)
  BY PoppedBase
<1> HIDE DEF e
<1>3. CASE e.queue = <<>>
  <2>1. d = HandleWrite(e, react)
    BY <1>1, <1>3
  <2>2. Good(d, S, Q) /\ Moves(e, d)
    BY <1>2, <2>1, HandleWriteGood
  <2> QED
    BY <1>2, <2>2, MovesAfter
<1>4. CASE e.queue # <<>>
  <2>1. d = e
    BY <1>1, <1>4
  <2>2. Wait(e)
    BY <1>2, <1>4 DEF Wait, HasOutput
  <2>3. c.status # "CLEANING" \/ e.status # "RUNNING"
    BY <1>2 DEF SamePlace
  <2>4. Moves(c, e)
    BY <1>2, <2>3, SameMoves
  <2> QED
    BY <1>2, <2>1, <2>2, <2>4 DEF Good
<1> QED
  BY <1>3, <1>4

LEMMA ErrorAnyRunning ==
  ASSUME NEW S, NEW R, NEW c, Base(c, S, R), NEW Q, NEW d, d = Error(c)
  PROVE  Good(d, S, Q) /\ d.pooled /\ Moves(c, d)
<1>1. Good(d, S, R) /\ d.pooled
  BY ErrorGood
<1> QED
  BY <1>1, ErrorMoves, PooledAnyRunning DEF Good

\* The end of a pump needs no pump running any more; its progress does.
LEMMA HandleTransportGood ==
  ASSUME NEW S, NEW R, NEW c, Good(c, S, R),
         NEW ev \in {"some", "end", "error"}, NEW Q, ev = "some" => Q = R,
         NEW react \in Reactions, NEW d, d = HandleTransport(c, ev, react)
  PROVE  Good(d, S, Q) /\ Moves(c, d)
<1>1. CASE ev = "some"
  <2>1. d = HandleWrite(c, react)
    BY <1>1 DEF HandleTransport
  <2> QED
    BY <1>1, <2>1, HandleWriteGood DEF Good, Wait
<1>2. CASE d = Error(c)
  BY <1>2, ErrorAnyRunning DEF Good
<1>3. CASE c.queue # <<>> /\ d = PopFront(c, react)
  BY <1>3, PopFrontGood DEF Good, Wait
<1>4. ev = "some" \/ d = Error(c) \/ (c.queue # <<>> /\ d = PopFront(c, react))
  BY DEF HandleTransport
<1> QED
  BY <1>1, <1>2, <1>3, <1>4

LEMMA OnSentGood ==
  ASSUME NEW S, NEW R, NEW c, Good(c, S, R),
         NEW ev \in Events, NEW Q, ev \in {"some", "again"} => Q = R,
         NEW react \in Reactions, NEW d, d = OnSent(c, ev, react)
  PROVE  Good(d, S, Q) /\ Moves(c, d)
<1>1. CASE ev = "again"
  <2>1. d = c
    BY <1>1 DEF OnSent
  <2> QED
    BY <1>1, <2>1 DEF Moves, Good, Fresh
<1>2. CASE ev \in {"some", "end", "error"}
  <2>1. d = HandleTransport(c, ev, react)
    BY <1>2 DEF OnSent
  <2> QED
    BY <1>2, <2>1, HandleTransportGood
<1>3. CASE ev = "last"
  <2> DEFINE some == "some"
             end  == "end"
             e == HandleTransport(c, some, react)
  <2>1. d = HandleTransport(e, end, react)
    BY <1>3 DEF OnSent
  <2>2. e = HandleWrite(c, react)
    BY DEF HandleTransport
  <2>3. some \in {"some", "end", "error"} /\ end \in {"some", "end", "error"}
        /\ end # "some"
    OBVIOUS
  <2> HIDE DEF some, end
  <2>4. Good(e, S, R) /\ Moves(c, e)
    BY <2>2, HandleWriteGood DEF Good, Wait
  <2> HIDE DEF e
  <2>5. Good(d, S, Q) /\ Moves(e, d)
    BY <2>1, <2>3, <2>4, HandleTransportGood
  <2>6. CASE c.pooled \/ c.queue # <<>>
    <3>1. e = c
      BY <2>2, <2>6 DEF HandleWrite, StopWrite, Good, Base, Opened, Closed
    <3> QED
      BY <2>5, <3>1
  <2>7. CASE ~c.pooled /\ c.queue = <<>>
    <3>1. c.status \notin {"STOPPING", "CLEANING"}
      BY <2>7 DEF Good, Wait, HasOutput
    <3>2. Moves(c, d)
      BY <2>4, <2>5, <2>7, <3>1 DEF Moves
    <3> QED
      BY <2>5, <3>2
  <2> QED
    BY <2>6, <2>7
<1> QED
  BY <1>1, <1>2, <1>3 DEF Events

TimerOff(c) == [c EXCEPT !.timer = FALSE]

\* The timer has fired: from here on the pump in front is relied on.
LEMMA TimerOffGood ==
  ASSUME NEW S, NEW R, NEW c, Good(c, S, R), c.queue # <<>>,
         NEW Q, Head(c.queue).pump \in Q, NEW d, d = TimerOff(c)
  PROVE  /\ Good(d, S, Q) /\ SamePlace(c, d) /\ SameServlet(c, d)
         /\ d.queue = c.queue
<1>1. ~c.pooled /\ Shape(c)
  BY DEF Good, Base, Closed, Slate, Typed
<1>2. /\ Shape(d) /\ SamePlace(c, d) /\ SameReader(c, d) /\ SameIdle(c, d)
      /\ SameRequest(c, d) /\ SameServlet(c, d) /\ SameResponse(c, d)
      /\ SameHistory(c, d)
      /\ d.open = c.open /\ d.queue = c.queue /\ d.wrun = c.wrun
      /\ d.timer \in BOOLEAN
  BY <1>1 DEF TimerOff, Shape, FieldNames, SamePlace, SameReader, SameIdle,
     SameRequest, SameServlet, SameResponse, SameHistory
<1>3. WriterType(d, S)
  BY <1>2 DEF Good, Base, Typed, WriterType, SamePlace
<1>4. Typed(d, S)
  BY <1>2, <1>3, SameTypes DEF Good, Base, Typed
<1>5. Opened(d) /\ ~d.pooled
  BY <1>1, <1>2 DEF Good, Base, Opened, SamePlace, SameReader
<1>6. IdleOwn(d) /\ Flow(d, Q)
  BY <1>2 DEF Good, Base, IdleOwn, Flow, SamePlace, SameIdle
<1>7. Wait(d) /\ Fresh(d)
  BY <1>2 DEF Good, Wait, HasOutput, Answered, Fresh, Slate, SamePlace,
     SameServlet
<1> QED
  BY <1>2, <1>4, <1>5, <1>6, <1>7 DEF Good, Base

-----------------------------------------------------------------------------
(* Pools and pumps                                                         *)

LEMMA NotifyCloseGood ==
  ASSUME NEW S, NEW R, NEW c, Good(c, S, R), NEW ready,
         NEW d, d = NotifyClose(c, ready)
  PROVE  Good(d, S, R) /\ Moves(c, d)
<1>1. CASE d = c
  BY <1>1 DEF Moves, Good, Fresh
<1>2. CASE d = StopHandler(c)
  BY <1>2, StopHandlerGood, StopHandlerMoves DEF Good
<1> QED
  BY <1>1, <1>2 DEF NotifyClose

\* A handler stays Good when it owns more pumps and its own go on running.
LEMMA PumpsKeepGood ==
  ASSUME NEW S, NEW R, NEW c, Good(c, S, R), NoPump \notin R,
         NEW T, NEW Q, S \subseteq T, R \cap S \subseteq Q
  PROVE  Good(c, T, Q)
<1>1. c.queue \in Seq(BlockOf(S, c.conn))
  BY DEF Good, Base, Typed, WriterType
<1>2. c.queue \in Seq(BlockOf(T, c.conn))
  <2>1. BlockOf(S, c.conn) \subseteq BlockOf(T, c.conn)
    BY DEF BlockOf
  <2> QED
    BY <1>1, <2>1
<1>3. Typed(c, T)
  BY <1>2 DEF Good, Base, Typed, WriterType
<1>4. Flow(c, Q)
  <2>1. c.queue # <<>> => Head(c.queue) \in BlockOf(S, c.conn)
    BY <1>1, HeadTailProperties
  <2>2. c.queue # <<>> => Head(c.queue).pump \in S \cup {NoPump}
    BY <2>1 DEF BlockOf
  <2> QED
    BY <2>2 DEF Good, Base, Flow
<1> QED
  BY <1>3, <1>4 DEF Good, Base

\* What init() makes of a handler from the pool, or of a new one.
Initialised(c, fd, k) ==
  [SetIdleTimeout(c, TRUE) EXCEPT
     !.status = "RUNNING", !.fd = fd, !.conn = k,
     !.servlet = FALSE, !.done = FALSE,
     !.open = TRUE, !.ropen = TRUE, !.pooled = FALSE,
     !.cut = FALSE, !.failed = FALSE]

WithInit(c, fd, k) ==
  [c EXCEPT
     !.status = "RUNNING", !.fd = fd, !.conn = k,
     !.servlet = FALSE, !.done = FALSE,
     !.open = TRUE, !.ropen = TRUE, !.pooled = FALSE,
     !.cut = FALSE, !.failed = FALSE]
WithIdleOn(c) == [c EXCEPT !.idle = c.idle, !.idleOn = TRUE]

LEMMA InitFields ==
  ASSUME NEW c, Shape(c), NEW fd, NEW k, NEW d, d = WithInit(c, fd, k)
  PROVE  /\ Shape(d) /\ d.status = "RUNNING" /\ d.fd = fd /\ d.conn = k
         /\ d.pooled \in BOOLEAN /\ ~d.pooled
         /\ d.open \in BOOLEAN /\ d.open /\ d.wrun = c.wrun
         /\ d.queue = c.queue /\ d.timer = c.timer
         /\ d.ropen \in BOOLEAN /\ d.ropen
         /\ d.reads = c.reads /\ d.watch = c.watch
         /\ SameIdle(c, d) /\ SameResponse(c, d)
         /\ d.ready = c.ready /\ d.body = c.body /\ d.keep = c.keep
         /\ d.done \in BOOLEAN /\ ~d.done /\ d.code = c.code
         /\ d.servlet \in BOOLEAN /\ ~d.servlet /\ d.live = c.live
         /\ HistoryType(d)
BY DEF WithInit, Shape, FieldNames, SameIdle, SameResponse, HistoryType

LEMMA IdleOnFields ==
  ASSUME NEW c, Shape(c), IdleType(c), NEW d, d = WithIdleOn(c)
  PROVE  /\ Shape(d) /\ SamePlace(c, d) /\ SameWriter(c, d)
         /\ SameReader(c, d) /\ SameRequest(c, d) /\ SameServlet(c, d)
         /\ SameResponse(c, d) /\ SameHistory(c, d)
         /\ d.idleOn /\ IdleType(d)
BY DEF WithIdleOn, Shape, FieldNames, IdleType, SamePlace, SameWriter,
   SameReader, SameRequest, SameServlet, SameResponse, SameHistory

LEMMA AcceptGood ==
  ASSUME NEW S, NEW R, NEW c, Typed(c, S), Closed(c),
         NEW fd \in Fds, NEW k \in Conns,
         NEW d, d = PrepareRead(Initialised(c, fd, k))
  PROVE  /\ Good(d, S, R) /\ ~d.pooled /\ d.fd = fd /\ d.conn = k
         /\ d.status = "RUNNING" /\ ~d.servlet
<1> DEFINE i == IF c.idleOn THEN c ELSE WithIdleOn(c)
           e == WithInit(i, fd, k)
           g == WithIdle(e, k)
<1>1. Initialised(c, fd, k) = e
  BY DEF Initialised, WithInit, SetIdleTimeout, WithIdleOn, Typed, IdleType
<1>2. /\ Shape(i) /\ SamePlace(c, i) /\ SameWriter(c, i)
      /\ SameReader(c, i) /\ SameRequest(c, i) /\ SameServlet(c, i)
      /\ SameResponse(c, i) /\ SameHistory(c, i)
      /\ i.idleOn /\ IdleType(i)
  <2>1. CASE c.idleOn
    BY <2>1 DEF Typed, SamePlace, SameWriter, SameReader, SameRequest,
       SameServlet, SameResponse, SameHistory
  <2>2. CASE ~c.idleOn
    <3>1. i = WithIdleOn(c)
      BY <2>2
    <3> HIDE DEF i
    <3> QED
      BY <3>1, IdleOnFields DEF Typed
  <2> QED
    BY <2>1, <2>2
<1> HIDE DEF i
<1>3. Typed(i, S) /\ Closed(i)
  <2>1. Typed(i, S)
    BY <1>2, SameTypes DEF Typed
  <2>2. Closed(i)
    BY <1>2 DEF Closed, Slate, SamePlace, SameWriter, SameReader, SameRequest,
       SameServlet, SameResponse
  <2> QED
    BY <2>1, <2>2
<1>4. /\ Shape(e) /\ e.status = "RUNNING" /\ e.fd = fd /\ e.conn = k
      /\ e.pooled \in BOOLEAN /\ ~e.pooled
      /\ e.open \in BOOLEAN /\ e.open /\ e.wrun = i.wrun
      /\ e.queue = i.queue /\ e.timer = i.timer
      /\ e.ropen \in BOOLEAN /\ e.ropen
      /\ e.reads = i.reads /\ e.watch = i.watch
      /\ SameIdle(i, e) /\ SameResponse(i, e)
      /\ e.ready = i.ready /\ e.body = i.body /\ e.keep = i.keep
      /\ e.done \in BOOLEAN /\ e.code = i.code
      /\ e.servlet \in BOOLEAN /\ ~e.servlet /\ e.live = i.live
      /\ HistoryType(e)
  BY <1>3, InitFields DEF Typed
<1>5. /\ WriterType(e, S) /\ ReaderType(e) /\ RequestType(e)
      /\ ServletType(e) /\ ResponseType(e) /\ IdleType(e) /\ e.idleOn
  <2>1. WriterType(e, S)
    BY <1>3, <1>4, EmptySeq DEF Typed, WriterType, Closed, Slate
  <2>2. ReaderType(e)
    BY <1>3, <1>4 DEF Typed, ReaderType
  <2>3. RequestType(e)
    BY <1>3, <1>4 DEF Typed, RequestType
  <2>4. ServletType(e)
    BY <1>3, <1>4 DEF Typed, ServletType, Closed
  <2>5. ResponseType(e) /\ IdleType(e) /\ e.idleOn
    BY <1>2, <1>3, <1>4, SameTypes DEF Typed, SameIdle
  <2> QED
    BY <2>1, <2>2, <2>3, <2>4, <2>5
<1>6. PlaceType(e)
  BY <1>4 DEF PlaceType, Statuses, Conns
<1>7. Slate(e)
  BY <1>3, <1>4 DEF Closed, Slate, SameResponse
<1> HIDE DEF e
<1>8. /\ Shape(g) /\ Rests(e, g) /\ SameReader(e, g)
      /\ g.idleOn = e.idleOn /\ g.idle = k
  BY <1>4, IdleFields
<1>9. d = ReaderRead(g)
  <2>1. e.fd # NoFd
    BY <1>4, NoneAssumption
  <2>2. StartTimeoutEv(e) = g
    BY <1>4, <1>5 DEF StartTimeoutEv, WithIdle
  <2> QED
    BY <1>1, <2>1, <2>2 DEF PrepareRead
<1> HIDE DEF g
<1>10. /\ g.status = "RUNNING" /\ g.fd = fd /\ g.conn = k /\ ~g.pooled
       /\ ~g.servlet /\ Slate(g) /\ g.idleOn
  BY <1>4, <1>5, <1>7, <1>8 DEF Rests, SamePlace, SameServlet, SameWriter,
     SameRequest, SameResponse, Slate
<1>11. Base(g, S, R)
  <2>1. IdleType(g)
    BY <1>5, <1>8 DEF IdleType, Conns
  <2>2. Typed(g, S)
    BY <1>4, <1>5, <1>6, <1>8, <2>1, SameTypes DEF Typed, Rests
  <2>3. Opened(g)
    <3>1. g.open /\ g.ropen
      BY <1>4, <1>8 DEF Rests, SameWriter
    <3> QED
      BY <1>10, <3>1, NoneAssumption DEF Opened
  <2>4. IdleOwn(g) /\ Flow(g, R)
    BY <1>8, <1>10 DEF IdleOwn, Flow, Slate
  <2> QED
    BY <1>10, <2>2, <2>3, <2>4 DEF Base
<1>12. Wait(g) /\ Fresh(g)
  BY <1>10 DEF Wait, HasOutput, Answered, Fresh
<1>13. Base(d, S, R) /\ Rests(g, d)
  BY <1>9, <1>10, <1>11, ReaderReadRests
<1>14. Wait(d) /\ Fresh(d)
  BY <1>12, <1>13, RestsGood
<1> QED
  BY <1>10, <1>13, <1>14 DEF Good, Rests, SamePlace, SameServlet

-----------------------------------------------------------------------------
(* The inductive invariant                                                 *)

\* The pumps a handler was given for the connection it serves, now and after a
\* step that keeps the connection.
Own(x)     == {f \in Files : pump[f].own = x /\ pump[f].conn = h[x].conn}
NextOwn(x) == {f \in Files : pump'[f].own = x /\ pump'[f].conn = h[x].conn}
Running    == {f \in Files : pump[f].st = "RUNNING"}

\* Each handler is Good with the pumps it owns; an unused one is as new.
HandlersInv == /\ \A x \in all : Good(h[x], Own(x), Running)
               /\ \A x \in Handlers \ all : h[x] = NewHandler

\* A pump belongs to a handler that exists, and to a connection.
PumpsInv == \A f \in Files :
              IF pump[f].st = "ABSENT" THEN pump[f].own = NoHandler
              ELSE pump[f].own \in all /\ pump[f].conn \in Conns

\* A pump of a connection that is still served sends to its descriptor.
PlacesInv ==
  \A f \in Files : pump[f].st # "ABSENT" =>
     /\ pump[f].conn <= accepted
     /\ ~h[pump[f].own].pooled /\ pump[f].conn = h[pump[f].own].conn
          => pump[f].fd = h[pump[f].own].fd

DescriptorsInv ==
  \A x, y \in all : x # y /\ h[x].fd = h[y].fd => h[x].fd = NoFd

\* A connection is served by one handler only, and was accepted.
ConnsInv ==
  \A x \in all : ~h[x].pooled =>
     /\ h[x].conn <= accepted
     /\ \A y \in all : y # x /\ ~h[y].pooled => h[y].conn # h[x].conn

IInv == /\ TypeOK /\ HandlersInv /\ PumpsInv /\ PlacesInv
        /\ DescriptorsInv /\ ConnsInv

\* Each pump is where it was, or is a new one for the connection of x.
PumpsPlaced(x) ==
  \A f \in Files :
     \/ pump'[f].st = "ABSENT"
     \/ /\ pump[f].st # "ABSENT" /\ pump'[f].own = pump[f].own
        /\ pump'[f].conn = pump[f].conn /\ pump'[f].fd = pump[f].fd
     \/ /\ ~h[x].pooled /\ pump'[f].own = x
        /\ pump'[f].conn = h[x].conn /\ pump'[f].fd = h[x].fd

\* A step of one handler x, to the state d: what it must give.
Stepped(x, d) ==
  /\ x \in all /\ h' = [h EXCEPT ![x] = d]
  /\ all' = all /\ accepted' = accepted /\ gone' = gone /\ worker' = worker
  /\ got' \in [Conns -> SUBSET Conns]
  /\ Good(d, NextOwn(x), Running') /\ Moves(h[x], d)
  /\ pump' \in [Files -> PumpState] /\ PumpsInv' /\ PumpsPlaced(x)
  /\ \A y \in all \ {x} :
       Own(y) \subseteq NextOwn(y) /\ Running \cap Own(y) \subseteq Running'

LEMMA SteppedInv ==
  ASSUME IInv, NEW x, NEW d, Stepped(x, d)
  PROVE  IInv'
<1> USE DEF IInv
<1>1. x \in Handlers /\ all \subseteq Handlers
  BY DEF TypeOK, Stepped
<1>2. /\ h'[x] = d
      /\ \A y \in Handlers \ {x} : h'[y] = h[y]
      /\ h' \in [Handlers -> HandlerState]
  <2>1. d \in HandlerState
    <3>1. NextOwn(x) \subseteq Files
      BY DEF NextOwn
    <3>2. Typed(d, NextOwn(x))
      BY DEF Stepped, Good, Base
    <3> QED
      BY <3>1, <3>2, TypedState
  <2> QED
    BY <1>1, <2>1 DEF TypeOK, Stepped
<1>3. TypeOK'
  BY <1>2 DEF TypeOK, Stepped
<1> DEFINE N(y) == NextOwn(y)
<1>0. \A y \in all : h'[y].conn = h[y].conn /\ N(y) = Own(y)'
  <2>1. \A y \in all : h'[y].conn = h[y].conn
    BY <1>1, <1>2 DEF Stepped, Moves
  <2> QED
    BY <2>1 DEF Own, NextOwn
<1> HIDE DEF N
<1>4. HandlersInv'
  <2>1. ASSUME NEW y \in all, y # x PROVE Good(h[y], Own(y)', Running')
    <3>1. Good(h[y], Own(y), Running)
      BY DEF HandlersInv
    <3>2. NoPump \notin Running
      BY NoneAssumption DEF Running
    <3>3. Own(y) \subseteq Own(y)' /\ Running \cap Own(y) \subseteq Running'
      BY <1>0, <2>1 DEF Stepped, N
    <3> QED
      BY <3>1, <3>2, <3>3, PumpsKeepGood
  <2>2. Good(d, Own(x)', Running')
    <3>1. Good(d, N(x), Running') /\ x \in all
      BY DEF Stepped, N
    <3> QED
      BY <1>0, <3>1
  <2>4. \A y \in all : Good(h'[y], Own(y)', Running')
    BY <1>1, <1>2, <2>1, <2>2 DEF Stepped
  <2>3. \A y \in Handlers \ all : h'[y] = NewHandler
    BY <1>2 DEF HandlersInv, Stepped
  <2> QED
    BY <2>3, <2>4 DEF HandlersInv, Stepped
<1>5. DescriptorsInv'
  <2>1. d.fd = h[x].fd \/ d.fd = NoFd
    BY DEF Stepped, Moves
  <2> QED
    BY <1>1, <1>2, <2>1 DEF DescriptorsInv, Stepped
<1>6. ConnsInv'
  <2>1. d.conn = h[x].conn /\ (h[x].pooled => d.pooled)
    BY DEF Stepped, Moves
  <2> QED
    BY <1>1, <1>2, <2>1 DEF ConnsInv, Stepped
<1>7. PlacesInv'
  <2> SUFFICES ASSUME NEW f \in Files, pump'[f].st # "ABSENT"
               PROVE  /\ pump'[f].conn <= accepted
                      /\ ~h'[pump'[f].own].pooled
                         /\ pump'[f].conn = h'[pump'[f].own].conn
                           => pump'[f].fd = h'[pump'[f].own].fd
    BY DEF PlacesInv, Stepped
  <2>1. pump'[f].own \in all
    BY DEF Stepped, PumpsInv
  <2>2. ASSUME NEW y \in all, ~h'[y].pooled
        PROVE  ~h[y].pooled /\ h'[y].conn = h[y].conn /\ h'[y].fd = h[y].fd
    <3>1. CASE y = x
      <4>1. d.fd # NoFd /\ h'[x] = d
        BY <1>2, <2>2, <3>1 DEF Stepped, Good, Base, Opened
      <4> QED
        BY <2>2, <3>1, <4>1 DEF Stepped, Moves
    <3>2. CASE y # x
      BY <1>1, <1>2, <2>2, <3>2
    <3> QED
      BY <3>1, <3>2
  <2>3. CASE /\ pump[f].st # "ABSENT" /\ pump'[f].own = pump[f].own
             /\ pump'[f].conn = pump[f].conn /\ pump'[f].fd = pump[f].fd
    BY <2>1, <2>2, <2>3 DEF PlacesInv
  <2>4. CASE /\ ~h[x].pooled /\ pump'[f].own = x
             /\ pump'[f].conn = h[x].conn /\ pump'[f].fd = h[x].fd
    BY <2>1, <2>2, <2>4 DEF ConnsInv
  <2> QED
    BY <2>3, <2>4 DEF Stepped, PumpsPlaced
<1> QED
  BY <1>3, <1>4, <1>5, <1>6, <1>7 DEF Stepped

\* What is known of a handler of the pool or in use.
LEMMA HandlerFacts ==
  ASSUME IInv, NEW x \in all
  PROVE  /\ x \in Handlers /\ Good(h[x], Own(x), Running)
         /\ Base(h[x], Own(x), Running)
         /\ h[x].pooled => Closed(h[x])
         /\ ~h[x].pooled => h[x].conn \in Conns
BY DEF IInv, HandlersInv, TypeOK, Good, Base, Opened

\* Only a handler of allHttpHandlers, and not a pooled one, has callbacks.
LEMMA OnlyOpenAct ==
  ASSUME IInv, NEW x \in Handlers,
         \/ h[x].watch \/ h[x].timer \/ h[x].servlet
         \/ h[x].queue # <<>>
  PROVE  x \in all /\ ~h[x].pooled
<1>1. x \in all
  BY DEF IInv, HandlersInv, NewHandler
<1> QED
  BY <1>1, HandlerFacts DEF Closed, Slate

LEMMA PumpsUnchanged ==
  ASSUME IInv, UNCHANGED <<pump, all>>
  PROVE  /\ Running' = Running /\ PumpsInv' /\ pump' \in [Files -> PumpState]
         /\ \A y : NextOwn(y) = Own(y) /\ PumpsPlaced(y)
BY DEF IInv, TypeOK, PumpsInv, Running, Own, NextOwn, PumpsPlaced

\* The frequent case: no pump and no client is concerned.
LEMMA QuietStep ==
  ASSUME IInv, NEW x \in all, NEW d,
         h' = [h EXCEPT ![x] = d],
         UNCHANGED <<all, pump, accepted, gone, got, worker>>,
         Good(d, Own(x), Running), Moves(h[x], d)
  PROVE  Stepped(x, d)
<1>1. /\ Running' = Running /\ PumpsInv' /\ pump' \in [Files -> PumpState]
      /\ \A y : NextOwn(y) = Own(y) /\ PumpsPlaced(y)
  BY PumpsUnchanged
<1>2. got' \in [Conns -> SUBSET Conns]
  BY DEF IInv, TypeOK
<1> QED
  BY <1>1, <1>2 DEF Stepped

\* sendfile() with or without a new pump.
LEMMA CreatePumpOwns ==
  ASSUME IInv, NEW x \in all, ~h[x].pooled, NEW f \in Files \cup {NoPump},
         CreatePump(x, f), all' = all
  PROVE  /\ Running' = Running /\ PumpsInv' /\ pump' \in [Files -> PumpState]
         /\ f \in NextOwn(x) \cup {NoPump}
         /\ \A y \in all : Own(y) \subseteq NextOwn(y)
         /\ PumpsPlaced(x)
         /\ Good(h[x], NextOwn(x), Running')
<1>1. CASE f = NoPump
  <2>1. pump' = pump
    BY <1>1 DEF CreatePump
  <2> QED
    BY <1>1, <2>1, PumpsUnchanged, HandlerFacts
<1>2. CASE f # NoPump
  <2> DEFINE p == [st |-> "NEW", fd |-> h[x].fd, own |-> x, conn |-> h[x].conn]
  <2>1. f \in Files /\ pump[f].st = "ABSENT" /\ pump' = [pump EXCEPT ![f] = p]
    BY <1>2 DEF CreatePump
  <2>2. p \in PumpState /\ p.conn \in Conns
    BY HandlerFacts DEF Good, Base, Typed, PlaceType, PumpState
  <2>3. /\ p.st = "NEW" /\ p.own = x
        /\ p.conn = h[x].conn /\ p.fd = h[x].fd
    OBVIOUS
  <2> HIDE DEF p
  <2>4. /\ pump' \in [Files -> PumpState] /\ pump'[f] = p
        /\ \A g \in Files \ {f} : pump'[g] = pump[g]
    BY <2>1, <2>2 DEF IInv, TypeOK
  <2>5. Running' = Running
    BY <2>1, <2>3, <2>4 DEF Running
  <2>6. PumpsInv'
    BY <2>1, <2>2, <2>3, <2>4 DEF IInv, PumpsInv
  <2>7. pump[f].own = NoHandler
    BY <2>1 DEF IInv, PumpsInv
  <2>8. f \in NextOwn(x) /\ \A y \in all : Own(y) \subseteq NextOwn(y)
    BY <2>1, <2>3, <2>4, <2>7, NoneAssumption, HandlerFacts
    DEF Own, NextOwn, IInv, TypeOK
  <2>10. PumpsPlaced(x)
    BY <2>1, <2>3, <2>4 DEF PumpsPlaced
  <2>9. Good(h[x], NextOwn(x), Running')
    <3>1. NoPump \notin Running
      BY NoneAssumption DEF Running
    <3> QED
      BY <2>5, <2>8, <3>1, HandlerFacts, PumpsKeepGood
  <2> QED
    BY <2>4, <2>5, <2>6, <2>8, <2>9, <2>10
<1> QED
  BY <1>1, <1>2

-----------------------------------------------------------------------------
(* The steps: reading                                                      *)

\* stopTimeoutEv(), with which every read begins.
LEMMA ReadBegins ==
  ASSUME NEW S, NEW R, NEW c, Good(c, S, R), ~c.pooled,
         NEW d, d = StopTimeoutEv(c)
  PROVE  Good(d, S, R) /\ ~d.pooled /\ SamePlace(c, d)
BY StopTimeoutEvRests, RestsGood DEF Good, Rests, SamePlace

\* popEntry(), with which every read ends.
LEMMA ReadEnds ==
  ASSUME NEW S, NEW R, NEW c, NEW e, SamePlace(c, e),
         NEW g, Good(g, S, R), Moves(e, g), NEW d, d = PopEntry(g)
  PROVE  Good(d, S, R) /\ Moves(c, d)
<1>1. Base(d, S, R) /\ Rests(g, d)
  BY PopEntryRests DEF Good
<1>2. Good(d, S, R)
  BY <1>1, RestsGood DEF Good
<1> QED
  BY <1>1, <1>2, MovesThenRests, MovesAfter

LEMMA ReadStepped ==
  ASSUME IInv, NEW x \in Handlers, NEW e, SamePlace(h[x], e),
         NEW g, ReadBytes(x, g), UNCHANGED pump,
         x \in all => Good(g, Own(x), Running) /\ Moves(e, g)
  PROVE  Stepped(x, PopEntry(g))
<1>1. x \in all
  BY OnlyOpenAct DEF ReadBytes
<1>2. Good(PopEntry(g), Own(x), Running) /\ Moves(h[x], PopEntry(g))
  BY <1>1, ReadEnds
<1> QED
  BY <1>1, <1>2, QuietStep DEF ReadBytes, Becomes

LEMMA ReadWithStatusStepped ==
  ASSUME IInv, NEW x \in Handlers, ReadWithStatus(x)
  PROVE  \E d : Stepped(x, d)
<1> DEFINE e == StopTimeoutEv(h[x])
           g == OnHttpCode(e)
<1>1. ReadBytes(x, g) /\ UNCHANGED pump
  BY DEF ReadWithStatus
<1>2. x \in all /\ ~h[x].pooled
  BY <1>1, OnlyOpenAct DEF ReadBytes
<1>3. Good(e, Own(x), Running) /\ ~e.pooled /\ SamePlace(h[x], e)
  BY <1>2, HandlerFacts, ReadBegins
<1> HIDE DEF e
<1>4. Good(g, Own(x), Running) /\ Moves(e, g)
  BY <1>3, OnHttpCodeGood DEF Good
<1> QED
  BY <1>1, <1>3, <1>4, ReadStepped

LEMMA ReadHeadStepped ==
  ASSUME IInv, NEW x \in Handlers, ReadHead(x)
  PROVE  \E d : Stepped(x, d)
<1> DEFINE e == StopTimeoutEv(h[x])
           g == GoOn(e)
<1>1. ReadBytes(x, g) /\ UNCHANGED pump
  BY DEF ReadHead
<1>2. x \in all /\ ~h[x].pooled
  BY <1>1, OnlyOpenAct DEF ReadBytes
<1>3. Good(e, Own(x), Running) /\ ~e.pooled /\ SamePlace(h[x], e)
  BY <1>2, HandlerFacts, ReadBegins
<1> HIDE DEF e
<1>4. Good(g, Own(x), Running) /\ Moves(e, g)
  BY <1>3, GoOnGood
<1> QED
  BY <1>1, <1>3, <1>4, ReadStepped

LEMMA ReadBadHeadStepped ==
  ASSUME IInv, NEW x \in Handlers, NEW keep \in BOOLEAN, ReadBadHead(x, keep)
  PROVE  \E d : Stepped(x, d)
<1> DEFINE i == StopTimeoutEv(h[x])
           e == Kept(i, keep)
           g == OnHttpCode(e)
<1>1. ReadBytes(x, g) /\ UNCHANGED pump
  BY DEF ReadBadHead, Kept
<1>2. x \in all /\ ~h[x].pooled
  BY <1>1, OnlyOpenAct DEF ReadBytes
<1>3. Good(i, Own(x), Running) /\ ~i.pooled /\ SamePlace(h[x], i)
  BY <1>2, HandlerFacts, ReadBegins
<1> HIDE DEF i
<1>4. RequestStep(i, e, keep, keep)
  BY DEF RequestStep
<1> HIDE DEF e
<1>5. Base(e, Own(x), Running) /\ Requests(i, e) /\ ~e.pooled
  BY <1>3, <1>4, RequestStepBase DEF Good
<1>6. Wait(e) /\ SamePlace(i, e)
  BY <1>3, <1>5, RequestsWait DEF Good
<1>7. Good(g, Own(x), Running) /\ Moves(e, g)
  BY <1>5, <1>6, OnHttpCodeGood
<1>8. SamePlace(h[x], e)
  BY <1>3, <1>6 DEF SamePlace
<1> QED
  BY <1>1, <1>7, <1>8, ReadStepped

\* The beginning of both ways to read a body.
LEMMA BodyBegins ==
  ASSUME NEW S, NEW R, NEW c, Good(c, S, R), ~c.pooled,
         NEW keep \in BOOLEAN, NEW early,
         NEW d, d = BodyOutput(WithHeaders(StopTimeoutEv(c), keep), early)
  PROVE  /\ Base(d, S, R) /\ ~d.pooled /\ Wait(d) /\ d.servlet
         /\ SamePlace(c, d)
<1> DEFINE i == StopTimeoutEv(c)
           w == WithHeaders(i, keep)
<1>1. Good(i, S, R) /\ ~i.pooled /\ SamePlace(c, i)
  BY ReadBegins
<1> HIDE DEF i
<1>2. /\ Base(w, S, R) /\ ~w.pooled /\ Wait(w) /\ w.servlet
      /\ SamePlace(i, w)
  BY <1>1, WithHeadersBase DEF Good
<1>3. d = BodyOutput(w, early)
  BY DEF i
<1> HIDE DEF w
<1>4. /\ Base(d, S, R) /\ ~d.pooled /\ Wait(d) /\ d.servlet
      /\ SamePlace(w, d)
  BY <1>2, <1>3, BodyOutputBase
<1> QED
  BY <1>1, <1>2, <1>4 DEF SamePlace

LEMMA ReadBodyStepped ==
  ASSUME IInv, NEW x \in Handlers, NEW keep \in BOOLEAN,
         NEW refused \in BOOLEAN, NEW early \in BOOLEAN,
         ReadBody(x, keep, refused, early)
  PROVE  \E d : Stepped(x, d)
<1> DEFINE b == BodyOutput(WithHeaders(StopTimeoutEv(h[x]), keep), early)
           e == Judged(b, refused)
           g == GoOn(e)
<1>1. ReadBytes(x, g) /\ UNCHANGED pump
  BY DEF ReadBody, Judged
<1>2. x \in all /\ ~h[x].pooled
  BY <1>1, OnlyOpenAct DEF ReadBytes
<1>3. /\ Base(b, Own(x), Running) /\ ~b.pooled /\ Wait(b) /\ b.servlet
      /\ SamePlace(h[x], b)
  BY <1>2, HandlerFacts, BodyBegins
<1> HIDE DEF b
<1>4. RequestStep(b, e, refused, refused)
  BY DEF RequestStep
<1> HIDE DEF e
<1>5. Base(e, Own(x), Running) /\ Requests(b, e) /\ ~e.pooled
  BY <1>3, <1>4, RequestStepBase
<1>6. Wait(e) /\ SamePlace(b, e) /\ e.servlet
  BY <1>3, <1>5, RequestsWait
<1>7. Good(e, Own(x), Running)
  BY <1>5, <1>6 DEF Good, Fresh
<1>8. Good(g, Own(x), Running) /\ Moves(e, g)
  BY <1>7, GoOnGood
<1>9. SamePlace(h[x], e)
  BY <1>3, <1>6 DEF SamePlace
<1> QED
  BY <1>1, <1>8, <1>9, ReadStepped

\* The one read that may create a pump.
LEMMA ReadRequestStepped ==
  ASSUME IInv, NEW x \in Handlers, NEW keep \in BOOLEAN,
         NEW early \in BOOLEAN, NEW s \in Service,
         NEW f \in Files \cup {NoPump}, ReadRequest(x, keep, early, s, f)
  PROVE  \E d : Stepped(x, d)
<1> DEFINE b == BodyOutput(WithHeaders(StopTimeoutEv(h[x]), keep), early)
           e == Bodied(b)
           r == CallService(e, s, f)
           g == GoOn(r)
           d == PopEntry(g)
           T == NextOwn(x)
           Q == Running'
<1>1. ReadBytes(x, g) /\ CreatePump(x, f)
  BY DEF ReadRequest, Bodied
<1>2. x \in all /\ ~h[x].pooled
  BY <1>1, OnlyOpenAct DEF ReadBytes
<1>3. /\ Q = Running /\ PumpsInv' /\ pump' \in [Files -> PumpState]
      /\ f \in T \cup {NoPump}
      /\ \A y \in all : Own(y) \subseteq NextOwn(y)
      /\ PumpsPlaced(x)
      /\ Good(h[x], T, Q)
  BY <1>1, <1>2, CreatePumpOwns DEF ReadBytes
<1> HIDE DEF T, Q
<1>4. /\ Base(b, T, Q) /\ ~b.pooled /\ Wait(b) /\ b.servlet
      /\ SamePlace(h[x], b)
  BY <1>2, <1>3, BodyBegins
<1> HIDE DEF b
<1>5. \A u, v : RequestStep(b, e, u, v)
  BY DEF RequestStep
<1> HIDE DEF e
<1>6. Base(e, T, Q) /\ Requests(b, e) /\ ~e.pooled
  BY <1>4, <1>5, RequestStepBase
<1>7. Wait(e) /\ SamePlace(b, e) /\ e.servlet
  BY <1>4, <1>6, RequestsWait
<1>8. /\ Good(r, T, Q) /\ Moves(e, r)
      /\ e.status # "RUNNING" => r.status = e.status
  BY <1>3, <1>6, <1>7, ServiceAssumption, CallServiceGood
<1> HIDE DEF r
<1>9. Good(g, T, Q) /\ Moves(r, g)
  BY <1>8, GoOnGood
<1> HIDE DEF g
<1>10. Moves(e, g)
  <2>1. g.conn = e.conn /\ g.fd \in {e.fd, NoFd}
    BY <1>8, <1>9 DEF Moves
  <2> QED
    BY <1>6, <1>8, <1>9, <2>1 DEF Moves
<1>11. SamePlace(h[x], e)
  BY <1>4, <1>7 DEF SamePlace
<1>12. Good(d, T, Q) /\ Moves(h[x], d)
  BY <1>9, <1>10, <1>11, ReadEnds
<1>13. h' = [h EXCEPT ![x] = d]
  BY <1>1 DEF ReadBytes, Becomes
<1>14. /\ all' = all /\ accepted' = accepted /\ gone' = gone
       /\ worker' = worker /\ got' \in [Conns -> SUBSET Conns]
  BY <1>1 DEF ReadBytes, IInv, TypeOK
<1> HIDE DEF d
<1>15. Stepped(x, d)
  BY <1>2, <1>3, <1>12, <1>13, <1>14 DEF Stepped, T, Q
<1> QED
  BY <1>15

LEMMA ReadEndStepped ==
  ASSUME IInv, NEW x \in Handlers, ReadEnd(x)
  PROVE  \E d : Stepped(x, d)
<1> DEFINE e == StopTimeoutEv(h[x])
           g == Error(e)
           d == ReaderClose(g)
<1>1. x \in all /\ ~h[x].pooled
  BY OnlyOpenAct DEF ReadEnd
<1>2. Good(e, Own(x), Running) /\ ~e.pooled /\ SamePlace(h[x], e)
  BY <1>1, HandlerFacts, ReadBegins
<1> HIDE DEF e
<1>3. Good(g, Own(x), Running) /\ g.pooled
  BY <1>2, ErrorGood DEF Good
<1>4. Moves(e, g)
  BY <1>2, ErrorMoves DEF Good
<1> HIDE DEF g
<1>5. d = g
  BY <1>3 DEF ReaderClose, Good, Base, Closed
<1>6. Stepped(x, g)
  BY <1>1, <1>2, <1>3, <1>4, <1>5, MovesAfter, QuietStep
     DEF ReadEnd, Becomes, e, g
<1> QED
  BY <1>6

-----------------------------------------------------------------------------
(* The steps: writing, timers and servlets                                 *)

LEMMA WriteFrontStepped ==
  ASSUME IInv, NEW x \in Handlers, NEW react \in Reactions,
         WriteFront(x, react)
  PROVE  \E d : Stepped(x, d)
<1> DEFINE e == TimerOff(h[x])
           d == PopFront(e, react)
           Q == Running \cup {Head(h[x].queue).pump}
<1>1. x \in all /\ ~h[x].pooled /\ h[x].queue # <<>>
  BY OnlyOpenAct DEF WriteFront
<1>2. Head(h[x].queue).pump \in Q
  OBVIOUS
<1> HIDE DEF Q
<1>3. /\ Good(e, Own(x), Q) /\ SamePlace(h[x], e) /\ SameServlet(h[x], e)
      /\ e.queue = h[x].queue
  BY <1>1, <1>2, HandlerFacts, TimerOffGood
<1>4. h' = [h EXCEPT ![x] = d]
  BY DEF WriteFront, Becomes, TimerOff
<1> HIDE DEF e
<1>5. Good(d, Own(x), Running) /\ Moves(e, d)
  BY <1>1, <1>3, PopFrontGood DEF Good, Wait
<1>6. Moves(h[x], d)
  BY <1>3, <1>5, MovesAfter
<1> HIDE DEF d
<1>7. got' \in [Conns -> SUBSET Conns]
  <2>1. Head(h[x].queue).conn \in Conns
    <3>1. h[x].queue \in Seq(BlockOf(Own(x), h[x].conn))
      BY <1>1, HandlerFacts DEF Base, Typed, WriterType
    <3>2. Head(h[x].queue) \in BlockOf(Own(x), h[x].conn)
      BY <1>1, <3>1, HeadTailProperties
    <3> QED
      BY <3>2 DEF BlockOf
  <2> QED
    BY <1>1, <2>1, HandlerFacts DEF WriteFront, IInv, TypeOK
<1>8. /\ Running' = Running /\ PumpsInv' /\ pump' \in [Files -> PumpState]
      /\ \A y : NextOwn(y) = Own(y) /\ PumpsPlaced(y)
  BY PumpsUnchanged DEF WriteFront
<1>9. Stepped(x, d)
  BY <1>1, <1>4, <1>5, <1>6, <1>7, <1>8 DEF Stepped, WriteFront
<1> QED
  BY <1>9

\* The two ways the block in front fails.
LEMMA WriterErrorStepped ==
  ASSUME IInv, NEW x \in Handlers, h[x].timer, h[x].queue # <<>>,
         Becomes(x, Error([h[x] EXCEPT !.timer = FALSE])),
         UNCHANGED <<all, pump, accepted, gone, got, worker>>
  PROVE  \E d : Stepped(x, d)
<1> DEFINE e == TimerOff(h[x])
           d == Error(e)
           Q == Running \cup {Head(h[x].queue).pump}
<1>1. x \in all /\ ~h[x].pooled
  BY OnlyOpenAct
<1>2. Head(h[x].queue).pump \in Q
  OBVIOUS
<1> HIDE DEF Q
<1>3. Good(e, Own(x), Q) /\ SamePlace(h[x], e)
  BY <1>1, <1>2, HandlerFacts, TimerOffGood
<1>4. h' = [h EXCEPT ![x] = d]
  BY DEF Becomes, TimerOff
<1> HIDE DEF e
<1>5. Good(d, Own(x), Running) /\ Moves(e, d)
  BY <1>3, ErrorAnyRunning DEF Good
<1>6. Moves(h[x], d)
  BY <1>3, <1>5, MovesAfter
<1> HIDE DEF d
<1>7. Stepped(x, d)
  BY <1>1, <1>4, <1>5, <1>6, QuietStep
<1> QED
  BY <1>7

\* sendData of the pump f, whose owner is in the state c when it begins.
LEMMA SendDataStepped ==
  ASSUME IInv, NEW f \in Files, pump[f].st \in {"NEW", "RUNNING"},
         NEW x, x = pump[f].own, NEW c, SamePlace(h[x], c),
         Good(c, Own(x), Running \cup {f}),
         NEW ev \in Events, NEW react \in Reactions,
         SendData(f, c, ev, react)
  PROVE  Stepped(x, OnSent(c, ev, react))
<1> DEFINE d == OnSent(c, ev, react)
           s == IF ev \in {"some", "again"} THEN "RUNNING" ELSE "CLOSED"
<1>1. x \in all /\ pump[f].conn \in Conns
  BY DEF IInv, PumpsInv
<1>2. /\ s \in {"RUNNING", "CLOSED"}
      /\ s = "RUNNING" <=> ev \in {"some", "again"}
  OBVIOUS
<1>3. /\ pump' = [pump EXCEPT ![f].st = s] /\ h' = [h EXCEPT ![x] = d]
      /\ UNCHANGED <<all, accepted, gone, worker>>
  BY DEF SendData, Becomes
<1> HIDE DEF s
<1>4. pump[f] \in PumpState /\ pump \in [Files -> PumpState]
  BY DEF IInv, TypeOK
<1> DEFINE p == [pump[f] EXCEPT !.st = s]
<1>5. /\ p \in PumpState /\ p.st = s /\ p.own = x
      /\ p.conn = pump[f].conn /\ p.fd = pump[f].fd
  BY <1>2, <1>4 DEF PumpState
<1>6. pump' = [pump EXCEPT ![f] = p]
  BY <1>3, <1>4
<1> HIDE DEF p
<1>7. /\ pump' \in [Files -> PumpState] /\ pump'[f] = p
      /\ \A g \in Files \ {f} : pump'[g] = pump[g]
  BY <1>4, <1>5, <1>6
<1>8. PumpsInv'
  BY <1>1, <1>2, <1>3, <1>5, <1>7 DEF IInv, PumpsInv
<1>9. \A y : NextOwn(y) = Own(y) /\ PumpsPlaced(y)
  BY <1>5, <1>7 DEF Own, NextOwn, PumpsPlaced
<1>10. Running' = IF s = "RUNNING" THEN Running \cup {f} ELSE Running \ {f}
  BY <1>5, <1>7 DEF Running
<1>11. Good(d, NextOwn(x), Running') /\ Moves(c, d)
  <2>1. ev \in {"some", "again"} => Running' = Running \cup {f}
    BY <1>2, <1>10
  <2>2. NextOwn(x) = Own(x)
    BY <1>9
  <2> QED
    BY <2>1, <2>2, OnSentGood
<1>12. Moves(h[x], d)
  BY <1>11, MovesAfter
<1>13. ASSUME NEW y \in all \ {x}
       PROVE  Own(y) \subseteq NextOwn(y) /\ Running \cap Own(y) \subseteq Running'
  BY <1>9, <1>10 DEF Own
<1>14. got' \in [Conns -> SUBSET Conns]
  BY <1>1 DEF SendData, IInv, TypeOK
<1> HIDE DEF d
<1>15. Stepped(x, d)
  BY <1>1, <1>3, <1>7, <1>8, <1>9, <1>11, <1>12, <1>13, <1>14 DEF Stepped
<1> QED
  BY <1>15 DEF d

LEMMA StartPumpStepped ==
  ASSUME IInv, NEW x \in Handlers, NEW ev \in Events, NEW react \in Reactions,
         StartPump(x, ev, react)
  PROVE  \E d : Stepped(x, d)
<1> DEFINE e == TimerOff(h[x])
           f == Head(h[x].queue).pump
<1>1. x \in all /\ ~h[x].pooled /\ h[x].queue # <<>> /\ f # NoPump
  BY OnlyOpenAct DEF StartPump
<1>2. f \in Own(x)
  <2>1. h[x].queue \in Seq(BlockOf(Own(x), h[x].conn))
    BY <1>1, HandlerFacts DEF Base, Typed, WriterType
  <2>2. Head(h[x].queue) \in BlockOf(Own(x), h[x].conn)
    BY <1>1, <2>1, HeadTailProperties
  <2> QED
    BY <1>1, <2>2 DEF BlockOf
<1>3. f \in Files /\ pump[f].own = x
  BY <1>2 DEF Own
<1>4. pump[f].st = "NEW" /\ SendData(f, e, ev, react)
  BY DEF StartPump, TimerOff
<1>5. Good(e, Own(x), Running \cup {f}) /\ SamePlace(h[x], e)
  BY <1>1, HandlerFacts, TimerOffGood
<1> HIDE DEF e, f
<1>6. Stepped(x, OnSent(e, ev, react))
  BY <1>3, <1>4, <1>5, SendDataStepped
<1> QED
  BY <1>6

LEMMA PumpTimerStepped ==
  ASSUME IInv, NEW f \in Files, NEW ev \in Events, NEW react \in Reactions,
         PumpTimer(f, ev, react)
  PROVE  \E x, d : Stepped(x, d)
<1>0. PICK x : x = pump[f].own
  OBVIOUS
<1>1. pump[f].st = "RUNNING" /\ SendData(f, h[x], ev, react)
  BY <1>0 DEF PumpTimer
<1>2. x \in all
  BY <1>0, <1>1 DEF IInv, PumpsInv
<1>3. Running \cup {f} = Running
  BY <1>1 DEF Running
<1>4. Good(h[x], Own(x), Running \cup {f}) /\ SamePlace(h[x], h[x])
  BY <1>2, <1>3, HandlerFacts DEF SamePlace
<1>5. Stepped(x, OnSent(h[x], ev, react))
  BY <1>0, <1>1, <1>4, SendDataStepped
<1> QED
  BY <1>5

LEMMA IdleTimeoutStepped ==
  ASSUME IInv, NEW x \in Handlers, IdleTimeout(x)
  PROVE  \E d : Stepped(x, d)
<1> DEFINE e == WithIdle(h[x], 0)
           d == Error(e)
<1>1. x \in all
  BY DEF IInv, HandlersInv, NewHandler, IdleTimeout
<1>2. Base(e, Own(x), Running) /\ SamePlace(h[x], e)
  BY <1>1, HandlerFacts, NoTimeoutRests DEF Rests
<1>3. h' = [h EXCEPT ![x] = d]
  BY DEF IdleTimeout, Becomes, WithIdle
<1> HIDE DEF e
<1>4. Good(d, Own(x), Running) /\ Moves(e, d)
  BY <1>2, ErrorAnyRunning
<1>5. Moves(h[x], d)
  BY <1>2, <1>4, MovesAfter
<1> HIDE DEF d
<1>6. Stepped(x, d)
  BY <1>1, <1>3, <1>4, <1>5, QuietStep DEF IdleTimeout
<1> QED
  BY <1>6

LEMMA ServletOutputStepped ==
  ASSUME IInv, NEW x \in Handlers, NEW out \in Outputs, NEW mode \in Modes,
         NEW f \in Files \cup {NoPump}, ServletOutput(x, out, mode, f)
  PROVE  \E d : Stepped(x, d)
<1> DEFINE d == Output(h[x], out, mode, f)
           T == NextOwn(x)
           Q == Running'
<1>1. x \in all /\ ~h[x].pooled
  BY OnlyOpenAct DEF ServletOutput
<1>2. /\ Q = Running /\ PumpsInv' /\ pump' \in [Files -> PumpState]
      /\ f \in T \cup {NoPump}
      /\ \A y \in all : Own(y) \subseteq NextOwn(y)
      /\ PumpsPlaced(x)
      /\ Good(h[x], T, Q)
  BY <1>1, CreatePumpOwns DEF ServletOutput
<1> HIDE DEF T, Q
<1>3. Base(d, T, Q) /\ Writes(h[x], d)
  BY <1>1, <1>2, OutputWrites DEF Good
<1>4. /\ h' = [h EXCEPT ![x] = d] /\ all' = all /\ accepted' = accepted
      /\ gone' = gone /\ worker' = worker /\ got' \in [Conns -> SUBSET Conns]
  BY DEF ServletOutput, Becomes, IInv, TypeOK
<1>5. h[x].servlet
  BY DEF ServletOutput
<1> HIDE DEF d
<1>6. Wait(d) /\ SamePlace(h[x], d) /\ SameServlet(h[x], d)
  BY <1>2, <1>3, WritesWait DEF Good
<1>7. Good(d, T, Q)
  BY <1>3, <1>5, <1>6 DEF Good, Fresh, SameServlet
<1>8. Moves(h[x], d)
  BY <1>6, SameMoves DEF SamePlace
<1>9. Stepped(x, d)
  BY <1>1, <1>2, <1>4, <1>7, <1>8 DEF Stepped, T, Q
<1> QED
  BY <1>9

LEMMA ServletSetStatusStepped ==
  ASSUME IInv, NEW x \in Handlers, ServletSetStatus(x)
  PROVE  \E d : Stepped(x, d)
<1> DEFINE d == Coded(h[x])
<1>1. x \in all /\ ~h[x].pooled
  BY OnlyOpenAct DEF ServletSetStatus
<1>2. Good(h[x], Own(x), Running)
  BY <1>1, HandlerFacts
<1>3. \A u, v : RequestStep(h[x], d, u, v)
  BY DEF RequestStep
<1>4. h' = [h EXCEPT ![x] = d] /\ h[x].servlet
  BY DEF ServletSetStatus, Becomes, Coded
<1> HIDE DEF d
<1>5. Base(d, Own(x), Running) /\ Requests(h[x], d)
  BY <1>1, <1>2, <1>3, RequestStepBase DEF Good
<1>6. Wait(d) /\ SamePlace(h[x], d) /\ d.servlet
  BY <1>2, <1>4, <1>5, RequestsWait DEF Good
<1>7. Good(d, Own(x), Running)
  BY <1>5, <1>6 DEF Good, Fresh
<1>8. Moves(h[x], d)
  BY <1>6 DEF Moves, SamePlace
<1>9. Stepped(x, d)
  BY <1>1, <1>4, <1>7, <1>8, QuietStep DEF ServletSetStatus
<1> QED
  BY <1>9

LEMMA ServletCompleteStepped ==
  ASSUME IInv, NEW x \in Handlers, ServletComplete(x)
  PROVE  \E d : Stepped(x, d)
<1> DEFINE d == Complete(h[x])
<1>1. x \in all /\ ~h[x].pooled
  BY OnlyOpenAct DEF ServletComplete
<1>2. Good(d, Own(x), Running) /\ Moves(h[x], d)
  BY <1>1, HandlerFacts, CompleteGood DEF Good
<1>3. h' = [h EXCEPT ![x] = d]
  BY DEF ServletComplete, Becomes
<1> HIDE DEF d
<1>4. Stepped(x, d)
  BY <1>1, <1>2, <1>3, QuietStep DEF ServletComplete
<1> QED
  BY <1>4

-----------------------------------------------------------------------------
(* The steps: the pool                                                     *)

\* The new connection is the next one, and is about to be read.
Accepted(x) ==
  /\ accepted' = accepted + 1 /\ all' = all \cup {x}
  /\ x \in all => h[x].pooled
  /\ ~h'[x].pooled /\ h'[x].conn = accepted + 1
  /\ h'[x].status = "RUNNING" /\ ~h'[x].servlet
  /\ \A y \in all \ {x} : h'[y] = h[y]

\* No connection is added, and each handler that is left moves.
AllMove == /\ accepted' = accepted
           /\ \A y \in all' : y \in all /\ Moves(h[y], h'[y])

LEMMA NoOutputTyped ==
  ASSUME NEW S, NEW c, Typed(c, S), c.queue = <<>>, NEW T
  PROVE  Typed(c, T)
BY EmptySeq DEF Typed, WriterType

LEMMA AcceptInv ==
  ASSUME IInv, NEW x \in Handlers, NEW fd \in Fds, Accept(x, fd)
  PROVE  IInv' /\ Accepted(x)
<1> DEFINE k == accepted + 1
           d == PrepareRead(Initialised(h[x], fd, k))
<1>1. k \in Conns /\ accepted \in 0 .. MaxConn /\ k \in 0 .. MaxConn
  BY BoundsAssumption DEF Accept, IInv, TypeOK, Conns
<1>2. /\ h' = [h EXCEPT ![x] = d] /\ all' = all \cup {x} /\ accepted' = k
      /\ UNCHANGED <<pump, gone, got, worker>>
      /\ \A y \in all : h[y].fd # fd
  BY DEF Accept, Becomes, Initialised
<1> DEFINE T == Own(x)'
<1>3. Typed(h[x], T) /\ Closed(h[x])
  <2>1. CASE x \in all
    <3>1. h[x].pooled
      BY <2>1 DEF Accept, MayServe, Idle
    <3>2. Typed(h[x], Own(x)) /\ Closed(h[x])
      BY <2>1, <3>1, HandlerFacts DEF Base
    <3> HIDE DEF T
    <3> QED
      BY <3>2, NoOutputTyped DEF Closed, Slate
  <2>2. CASE x \notin all
    <3>1. h[x] = NewHandler
      BY <2>2 DEF IInv, HandlersInv
    <3> QED
      BY <3>1, NewIsClosed
  <2> QED
    BY <2>1, <2>2
<1> HIDE DEF k, T
<1>4. /\ Good(d, T, Running) /\ d.fd = fd /\ d.conn = k
      /\ ~d.pooled /\ d.status = "RUNNING" /\ ~d.servlet
  BY <1>1, <1>3, AcceptGood
<1> HIDE DEF d
<1>5. /\ h'[x] = d /\ \A y \in Handlers \ {x} : h'[y] = h[y]
      /\ h' \in [Handlers -> HandlerState]
  <2>1. T \subseteq Files
    BY DEF Own, T
  <2>2. d \in HandlerState
    BY <1>4, <2>1, TypedState DEF Good, Base
  <2> QED
    BY <1>2, <2>2 DEF IInv, TypeOK
<1>6. all \subseteq Handlers
  BY DEF IInv, TypeOK
<1>7. TypeOK'
  BY <1>1, <1>2, <1>5 DEF IInv, TypeOK
<1>8. HandlersInv'
  <2>1. Running' = Running /\ \A y \in all \ {x} : Own(y)' = Own(y)
    BY <1>2, <1>5, <1>6 DEF Running, Own
  <2>4. Good(h'[x], Own(x)', Running)
    BY <1>4, <1>5 DEF T
  <2>5. ASSUME NEW y \in all \ {x} PROVE Good(h'[y], Own(y)', Running)
    <3>1. Good(h[y], Own(y), Running) /\ h'[y] = h[y] /\ Own(y)' = Own(y)
      BY <1>5, <1>6, <2>1 DEF IInv, HandlersInv
    <3> QED
      BY <3>1
  <2>2. \A y \in all' : Good(h'[y], Own(y)', Running)
    BY <1>2, <2>4, <2>5
  <2>3. \A y \in Handlers \ all' : h'[y] = NewHandler
    BY <1>2, <1>5 DEF IInv, HandlersInv
  <2> QED
    BY <2>1, <2>2, <2>3 DEF HandlersInv
<1>9. PumpsInv'
  BY <1>2 DEF IInv, PumpsInv
<1>10. DescriptorsInv'
  BY <1>2, <1>4, <1>5, <1>6 DEF IInv, DescriptorsInv
<1>11. ConnsInv'
  <2>1. ASSUME NEW y \in all, y # x, ~h[y].pooled
        PROVE  h[y].conn \in Nat /\ h[y].conn <= accepted
    BY <2>1, HandlerFacts DEF IInv, ConnsInv, Conns
  <2>2. accepted < k /\ accepted \in Nat /\ k \in Nat
    BY <1>1 DEF k
  <2>3. ASSUME NEW y \in all, y # x, ~h[y].pooled
        PROVE  h[y].conn # k /\ h[y].conn <= k
    BY <2>1, <2>2, <2>3
  <2> QED
    BY <1>2, <1>4, <1>5, <1>6, <2>2, <2>3 DEF IInv, ConnsInv
<1>13. PlacesInv'
  <2>1. accepted < k /\ accepted \in Nat /\ k \in Nat
    BY <1>1 DEF k
  <2>2. \A f \in Files : pump[f].st # "ABSENT" =>
          pump[f].own \in all /\ pump[f].conn \in Nat
    BY DEF IInv, PumpsInv, Conns
  <2> SUFFICES ASSUME NEW f \in Files, pump[f].st # "ABSENT"
               PROVE  /\ pump[f].conn <= k
                      /\ ~h'[pump[f].own].pooled
                         /\ pump[f].conn = h'[pump[f].own].conn
                           => pump[f].fd = h'[pump[f].own].fd
    BY <1>2 DEF PlacesInv
  <2>3. pump[f].conn <= accepted
    BY DEF IInv, PlacesInv
  <2>4. pump[f].conn <= k /\ pump[f].conn # k
    BY <2>1, <2>2, <2>3
  <2>5. CASE pump[f].own = x
    BY <1>4, <1>5, <2>4, <2>5
  <2>6. CASE pump[f].own # x
    <3>1. h'[pump[f].own] = h[pump[f].own]
      BY <1>5, <1>6, <2>2, <2>6
    <3> QED
      BY <2>4, <3>1 DEF IInv, PlacesInv
  <2> QED
    BY <2>5, <2>6
<1>12. Accepted(x)
  <2>1. x \in all => h[x].pooled
    BY DEF Accept, MayServe, Idle
  <2> QED
    BY <1>2, <1>4, <1>5, <1>6, <2>1 DEF Accepted, k
<1> QED
  BY <1>7, <1>8, <1>9, <1>10, <1>11, <1>12, <1>13 DEF IInv

\* Handlers are told to close, and those freed take their pumps with them.
LEMMA FreeInv ==
  ASSUME IInv, NEW told \in [Handlers -> HandlerState],
         \A x \in all : /\ Good(told[x], Own(x), Running)
                        /\ Moves(h[x], told[x]),
         \A x \in Handlers \ all : told[x] = NewHandler,
         NEW freed \in SUBSET all,
         all' = all \ freed,
         h' = [x \in Handlers |-> IF x \in freed THEN NewHandler ELSE told[x]],
         pump' = [f \in Files |-> IF pump[f].own \in freed THEN AbsentPump
                                  ELSE pump[f]],
         UNCHANGED <<accepted, gone, got>>,
         worker' \in {"serving", "closing", "exited"}
  PROVE  IInv' /\ AllMove
<1>1. all \subseteq Handlers
  BY DEF IInv, TypeOK
<1>2. TypeOK'
  <2>1. NewHandler \in HandlerState
    <3> DEFINE none == {}
    <3>1. none \subseteq Files
      OBVIOUS
    <3> HIDE DEF none
    <3> QED
      BY <3>1, NewIsClosed, TypedState
  <2>2. h' \in [Handlers -> HandlerState]
    BY <2>1
  <2>3. pump' \in [Files -> PumpState]
    <3>1. AbsentPump \in PumpState
      BY DEF AbsentPump, PumpState
    <3> QED
      BY <3>1 DEF IInv, TypeOK
  <2> QED
    BY <2>2, <2>3 DEF IInv, TypeOK
<1>3. ASSUME NEW y \in all \ freed
      PROVE  Good(told[y], Own(y)', Running')
  <2>1. \A f \in Own(y) : f \in Files /\ pump'[f] = pump[f]
    BY DEF Own
  <2>4. h'[y].conn = h[y].conn
    BY <1>1 DEF Moves
  <2>2. Own(y) \subseteq Own(y)' /\ Running \cap Own(y) \subseteq Running'
    BY <2>1, <2>4 DEF Own, Running
  <2>3. NoPump \notin Running
    BY NoneAssumption DEF Running
  <2> QED
    BY <2>2, <2>3, PumpsKeepGood
<1>4. HandlersInv'
  BY <1>1, <1>3 DEF HandlersInv
<1>5. PumpsInv'
  BY DEF IInv, PumpsInv, AbsentPump
<1>6. ASSUME NEW y \in all, y \notin freed
      PROVE  /\ h'[y].conn = h[y].conn
             /\ h'[y].fd = h[y].fd \/ h'[y].fd = NoFd
             /\ h[y].pooled => h'[y].pooled
  <2>1. h'[y] = told[y]
    BY <1>1, <1>6
  <2> QED
    BY <2>1 DEF Moves
<1>7. DescriptorsInv'
  <2> SUFFICES ASSUME NEW y \in all, NEW z \in all, y \notin freed,
                      z \notin freed, y # z, h'[y].fd = h'[z].fd
               PROVE  h'[y].fd = NoFd
    BY DEF DescriptorsInv
  <2>1. h[y].fd = h[z].fd => h[y].fd = NoFd
    BY DEF IInv, DescriptorsInv
  <2> QED
    BY <1>6, <2>1
<1>8. ConnsInv'
  <2> SUFFICES ASSUME NEW y \in all, y \notin freed, ~h'[y].pooled
               PROVE  /\ h'[y].conn <= accepted
                      /\ \A z \in all \ freed :
                            z # y /\ ~h'[z].pooled => h'[z].conn # h'[y].conn
    BY DEF ConnsInv
  <2>1. /\ h[y].conn <= accepted
        /\ \A z \in all : z # y /\ ~h[z].pooled => h[z].conn # h[y].conn
    BY <1>6 DEF IInv, ConnsInv
  <2> QED
    BY <1>6, <2>1
<1>10. PlacesInv'
  <2> SUFFICES ASSUME NEW f \in Files, pump'[f].st # "ABSENT"
               PROVE  /\ pump'[f].conn <= accepted
                      /\ ~h'[pump'[f].own].pooled
                         /\ pump'[f].conn = h'[pump'[f].own].conn
                           => pump'[f].fd = h'[pump'[f].own].fd
    BY DEF PlacesInv
  <2>1. pump'[f] = pump[f] /\ pump[f].own \in all \ freed
    BY DEF AbsentPump, IInv, PumpsInv
  <2>2. ~h'[pump[f].own].pooled => h'[pump[f].own].fd # NoFd
    BY <1>4, <2>1 DEF HandlersInv, Good, Base, Opened
  <2>3. PICK y \in all : y \notin freed /\ y = pump[f].own
    BY <2>1
  <2>4. /\ pump[f].conn <= accepted
        /\ ~h[y].pooled /\ pump[f].conn = h[y].conn => pump[f].fd = h[y].fd
    BY <2>1, <2>3 DEF IInv, PlacesInv
  <2>5. ~h'[y].pooled /\ pump[f].conn = h'[y].conn => pump[f].fd = h'[y].fd
    BY <1>6, <2>2, <2>3, <2>4
  <2> QED
    BY <2>1, <2>3, <2>4, <2>5
<1>9. AllMove
  BY <1>1 DEF AllMove
<1> QED
  BY <1>2, <1>4, <1>5, <1>7, <1>8, <1>9, <1>10 DEF IInv

LEMMA CleanupInv ==
  ASSUME IInv, NEW freed \in SUBSET all, Cleanup(freed)
  PROVE  IInv' /\ AllMove
<1>1. h \in [Handlers -> HandlerState] /\ worker \in {"serving", "closing", "exited"}
  BY DEF IInv, TypeOK
<1>2. ASSUME NEW x \in all
      PROVE  Good(h[x], Own(x), Running) /\ Moves(h[x], h[x])
  BY HandlerFacts DEF Moves, Good, Fresh, Base, Typed
<1>3. \A x \in Handlers \ all : h[x] = NewHandler
  BY DEF IInv, HandlersInv
<1> QED
  BY <1>1, <1>2, <1>3, FreeInv DEF Cleanup, Free

LEMMA ExecuteCloseInv ==
  ASSUME IInv, NEW ready \in SUBSET all, ExecuteClose(ready)
  PROVE  IInv' /\ AllMove
<1> DEFINE told == [x \in Handlers |->
                      IF x \in all /\ h[x].fd # NoFd
                      THEN NotifyClose(h[x], x \in ready) ELSE h[x]]
           freed == {x \in all : told[x].pooled}
<1>1. /\ all' = all \ freed
      /\ h' = [x \in Handlers |-> IF x \in freed THEN NewHandler ELSE told[x]]
      /\ pump' = [f \in Files |-> IF pump[f].own \in freed THEN AbsentPump
                                  ELSE pump[f]]
      /\ UNCHANGED <<accepted, gone, got>>
      /\ worker' \in {"serving", "closing", "exited"}
  BY DEF ExecuteClose
<1>2. freed \in SUBSET all
  OBVIOUS
<1>3. all \subseteq Handlers /\ h \in [Handlers -> HandlerState]
  BY DEF IInv, TypeOK
<1>4. ASSUME NEW x \in all
      PROVE  Good(told[x], Own(x), Running) /\ Moves(h[x], told[x])
  <2>1. CASE told[x] = h[x]
    BY <2>1, HandlerFacts DEF Moves, Good, Fresh, Base, Typed
  <2>2. CASE told[x] # h[x]
    <3>1. told[x] = NotifyClose(h[x], x \in ready)
      BY <1>3, <2>2
    <3> DEFINE b == x \in ready
    <3>2. told[x] = NotifyClose(h[x], b)
      BY <3>1
    <3> HIDE DEF told, b
    <3> QED
      BY <3>2, HandlerFacts, NotifyCloseGood
  <2> QED
    BY <2>1, <2>2
<1>5. \A x \in Handlers \ all : told[x] = NewHandler
  BY DEF IInv, HandlersInv
<1>6. told \in [Handlers -> HandlerState]
  <2>1. ASSUME NEW x \in Handlers PROVE told[x] \in HandlerState
    <3>1. CASE x \in all
      <4>1. Typed(told[x], Own(x)) /\ Own(x) \subseteq Files
        BY <1>4, <3>1 DEF Good, Base, Own
      <4> HIDE DEF told
      <4> QED
        BY <4>1, TypedState
    <3>2. CASE x \notin all
      BY <1>3, <3>2
    <3> QED
      BY <3>1, <3>2
  <2>2. told = [x \in Handlers |-> told[x]]
    OBVIOUS
  <2> HIDE DEF told
  <2> QED
    BY <2>1, <2>2
<1> HIDE DEF told
<1> HIDE DEF freed
<1> QED
  BY <1>1, <1>2, <1>4, <1>5, <1>6, FreeInv

-----------------------------------------------------------------------------
(* The invariant holds                                                     *)

LEMMA InitInv == Init => IInv
<1> SUFFICES ASSUME Init PROVE IInv
  OBVIOUS
<1>1. NewHandler \in HandlerState
  <2> DEFINE none == {}
  <2>1. none \subseteq Files
    OBVIOUS
  <2> HIDE DEF none
  <2> QED
    BY <2>1, NewIsClosed, TypedState
<1>2. AbsentPump \in PumpState
  BY DEF AbsentPump, PumpState
<1>3. TypeOK
  BY <1>1, <1>2, BoundsAssumption DEF Init, TypeOK
<1>4. HandlersInv
  BY DEF Init, HandlersInv
<1>5. PumpsInv
  BY DEF Init, PumpsInv, AbsentPump
<1>6. PlacesInv /\ DescriptorsInv /\ ConnsInv
  BY DEF Init, PlacesInv, AbsentPump, DescriptorsInv, ConnsInv
<1> QED
  BY <1>3, <1>4, <1>5, <1>6 DEF IInv

\* A step is one of a handler, or one of those of the pool and the clients.
LEMMA StepKinds ==
  ASSUME IInv, Next
  PROVE  \/ \E x, d : Stepped(x, d)
         \/ \E x \in Handlers, fd \in Fds : Accept(x, fd)
         \/ \E freed \in SUBSET all : Cleanup(freed)
         \/ \E ready \in SUBSET all : ExecuteClose(ready)
         \/ \E c \in Conns : ClientLeaves(c)
<1>1. ASSUME NEW x \in Handlers, Read(x)
      PROVE  \E d : Stepped(x, d)
  <2>1. CASE ReadWithStatus(x)
    BY <2>1, ReadWithStatusStepped
  <2>2. CASE ReadHead(x)
    BY <2>2, ReadHeadStepped
  <2>3. ASSUME NEW keep \in BOOLEAN, ReadBadHead(x, keep)
        PROVE  \E d : Stepped(x, d)
    BY <2>3, ReadBadHeadStepped
  <2>4. ASSUME NEW keep \in BOOLEAN, NEW refused \in BOOLEAN,
               NEW early \in BOOLEAN, ReadBody(x, keep, refused, early)
        PROVE  \E d : Stepped(x, d)
    BY <2>4, ReadBodyStepped
  <2>5. ASSUME NEW keep \in BOOLEAN, NEW early \in BOOLEAN, NEW s \in Service,
               NEW f \in Files \cup {NoPump}, ReadRequest(x, keep, early, s, f)
        PROVE  \E d : Stepped(x, d)
    BY <2>5, ReadRequestStepped
  <2>6. CASE ReadEnd(x)
    BY <2>6, ReadEndStepped
  <2> QED
    BY <1>1, <2>1, <2>2, <2>3, <2>4, <2>5, <2>6 DEF Read
<1>2. ASSUME NEW x \in Handlers, WriterTimer(x)
      PROVE  \E d : Stepped(x, d)
  <2>1. ASSUME NEW react \in Reactions, WriteFront(x, react)
        PROVE  \E d : Stepped(x, d)
    BY <2>1, WriteFrontStepped
  <2>2. CASE WriteFails(x)
    BY <2>2, WriterErrorStepped DEF WriteFails
  <2>3. ASSUME NEW ev \in Events, NEW react \in Reactions,
               StartPump(x, ev, react)
        PROVE  \E d : Stepped(x, d)
    BY <2>3, StartPumpStepped
  <2>4. CASE RestartPump(x)
    BY <2>4, WriterErrorStepped DEF RestartPump
  <2> QED
    BY <1>2, <2>1, <2>2, <2>3, <2>4 DEF WriterTimer
<1>3. ASSUME NEW x \in Handlers, Servlet(x)
      PROVE  \E d : Stepped(x, d)
  <2>1. ASSUME NEW out \in Outputs \ {"none"}, NEW mode \in Modes,
               NEW f \in Files \cup {NoPump}, ServletOutput(x, out, mode, f)
        PROVE  \E d : Stepped(x, d)
    BY <2>1, ServletOutputStepped
  <2>2. CASE ServletSetStatus(x)
    BY <2>2, ServletSetStatusStepped
  <2>3. CASE ServletComplete(x)
    BY <2>3, ServletCompleteStepped
  <2> QED
    BY <1>3, <2>1, <2>2, <2>3 DEF Servlet
<1>4. ASSUME NEW x \in Handlers, IdleTimeout(x)
      PROVE  \E d : Stepped(x, d)
  BY <1>4, IdleTimeoutStepped
<1>5. ASSUME NEW f \in Files, NEW ev \in Events, NEW react \in Reactions,
             PumpTimer(f, ev, react)
      PROVE  \E x, d : Stepped(x, d)
  BY <1>5, PumpTimerStepped
<1> QED
  BY <1>1, <1>2, <1>3, <1>4, <1>5 DEF Next

LEMMA SameInv ==
  ASSUME IInv, UNCHANGED <<h, all, pump, accepted>>, TypeOK'
  PROVE  IInv'
BY DEF IInv, HandlersInv, PumpsInv, PlacesInv, DescriptorsInv, ConnsInv, Own,
       Running

LEMMA NextInv == IInv /\ [Next]_vars => IInv'
<1> SUFFICES ASSUME IInv, [Next]_vars PROVE IInv'
  OBVIOUS
<1>1. ASSUME NEW x, NEW d, Stepped(x, d) PROVE IInv'
  BY <1>1, SteppedInv
<1>2. ASSUME NEW c \in Conns, ClientLeaves(c) PROVE IInv'
  <2>1. TypeOK'
    BY <1>2 DEF ClientLeaves, IInv, TypeOK
  <2> QED
    BY <1>2, <2>1, SameInv DEF ClientLeaves
<1>3. CASE UNCHANGED vars
  <2>1. TypeOK'
    BY <1>3 DEF vars, IInv, TypeOK
  <2> QED
    BY <1>3, <2>1, SameInv DEF vars
<1>4. CASE Next
  BY <1>1, <1>2, <1>4, StepKinds, AcceptInv, CleanupInv, ExecuteCloseInv
<1> QED
  BY <1>3, <1>4

\* Every reachable state of the worker satisfies IInv.
THEOREM HandlerInvariance == Spec => []IInv
<1>1. Init => IInv
  BY InitInv
<1>2. IInv /\ [Next]_vars => IInv'
  BY NextInv
<1> QED
  BY <1>1, <1>2, PTL DEF Spec

\* Handlers, pumps and the pool keep their types.
THEOREM HandlerTypeCorrect == Spec => []TypeOK
<1>1. IInv => TypeOK
  BY DEF IInv
<1> QED
  BY <1>1, HandlerInvariance, PTL

\* No handler waits in STOPPING or CLEANING with an empty queue, where no
\* completion would end the wait.
THEOREM WaitsAreForOutput == Spec => []WaitHasOutput
<1>1. IInv => WaitHasOutput
  <2> SUFFICES ASSUME IInv, NEW x \in all,
                      h[x].status \in {"STOPPING", "CLEANING"}
               PROVE  h[x].open /\ h[x].queue # <<>>
    BY DEF WaitHasOutput
  <2> QED
    BY HandlerFacts DEF Good, Base, Closed, Opened, Wait, HasOutput
<1> QED
  BY <1>1, HandlerInvariance, PTL

\* Queued output of a started writer always has a timer or a running pump that
\* will move it, also after an error, a completion or the end of a pump.
THEOREM OutputMoves == Spec => []AnswerMoves
<1>1. IInv => AnswerMoves
  <2> SUFFICES ASSUME IInv, NEW x \in all
               PROVE  /\ h[x].status = "CLEANING" => h[x].wrun
                      /\ h[x].wrun /\ h[x].queue # <<>> =>
                           \/ h[x].timer
                           \/ /\ Head(h[x].queue).pump # NoPump
                              /\ pump[Head(h[x].queue).pump].st = "RUNNING"
    BY DEF AnswerMoves
  <2>1. Good(h[x], Own(x), Running)
    BY HandlerFacts
  <2> QED
    BY <2>1, NoneAssumption DEF Good, Base, Flow, Wait, Answered, Running
<1> QED
  BY <1>1, HandlerInvariance, PTL

\* A handler is in the pool exactly when its connection is closed, and no two
\* handlers serve one descriptor.
THEOREM PoolAndDescriptorsAgree == Spec => []PoolMatchesDescriptors
<1>1. IInv => PoolMatchesDescriptors
  BY HandlerFacts DEF IInv, DescriptorsInv, PoolMatchesDescriptors, Base,
     Closed, Opened
<1> QED
  BY <1>1, HandlerInvariance, PTL

\* A servlet that served a request is completed once, never twice and never
\* left without its completion.
THEOREM ServletsCompleteOnce == Spec => []OneCompletionPerServlet
<1>1. IInv => OneCompletionPerServlet
  <2> SUFFICES ASSUME IInv, NEW x \in Handlers
               PROVE  h[x].live = IF h[x].servlet THEN 1 ELSE 0
    BY DEF OneCompletionPerServlet
  <2>1. CASE x \in all
    BY <2>1, HandlerFacts DEF Base, Typed, ServletType
  <2>2. CASE x \notin all
    BY <2>2 DEF IInv, HandlersInv, NewHandler
  <2> QED
    BY <2>1, <2>2
<1> QED
  BY <1>1, HandlerInvariance, PTL

\* Queued output is dropped only when the connection failed.
THEOREM TruncationIsAnError == Spec => []NoSilentTruncation
<1>1. IInv => NoSilentTruncation
  BY HandlerFacts DEF NoSilentTruncation, Base, Typed, HistoryType
<1> QED
  BY <1>1, HandlerInvariance, PTL

\* The idle timer of a recycled handler never closes a later connection.
THEOREM IdleTimersAreOwn == Spec => []IdleTimerIsOwn
<1>1. IInv => IdleTimerIsOwn
  BY HandlerFacts DEF IdleTimerIsOwn, Base, IdleOwn
<1> QED
  BY <1>1, HandlerInvariance, PTL

-----------------------------------------------------------------------------
(* The refinement                                                          *)

PhaseOf(s) ==
  CASE s.status = "CLEANING" -> "answering"
    [] s.status = "STOPPING" -> "closing"
    [] OTHER -> IF s.servlet THEN "serving" ELSE "reading"

LEMMA PhaseMoves ==
  /\ \A p \in Connection!Phases :
       p \in Connection!Moves[p]
       /\ (p # "absent" => "closed" \in Connection!Moves[p])
  /\ "reading" \in Connection!Moves["absent"]
  /\ \A q \in Connection!Phases \ {"absent"} :
       q \in Connection!Moves["reading"] /\ q \in Connection!Moves["serving"]
  /\ {"reading", "closing"} \subseteq Connection!Moves["answering"]
BY DEF Connection!Phases, Connection!Moves

LEMMA PhaseOfIsPhase ==
  ASSUME NEW s
  PROVE  PhaseOf(s) \in {"reading", "serving", "answering", "closing"}
BY DEF PhaseOf

\* A callback takes a connection to a phase that the abstract one allows.
LEMMA StateMoves ==
  ASSUME NEW S, NEW R, NEW c, ~c.pooled,
         NEW d, Good(d, S, R), ~d.pooled, Moves(c, d)
  PROVE  PhaseOf(d) \in Connection!Moves[PhaseOf(c)]
<1>1. d.status \in {"RUNNING", "STOPPING", "CLEANING"}
  BY DEF Good, Base, Typed, PlaceType, Statuses, Opened, Wait, Answered
<1>2. CASE c.status = "CLEANING"
  <2>1. PhaseOf(c) = "answering"
    BY <1>2 DEF PhaseOf
  <2>2. PhaseOf(d) \in {"answering", "closing", "reading"}
    BY <1>1, <1>2 DEF PhaseOf, Moves
  <2> QED
    BY <2>1, <2>2 DEF Connection!Moves, Connection!Phases
<1>3. CASE c.status = "STOPPING"
  <2>1. PhaseOf(c) = "closing" /\ PhaseOf(d) = "closing"
    BY <1>3 DEF PhaseOf, Moves
  <2> QED
    BY <2>1 DEF Connection!Moves, Connection!Phases
<1>4. CASE c.status \notin {"CLEANING", "STOPPING"}
  <2>1. PhaseOf(c) \in {"reading", "serving"}
    BY <1>4 DEF PhaseOf
  <2> QED
    BY <2>1, PhaseOfIsPhase DEF Connection!Moves, Connection!Phases
<1> QED
  BY <1>2, <1>3, <1>4

\* The phase of a connection is that of the one handler that serves it.
PhasesServed ==
  \A c \in Conns :
     /\ \A x \in all : ~h[x].pooled /\ h[x].conn = c =>
          Phase(c) = PhaseOf(h[x]) /\ c <= accepted
     /\ ~Serving(c) => Phase(c) = IF c > accepted THEN "absent" ELSE "closed"

LEMMA PhasesAreServed == IInv => PhasesServed
<1> SUFFICES ASSUME IInv, NEW c \in Conns
             PROVE  /\ \A x \in all : ~h[x].pooled /\ h[x].conn = c =>
                         Phase(c) = PhaseOf(h[x]) /\ c <= accepted
                    /\ ~Serving(c) =>
                         Phase(c) = IF c > accepted THEN "absent" ELSE "closed"
  BY DEF PhasesServed
<1>1. c \in Nat /\ accepted \in Nat
  BY DEF Conns, IInv, TypeOK
<1>2. ASSUME NEW x \in all, ~h[x].pooled, h[x].conn = c
      PROVE  Phase(c) = PhaseOf(h[x]) /\ c <= accepted
  <2> DEFINE o == CHOOSE y \in all : h[y].conn = c /\ ~h[y].pooled
  <2>1. c <= accepted /\ ~(c > accepted)
    BY <1>1, <1>2 DEF IInv, ConnsInv
  <2>2. o \in all /\ h[o].conn = c /\ ~h[o].pooled
    BY <1>2
  <2>3. o = x
    BY <1>2, <2>2 DEF IInv, ConnsInv
  <2>4. Serving(c)
    BY <1>2 DEF Serving
  <2>5. Phase(c) = PhaseOf(h[o])
    BY <2>1, <2>4 DEF Phase, PhaseOf
  <2> QED
    BY <2>1, <2>3, <2>5
<1>3. ~Serving(c) => Phase(c) = IF c > accepted THEN "absent" ELSE "closed"
  BY DEF Phase
<1> QED
  BY <1>2, <1>3

LEMMA PhasesStayServed == IInv' => PhasesServed'
BY PhasesAreServed, PTL

LEMMA AllMovePhases ==
  ASSUME IInv, IInv', AllMove, NEW c \in Conns
  PROVE  Phase(c)' \in Connection!Moves[Phase(c)]
<1>1. PhasesServed /\ PhasesServed'
  BY PhasesAreServed, PhasesStayServed
<1>2. ASSUME NEW y \in all', ~h'[y].pooled, h'[y].conn = c
      PROVE  /\ y \in all /\ ~h[y].pooled /\ h[y].conn = c
             /\ Phase(c)' \in Connection!Moves[Phase(c)]
  <2>1. y \in all /\ Moves(h[y], h'[y])
    BY DEF AllMove
  <2>2. ~h[y].pooled /\ h[y].conn = c
    BY <1>2, <2>1 DEF Moves
  <2>3. Phase(c) = PhaseOf(h[y]) /\ Phase(c)' = PhaseOf(h'[y])
    BY <1>1, <1>2, <2>1, <2>2 DEF PhasesServed
  <2>4. Good(h'[y], Own(y)', Running')
    BY DEF IInv, HandlersInv
  <2> QED
    BY <1>2, <2>1, <2>2, <2>3, <2>4, StateMoves
<1>3. CASE Serving(c)'
  BY <1>2, <1>3 DEF Serving
<1>4. CASE ~Serving(c)' /\ Serving(c)
  <2>1. PICK x \in all : h[x].conn = c /\ ~h[x].pooled
    BY <1>4 DEF Serving
  <2>2. Phase(c) = PhaseOf(h[x]) /\ c <= accepted
    BY <1>1, <2>1 DEF PhasesServed
  <2>3. ~(c > accepted)
    BY <2>2 DEF Conns, IInv, TypeOK
  <2>4. Phase(c)' = "closed"
    BY <1>1, <1>4, <2>3 DEF PhasesServed, AllMove
  <2>5. Phase(c) \in Connection!Phases \ {"absent"}
    BY <2>2, PhaseOfIsPhase DEF Connection!Phases
  <2> QED
    BY <2>4, <2>5, PhaseMoves
<1>5. CASE ~Serving(c)' /\ ~Serving(c)
  <2>1. Phase(c) = Phase(c)' /\ Phase(c) \in {"absent", "closed"}
    BY <1>1, <1>5 DEF PhasesServed, AllMove
  <2> QED
    BY <2>1, PhaseMoves DEF Connection!Phases
<1> QED
  BY <1>3, <1>4, <1>5

LEMMA AcceptPhases ==
  ASSUME IInv, IInv', NEW x \in Handlers, Accepted(x), NEW c \in Conns
  PROVE  Phase(c)' \in Connection!Moves[Phase(c)]
<1>1. PhasesServed /\ PhasesServed'
  BY PhasesAreServed, PhasesStayServed
<1>2. c \in Nat /\ accepted \in Nat
  BY DEF Conns, IInv, TypeOK
<1>3. CASE c = accepted + 1
  <2>1. ~Serving(c)
    BY <1>1, <1>2, <1>3 DEF Serving, PhasesServed
  <2>2. Phase(c) = "absent"
    BY <1>1, <1>2, <1>3, <2>1 DEF PhasesServed
  <2>3. Phase(c)' = PhaseOf(h'[x])
    BY <1>1, <1>3 DEF PhasesServed, Accepted
  <2>4. PhaseOf(h'[x]) = "reading"
    BY DEF PhaseOf, Accepted
  <2> QED
    BY <2>2, <2>3, <2>4, PhaseMoves
<1>4. CASE c # accepted + 1
  <2>1. CASE Serving(c)
    <3>1. PICK y \in all : h[y].conn = c /\ ~h[y].pooled
      BY <2>1 DEF Serving
    <3>2. y # x /\ y \in all' /\ h'[y] = h[y]
      BY <3>1 DEF Accepted
    <3>3. Phase(c)' = Phase(c) /\ Phase(c) = PhaseOf(h[y])
      BY <1>1, <3>1, <3>2 DEF PhasesServed
    <3> QED
      BY <3>3, PhaseMoves, PhaseOfIsPhase DEF Connection!Phases
  <2>2. CASE ~Serving(c)
    <3>1. ~Serving(c)'
      BY <1>4, <2>2 DEF Serving, Accepted
    <3>2. c > accepted' <=> c > accepted
      BY <1>2, <1>4 DEF Accepted
    <3>3. Phase(c)' = Phase(c) /\ Phase(c) \in {"absent", "closed"}
      BY <1>1, <2>2, <3>1, <3>2 DEF PhasesServed
    <3> QED
      BY <3>3, PhaseMoves DEF Connection!Phases
  <2> QED
    BY <2>1, <2>2
<1> QED
  BY <1>3, <1>4

LEMMA PhasesTyped ==
  ASSUME NEW c \in Conns
  PROVE  Phase(c) \in Connection!Phases
BY DEF Phase, Connection!Phases

LEMMA PhasesStayTyped == (\A c \in Conns : Phase(c) \in Connection!Phases)'
<1>1. \A c \in Conns : Phase(c) \in Connection!Phases
  BY PhasesTyped
<1> QED
  BY <1>1, PTL

LEMMA StepRefines ==
  ASSUME IInv, IInv', [Next]_vars
  PROVE  [Connection!Next]_([c \in Conns |-> Phase(c)])
<1>1. ASSUME AllMove, NEW c \in Conns
      PROVE  Phase(c)' \in Connection!Moves[Phase(c)]
  BY <1>1, AllMovePhases
<1>2. ASSUME \A y \in all : h'[y] = h[y], UNCHANGED <<all, accepted>>
      PROVE  AllMove
  BY <1>2, HandlerFacts DEF AllMove, Moves, Good, Fresh, Base, Typed
<1>3. ASSUME NEW x, NEW d, Stepped(x, d) PROVE AllMove
  <2>1. all \subseteq Handlers /\ h \in [Handlers -> HandlerState]
    BY DEF IInv, TypeOK
  <2>2. \A y \in all : Moves(h[y], h[y])
    BY HandlerFacts DEF Moves, Good, Fresh, Base, Typed
  <2> QED
    BY <1>3, <2>1, <2>2 DEF Stepped, AllMove
<1>4. \A c \in Conns : Phase(c)' \in Connection!Moves[Phase(c)]
  <2>1. CASE UNCHANGED vars
    BY <1>1, <1>2, <2>1 DEF vars
  <2>2. ASSUME NEW x \in Handlers, NEW fd \in Fds, Accept(x, fd)
        PROVE  \A c \in Conns : Phase(c)' \in Connection!Moves[Phase(c)]
    BY <2>2, AcceptInv, AcceptPhases
  <2>3. ASSUME NEW c \in Conns, ClientLeaves(c) PROVE AllMove
    BY <1>2, <2>3 DEF ClientLeaves
  <2>4. CASE Next
    BY <1>1, <1>3, <2>2, <2>3, <2>4, StepKinds, CleanupInv, ExecuteCloseInv
  <2> QED
    BY <2>1, <2>4
<1>5. [c \in Conns |-> Phase(c)]' = [c \in Conns |-> Phase(c)']
  OBVIOUS
<1> QED
  BY <1>4, <1>5, PhasesStayTyped DEF Connection!Next

LEMMA InitRefines == Init => Connection!Init
BY DEF Init, Connection!Init, Phase, Conns

\* A worker implements HttpConnection: whichever handlers serve them, the
\* connections are read, served and answered in turn, the next request is read
\* only after the answer was sent, and a closed connection never comes back.
THEOREM WorkerImplementsHttpConnection == Spec => ImplementsHttpConnection
<1>1. Init => Connection!Init
  BY InitRefines
<1>2. IInv /\ IInv' /\ [Next]_vars =>
        [Connection!Next]_([c \in Conns |-> Phase(c)])
  BY StepRefines
<1> QED
  BY <1>1, <1>2, HandlerInvariance, PTL
     DEF Spec, ImplementsHttpConnection, Connection!Spec
=============================================================================
