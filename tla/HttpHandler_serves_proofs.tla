---------------------- MODULE HttpHandler_serves_proofs ----------------------
(***************************************************************************)
(* What a client of HttpHandler can count on: nobody else's bytes are sent *)
(* to it (NoStrayBytes), a handler that waits for it can hear it           *)
(* (NoDeafHandler), and nothing of an earlier request meets its own        *)
(* (CleanSlate).                                                           *)
(*                                                                         *)
(* The first two fail in the code once a file pump outlives its            *)
(* connection: stop() ends the writer and leaves a running pump its timer. *)
(* They are proved from []PumpsEndWithConnections, which says that this    *)
(* does not happen; without files it cannot, and the corollaries drop the  *)
(* premise.                                                                *)
(***************************************************************************)
EXTENDS HttpHandler_proofs

\* No pump runs for a connection that its handler does not serve any more.
PumpsEndWithConnections ==
  \A f \in Files : pump[f].st = "RUNNING" =>
     /\ ~h[pump[f].own].pooled
     /\ h[pump[f].own].conn = pump[f].conn

LEMMA NoFilesNoPumps ==
  ASSUME Files = {}
  PROVE  PumpsEndWithConnections
BY DEF PumpsEndWithConnections

LEMMA NoFilesNeverPumps ==
  ASSUME Files = {}
  PROVE  []PumpsEndWithConnections
<1>1. PumpsEndWithConnections
  BY NoFilesNoPumps
<1> QED
  BY <1>1, PTL

-----------------------------------------------------------------------------
(* Whose bytes a client gets                                               *)

\* The descriptor of a pump whose connection is served is its client's.
LEMMA PumpHasItsClient ==
  ASSUME IInv, NEW f \in Files, pump[f].st \in {"NEW", "RUNNING"},
         ~h[pump[f].own].pooled, h[pump[f].own].conn = pump[f].conn
  PROVE  ClientOf(pump[f].fd) = {pump[f].conn}
<1>1. PICK x \in all : x = pump[f].own
  BY DEF IInv, PumpsInv
<1>2. h[x].fd = pump[f].fd /\ h[x].conn = pump[f].conn
  BY <1>1 DEF IInv, PlacesInv
<1>3. h[x].fd # NoFd
  BY <1>1, HandlerFacts DEF Base, Opened
<1>4. \A y \in all : h[y].fd = h[x].fd => y = x
  BY <1>3 DEF IInv, DescriptorsInv
<1> QED
  BY <1>2, <1>4 DEF ClientOf

LEMMA SendDataStray ==
  ASSUME IInv, NoStrayBytes, NEW f \in Files,
         pump[f].st \in {"NEW", "RUNNING"},
         ~h[pump[f].own].pooled, h[pump[f].own].conn = pump[f].conn,
         NEW c, NEW ev \in Events, NEW react \in Reactions,
         SendData(f, c, ev, react)
  PROVE  NoStrayBytes'
<1>1. ClientOf(pump[f].fd) = {pump[f].conn}
  BY PumpHasItsClient
<1>2. got' = got
      \/ got' = [d \in Conns |-> IF d \in {pump[f].conn}
                                 THEN got[d] \cup {pump[f].conn} ELSE got[d]]
  BY <1>1 DEF SendData
<1> QED
  BY <1>2 DEF NoStrayBytes

LEMMA WriteFrontStray ==
  ASSUME IInv, NoStrayBytes, NEW x \in Handlers, NEW react \in Reactions,
         WriteFront(x, react)
  PROVE  NoStrayBytes'
<1>1. x \in all /\ h[x].queue # <<>>
  BY OnlyOpenAct DEF WriteFront
<1>2. h[x].queue \in Seq(BlockOf(Own(x), h[x].conn))
  BY <1>1, HandlerFacts DEF Base, Typed, WriterType
<1>3. Head(h[x].queue) \in BlockOf(Own(x), h[x].conn)
  BY <1>1, <1>2, HeadTailProperties
<1>4. Head(h[x].queue).conn = h[x].conn
  BY <1>3 DEF BlockOf
<1>5. got' = [got EXCEPT ![h[x].conn] = @ \cup {h[x].conn}]
  BY <1>4 DEF WriteFront
<1> QED
  BY <1>5 DEF NoStrayBytes, IInv, TypeOK

LEMMA StartPumpStray ==
  ASSUME IInv, NoStrayBytes, NEW x \in Handlers, NEW ev \in Events,
         NEW react \in Reactions, StartPump(x, ev, react)
  PROVE  NoStrayBytes'
<1> DEFINE f == Head(h[x].queue).pump
<1>1. x \in all /\ ~h[x].pooled /\ h[x].queue # <<>> /\ f # NoPump
  BY OnlyOpenAct DEF StartPump
<1>2. h[x].queue \in Seq(BlockOf(Own(x), h[x].conn))
  BY <1>1, HandlerFacts DEF Base, Typed, WriterType
<1>3. Head(h[x].queue) \in BlockOf(Own(x), h[x].conn)
  BY <1>1, <1>2, HeadTailProperties
<1>4. f \in Own(x)
  BY <1>1, <1>3 DEF BlockOf
<1>5. pump[f].st = "NEW" /\ SendData(f, [h[x] EXCEPT !.timer = FALSE], ev, react)
  BY DEF StartPump
<1> HIDE DEF f
<1>6. f \in Files /\ pump[f].own = x /\ pump[f].conn = h[x].conn
  BY <1>4 DEF Own
<1> QED
  BY <1>1, <1>5, <1>6, SendDataStray

LEMMA NextStray ==
  ASSUME IInv, PumpsEndWithConnections, NoStrayBytes, [Next]_vars
  PROVE  NoStrayBytes'
<1>1. CASE UNCHANGED got
  BY <1>1 DEF NoStrayBytes
<1>2. ASSUME NEW x \in Handlers, NEW react \in Reactions, WriteFront(x, react)
      PROVE  NoStrayBytes'
  BY <1>2, WriteFrontStray
<1>3. ASSUME NEW x \in Handlers, NEW ev \in Events, NEW react \in Reactions,
             StartPump(x, ev, react)
      PROVE  NoStrayBytes'
  BY <1>3, StartPumpStray
<1>4. ASSUME NEW f \in Files, NEW ev \in Events, NEW react \in Reactions,
             PumpTimer(f, ev, react)
      PROVE  NoStrayBytes'
  BY <1>4, SendDataStray DEF PumpTimer, PumpsEndWithConnections
<1>5. ASSUME NEW x \in Handlers, Read(x)
      PROVE  UNCHANGED got
  BY <1>5 DEF Read, ReadWithStatus, ReadHead, ReadBadHead, ReadBody,
     ReadRequest, ReadEnd, ReadBytes
<1>6. ASSUME NEW x \in Handlers, WriteFails(x) \/ RestartPump(x)
      PROVE  UNCHANGED got
  BY <1>6 DEF WriteFails, RestartPump
<1>7. ASSUME NEW x \in Handlers, IdleTimeout(x) \/ Servlet(x)
      PROVE  UNCHANGED got
  BY <1>7 DEF IdleTimeout, Servlet, ServletOutput, ServletSetStatus,
     ServletComplete
<1>8. ASSUME NEW x \in Handlers, NEW fd \in Fds, Accept(x, fd)
      PROVE  UNCHANGED got
  BY <1>8 DEF Accept
<1>9. ASSUME NEW freed \in SUBSET all, Cleanup(freed)
      PROVE  UNCHANGED got
  BY <1>9 DEF Cleanup
<1>10. ASSUME NEW ready \in SUBSET all, ExecuteClose(ready)
       PROVE  UNCHANGED got
  BY <1>10 DEF ExecuteClose
<1>11. ASSUME NEW c \in Conns, ClientLeaves(c)
       PROVE  UNCHANGED got
  BY <1>11 DEF ClientLeaves
<1>12. CASE UNCHANGED vars
  BY <1>1, <1>12 DEF vars
<1>13. CASE Next
  <2>1. ASSUME NEW x \in Handlers, WriterTimer(x)
        PROVE  NoStrayBytes'
    BY <1>1, <1>2, <1>3, <1>6, <2>1 DEF WriterTimer
  <2> QED
    BY <1>1, <1>4, <1>5, <1>7, <1>8, <1>9, <1>10, <1>11, <1>13, <2>1 DEF Next
<1> QED
  BY <1>12, <1>13

\* A client is sent only what was written for it, as long as no file pump
\* outlives the connection it was made for (NoStrayBytes: Response.h:71; what
\* the run HttpHandler_stray finds is exactly the pump that does).
THEOREM NobodyElsesBytes ==
  Spec /\ []PumpsEndWithConnections => []NoStrayBytes
<1>1. Init => NoStrayBytes
  BY DEF Init, NoStrayBytes
<1>2. IInv /\ PumpsEndWithConnections /\ NoStrayBytes /\ [Next]_vars
        => NoStrayBytes'
  BY NextStray
<1> QED
  BY <1>1, <1>2, HandlerInvariance, PTL DEF Spec

\* A worker whose servlets send no files never sends a client the bytes of
\* another: the descriptors that are reused and the handlers that are recycled
\* (HttpHandlerManager::get, HttpHandler::stop) mix nothing up.
COROLLARY NobodyElsesBytesWithoutFiles ==
  ASSUME Files = {}
  PROVE  Spec => []NoStrayBytes
BY NobodyElsesBytes, NoFilesNeverPumps, PTL

-----------------------------------------------------------------------------
(* What the methods do to the block in front and to the next read request  *)

\* A handler that waits for its client can hear it: a read request, the
\* watcher and the idle timer are there, and the request is unanswered.
Armed(c)      == c.watch /\ (c.idleOn => c.idle # 0)
Unanswered(c) == ~c.done /\ (~c.async => c.header = "none" /\ c.queue = <<>>)
Hears(c)      == c.status = "RUNNING" => c.reads > 0 /\ Armed(c) /\ Unanswered(c)

\* The block in front stays where it is.
SameFront(c, d) ==
  c.queue # <<>> => d.queue # <<>> /\ Head(d.queue) = Head(c.queue)
KeepsFront(c, d) == d.pooled \/ SameFront(c, d)

\* If d is still RUNNING, it has one read request more than c and hears.
Resumes(c, d) ==
  d.status = "RUNNING" => d.reads = c.reads + 1 /\ Armed(d) /\ Unanswered(d)

Continues(c, d) == KeepsFront(c, d) /\ Resumes(c, d)

\* Neither the block in front nor the number of read requests has changed.
Leads(c, d) == d.reads = c.reads /\ SameFront(c, d)

LEMMA GroupsLead ==
  ASSUME NEW c, NEW d
  PROVE  /\ SameWriter(c, d) /\ SameReader(c, d) => Leads(c, d)
         /\ Writes(c, d) => Leads(c, d)
         /\ Requests(c, d) => Leads(c, d)
         /\ Rests(c, d) => SameFront(c, d)
BY DEF Leads, SameFront, Writes, Requests, Rests, SameWriter, SameReader

LEMMA LeadsOn ==
  ASSUME NEW c, NEW e, NEW d, Leads(c, e)
  PROVE  /\ Continues(e, d) => Continues(c, d)
         /\ KeepsFront(e, d) => KeepsFront(c, d)
         /\ Leads(e, d) => Leads(c, d)
BY DEF Leads, Continues, KeepsFront, SameFront, Resumes

\* A handler that is not RUNNING any more need not hear.
LEMMA StoppedContinues ==
  ASSUME NEW c, NEW d, d.status # "RUNNING"
  PROVE  Resumes(c, d) /\ Hears(d)
BY DEF Resumes, Hears

LEMMA PooledContinues ==
  ASSUME NEW S, NEW R, NEW c, NEW d, Base(d, S, R), d.pooled
  PROVE  Continues(c, d) /\ Hears(d) /\ d.status = "STOP"
BY DEF Base, Closed, Continues, KeepsFront, Resumes, Hears

LEMMA ResumedHears ==
  ASSUME NEW c, c.reads \in Nat, NEW d, Resumes(c, d)
  PROVE  Hears(d)
BY DEF Resumes, Hears

\* prepareRead() of an open handler: one request more, everything armed.
LEMMA PrepareReadArms ==
  ASSUME NEW c, Shape(c), c.fd # NoFd, c.ropen, c.conn \in Conns,
         NEW d, d = PrepareRead(c)
  PROVE  Rests(c, d) /\ d.reads = c.reads + 1 /\ Armed(d)
<1> DEFINE e == StartTimeoutEv(c)
           k == c.conn
<1>1. d = ReaderRead(e)
  BY DEF PrepareRead
<1>2. /\ Shape(e) /\ Rests(c, e) /\ SameReader(c, e)
      /\ e.idleOn => e.idle # 0
  <2>1. CASE ~c.idleOn
    <3>1. e = c
      BY <2>1 DEF StartTimeoutEv
    <3> QED
      BY <2>1, <3>1, WritesReflexive DEF SameReader
  <2>2. CASE c.idleOn
    <3>1. e = WithIdle(c, k) /\ k # 0
      BY <2>2 DEF StartTimeoutEv, WithIdle, Conns
    <3> HIDE DEF e, k
    <3> QED
      BY <3>1, IdleFields
  <2> QED
    BY <2>1, <2>2
<1> HIDE DEF e, k
<1> DEFINE n == e.reads + 1
           w == TRUE
<1>3. d = WithReads(e, n, w)
  BY <1>1, <1>2 DEF ReaderRead, WithReads, Rests
<1>4. n = c.reads + 1 /\ w
  BY <1>2 DEF SameReader
<1> HIDE DEF n, w
<1>5. Rests(e, d) /\ SameIdle(e, d) /\ d.reads = n /\ d.watch = w
  BY <1>2, <1>3, ReadsFields
<1>6. Rests(c, d)
  BY <1>2, <1>5 DEF Rests, SamePlace, SameWriter, SameRequest, SameServlet,
     SameResponse, SameHistory
<1> QED
  BY <1>2, <1>4, <1>5, <1>6 DEF Armed, SameIdle

LEMMA RestsUnanswered ==
  ASSUME NEW c, NEW d, Rests(c, d)
  PROVE  Unanswered(c) => Unanswered(d)
BY DEF Unanswered, Rests, SameRequest, SameResponse, SameWriter

LEMMA PrepareReadContinues ==
  ASSUME NEW S, NEW R, NEW c, Base(c, S, R), ~c.pooled,
         NEW d, d = PrepareRead(c)
  PROVE  KeepsFront(c, d) /\ (Unanswered(c) => Resumes(c, d))
<1>1. Rests(c, d) /\ d.reads = c.reads + 1 /\ Armed(d)
  BY PrepareReadArms DEF Base, Opened, Typed
<1> QED
  BY <1>1, RestsUnanswered, GroupsLead DEF KeepsFront, Resumes

-----------------------------------------------------------------------------

LEMMA StopHandlerContinues ==
  ASSUME NEW S, NEW R, NEW c, Base(c, S, R), NEW d, d = StopHandler(c)
  PROVE  Continues(c, d) /\ Hears(d) /\ d.status # "RUNNING"
<1>1. Base(d, S, R) /\ (d.pooled \/ d.status = "STOPPING")
  BY StopHandlerGood DEF Good
<1>2. d.status # "RUNNING"
  BY <1>1, PooledContinues
<1>3. SameFront(c, d) \/ d.pooled
  <2>1. CASE d = c \/ c.queue = <<>>
    BY <2>1 DEF SameFront
  <2>2. CASE d # c /\ c.queue # <<>>
    <3>1. d = WithStatus(c, "STOPPING")
      BY <2>2 DEF StopHandler, WithStatus
    <3> QED
      BY <3>1, StatusFields, GroupsLead DEF Base, Typed, Leads
  <2> QED
    BY <2>1, <2>2
<1> QED
  BY <1>2, <1>3, StoppedContinues DEF Continues, KeepsFront

\* clean() waits for its output, or asks for the next request.
LEMMA CleanContinues ==
  ASSUME NEW S, NEW R, NEW c, Base(c, S, R), ~c.pooled, NEW d, d = Clean(c)
  PROVE  /\ Continues(c, d)
         /\ c.queue # <<>> => d.status = "CLEANING"
<1>1. CASE c.queue # <<>>
  <2>1. d = WithStatus(c, "CLEANING")
    BY <1>1 DEF Clean, WithStatus
  <2>2. d.status = "CLEANING" /\ SameFront(c, d)
    BY <2>1, StatusFields, GroupsLead DEF Base, Typed, Leads
  <2> QED
    BY <2>2, StoppedContinues DEF Continues, KeepsFront
<1>2. CASE c.queue = <<>>
  <2> DEFINE s  == "RUNNING"
             c1 == EndRequest(c)
             c2 == WithStatus(c1, s)
  <2>1. d = PrepareRead(c2)
    BY <1>2 DEF Clean, Base, Opened, WithStatus
  <2>2. /\ Shape(c1) /\ SamePlace(c, c1) /\ SameReader(c, c1)
        /\ ~c1.done /\ Slate(c1)
    BY <1>2, EndRequestClears DEF Base, Typed
  <2> HIDE DEF c1, s
  <2>3. /\ Shape(c2) /\ c2.fd = c1.fd /\ c2.conn = c1.conn
        /\ SameWriter(c1, c2) /\ SameReader(c1, c2)
        /\ SameRequest(c1, c2) /\ SameResponse(c1, c2)
    BY <2>2, StatusFields
  <2> HIDE DEF c2
  <2>4. /\ c2.fd # NoFd /\ c2.ropen /\ c2.conn \in Conns
        /\ c2.reads = c.reads
    BY <2>2, <2>3 DEF Base, Opened, SamePlace, SameReader
  <2>5. Unanswered(c2)
    BY <2>2, <2>3 DEF Unanswered, Slate, SameWriter, SameRequest, SameResponse
  <2>6. Rests(c2, d) /\ d.reads = c2.reads + 1 /\ Armed(d)
    BY <2>1, <2>3, <2>4, PrepareReadArms
  <2>7. Unanswered(d)
    BY <2>5, <2>6, RestsUnanswered
  <2> QED
    BY <1>2, <2>4, <2>6, <2>7 DEF Continues, KeepsFront, SameFront, Resumes
<1> QED
  BY <1>1, <1>2

LEMMA OnCompleteContinues ==
  ASSUME NEW S, NEW R, NEW c, Base(c, S, R), ~c.pooled,
         NEW d, d = OnCompleteEvent(c)
  PROVE  /\ Continues(c, d)
         /\ c.queue # <<>> => d.status # "RUNNING"
<1>1. d = Clean(c) \/ d = StopHandler(c)
  BY DEF OnCompleteEvent
<1> QED
  BY <1>1, CleanContinues, StopHandlerContinues

-----------------------------------------------------------------------------
(* The answer                                                              *)

\* A header that is written is in the queue.
HeadersQueued(c) == c.header # "none" => c.queue # <<>>

LEMMA WriteBufferQueues ==
  ASSUME NEW S, NEW R, NEW c, Base(c, S, R), ~c.pooled, HeadersQueued(c),
         NEW mode \in Modes, NEW d, d = WriteBuffer(c, mode)
  PROVE  d.queue # <<>>
<1> DEFINE e == Enqueue(c, NoPump)
           m == IF c.header = "none" THEN mode ELSE c.header
<1>1. CASE c.header = "none" \/ c.buffered
  <2>1. d = WithHeader(e, m)
    BY <1>1 DEF WriteBuffer, WithHeader
  <2>2. Base(e, S, R) /\ e.queue # <<>>
    BY EnqueueWrites
  <2> HIDE DEF e, m
  <2>3. SameWriter(e, d)
    BY <2>1, <2>2, ResponseFields DEF Base, Typed
  <2> QED
    BY <2>2, <2>3 DEF SameWriter
<1>2. CASE ~(c.header = "none" \/ c.buffered)
  BY <1>2 DEF WriteBuffer, HeadersQueued
<1> QED
  BY <1>1, <1>2

LEMMA WriteChunkHeadQueues ==
  ASSUME NEW S, NEW R, NEW c, Base(c, S, R), ~c.pooled, HeadersQueued(c),
         NEW mode \in Modes, NEW d, d = WriteChunkHead(c, mode)
  PROVE  d.queue # <<>>
<1> DEFINE e == Enqueue(c, NoPump)
<1>1. CASE c.header = "chunked"
  <2>1. d = Unbuffered(e)
    BY <1>1 DEF WriteChunkHead, Unbuffered
  <2>2. Base(e, S, R) /\ e.queue # <<>>
    BY EnqueueWrites
  <2> HIDE DEF e
  <2>3. SameWriter(e, d)
    BY <2>1, <2>2, ResponseFields DEF Base, Typed
  <2> QED
    BY <2>2, <2>3 DEF SameWriter
<1>2. CASE c.header # "chunked"
  BY <1>2, WriteBufferQueues DEF WriteChunkHead
<1> QED
  BY <1>1, <1>2

LEMMA WritesQueued ==
  ASSUME NEW c, NEW d, c.queue # <<>>, Writes(c, d)
  PROVE  HeadersQueued(d)
BY DEF HeadersQueued, Writes

LEMMA OutputQueues ==
  ASSUME NEW S, NEW R, NEW c, Base(c, S, R), ~c.pooled, HeadersQueued(c),
         NEW out \in Outputs, NEW mode \in Modes, NEW f \in S \cup {NoPump},
         NEW d, d = Output(c, out, mode, f)
  PROVE  HeadersQueued(d)
<1>1. ASSUME NEW e, e = Buffered(c)
      PROVE  /\ HeadersQueued(e) /\ Base(e, S, R) /\ ~e.pooled
  <2>1. Shape(c) /\ Shape(e) /\ SameWriter(c, e) /\ e.header = c.header
    BY <1>1, ResponseFields DEF Base, Typed
  <2>2. Base(e, S, R) /\ Writes(c, e) /\ ~e.pooled
    BY <1>1, ResponseWrites DEF Modes
  <2> QED
    BY <2>1, <2>2 DEF HeadersQueued, SameWriter
<1>2. CASE d = c \/ d = Buffered(c)
  BY <1>1, <1>2
<1>3. CASE out = "spill" /\ d # c
  <2> DEFINE b == Buffered(c)
             e == WriteBuffer(b, mode)
  <2>1. d = Buffered(e)
    BY <1>3 DEF Output, Buffered
  <2>2. HeadersQueued(b) /\ Base(b, S, R) /\ ~b.pooled
    BY <1>1
  <2> HIDE DEF b
  <2>3. e.queue # <<>> /\ Base(e, S, R) /\ ~e.pooled
    BY <2>2, WriteBufferQueues, WriteBufferWrites
  <2> HIDE DEF e
  <2>4. Writes(e, d)
    BY <2>1, <2>3, ResponseWrites DEF Modes
  <2> QED
    BY <2>3, <2>4, WritesQueued
<1>4. CASE out = "flush"
  <2> DEFINE e == WriteBuffer(c, mode)
  <2>1. d = WriterStart(e)
    BY <1>4 DEF Output, FlushBuffer
  <2>2. e.queue # <<>> /\ Base(e, S, R)
    BY WriteBufferQueues, WriteBufferWrites
  <2> HIDE DEF e
  <2>3. Writes(e, d)
    BY <2>1, <2>2, WriterStartWrites
  <2> QED
    BY <2>2, <2>3, WritesQueued
<1>5. CASE out = "sendfile"
  <2> DEFINE e == WriteChunkHead(c, mode)
             g == Enqueue(e, f)
  <2>1. d = g \/ d = Enqueue(g, NoPump)
    BY <1>5 DEF Output, Sendfile
  <2>2. Base(e, S, R) /\ ~e.pooled
    BY WriteChunkHeadWrites
  <2> HIDE DEF e
  <2>3. Base(g, S, R) /\ Writes(e, g) /\ g.queue # <<>>
    BY <2>2, EnqueueWrites
  <2>4. ~g.pooled
    BY <2>2, <2>3 DEF Writes, SamePlace
  <2> HIDE DEF g
  <2>5. Writes(g, d)
    BY <2>1, <2>3, <2>4, EnqueueWrites, WritesReflexive
  <2> QED
    BY <2>3, <2>5, WritesQueued
<1>6. CASE out \in {"none", "buffer"}
  <2>1. d = c \/ d = Buffered(c)
    BY <1>6 DEF Output, Buffered
  <2> QED
    BY <1>2, <2>1
<1> QED
  BY <1>2, <1>3, <1>4, <1>5, <1>6 DEF Outputs

\* complete(): the answer is sent, then the next request; an answer without a
\* single block would not wait, but there is none.
LEMMA CompleteContinues ==
  ASSUME NEW S, NEW R, NEW c, Base(c, S, R), ~c.pooled, NEW d, d = Complete(c)
  PROVE  /\ Continues(c, d)
         /\ HeadersQueued(c) => d.status # "RUNNING"
<1>1. CASE c.status # "RUNNING"
  <2>1. d = WriterStart(c)
    BY <1>1 DEF Complete, StartWrite, Base, Opened
  <2>2. Writes(c, d)
    BY <2>1, WriterStartWrites
  <2>3. d.status # "RUNNING" /\ SameFront(c, d)
    BY <1>1, <2>2, GroupsLead DEF Writes, SamePlace, Leads
  <2> QED
    BY <2>3, StoppedContinues DEF Continues, KeepsFront
<1>2. CASE c.status = "RUNNING"
  <2> DEFINE m == "length"
             s == "ANSWERING"
             c1 == WriteChunkHead(c, m)
             c2 == WriterStart(c1)
             c3 == [c2 EXCEPT !.status = s]
  <2>1. m \in Modes /\ s \in Statuses \ {"STOP"}
    BY DEF Modes, Statuses
  <2>2. d = OnCompleteEvent([StartWrite(c1) EXCEPT !.status = s])
    BY <1>2 DEF Complete
  <2> HIDE DEF m, s
  <2>3. /\ Base(c1, S, R) /\ Writes(c, c1) /\ ~c1.pooled
        /\ HeadersQueued(c) => c1.queue # <<>>
    BY <2>1, WriteChunkHeadWrites, WriteChunkHeadQueues
  <2> HIDE DEF c1
  <2>4. d = OnCompleteEvent(c3)
    BY <2>2, <2>3 DEF StartWrite, Base, Opened
  <2>5. Base(c2, S, R) /\ Writes(c1, c2) /\ c2.queue = c1.queue
    BY <2>3, WriterStartWrites
  <2> HIDE DEF c2
  <2>6. ~c2.pooled /\ Leads(c, c2)
    <3>1. Leads(c, c1) /\ Leads(c1, c2)
      BY <2>3, <2>5, GroupsLead
    <3>2. ~c2.pooled
      BY <2>3, <2>5 DEF Writes, SamePlace
    <3> QED
      BY <3>1, <3>2, LeadsOn
  <2>7. /\ Base(c3, S, R) /\ ~c3.pooled
        /\ SameWriter(c2, c3) /\ SameReader(c2, c3)
    BY <2>1, <2>5, <2>6, StatusBase
  <2> HIDE DEF c3
  <2>8. Leads(c, c3)
    BY <2>6, <2>7, GroupsLead, LeadsOn
  <2>9. Continues(c3, d) /\ (c3.queue # <<>> => d.status # "RUNNING")
    BY <2>4, <2>7, OnCompleteContinues
  <2>10. c3.queue = c1.queue
    BY <2>5, <2>7 DEF SameWriter
  <2> QED
    BY <2>3, <2>8, <2>9, <2>10, LeadsOn
<1> QED
  BY <1>1, <1>2

-----------------------------------------------------------------------------
(* Requests                                                                *)

\* The steps of a request that leave the answer alone.
LEMMA HeadedFields ==
  ASSUME NEW c, Shape(c), NEW k, NEW v, NEW d,
         \/ d = Headed(c, k) \/ d = Kept(c, k) \/ d = Taken(c, v)
         \/ d = Bodied(c) \/ d = Coded(c)
  PROVE  SameResponse(c, d) /\ d.done = c.done
BY DEF Headed, Kept, Taken, Bodied, Coded, Shape, FieldNames, SameResponse

LEMMA JudgedFields ==
  ASSUME NEW c, Shape(c), NEW a, NEW b, NEW d
  PROVE  /\ d = Judged(c, a) => SameResponse(c, d) /\ d.done = a /\ d.code = a
         /\ d = Called(c, a, b) => /\ d.header = c.header /\ d.async = a
                                   /\ d.code = b
         /\ d = Undone(c) => SameResponse(c, d) /\ ~d.done /\ d.code = c.code
BY DEF Judged, Called, Undone, Shape, FieldNames, SameResponse

LEMMA DoneFields ==
  ASSUME NEW c, Shape(c), NEW d, d = Done(c)
  PROVE  /\ SamePlace(c, d) /\ SameWriter(c, d)
BY DEF Done, Shape, FieldNames, SamePlace, SameWriter

\* A request that goes on unanswered.
StillUnanswered(c, d) ==
  /\ SamePlace(c, d) /\ Leads(c, d)
  /\ Unanswered(c) => Unanswered(d)

LEMMA StillUnansweredOn ==
  ASSUME NEW c, NEW e, NEW d, StillUnanswered(c, e), StillUnanswered(e, d)
  PROVE  StillUnanswered(c, d)
<1>1. Leads(c, d)
  BY LeadsOn DEF StillUnanswered
<1> QED
  BY <1>1 DEF StillUnanswered, SamePlace

LEMMA HeadedUnanswered ==
  ASSUME NEW S, NEW R, NEW c, Base(c, S, R), ~c.pooled, NEW k \in BOOLEAN,
         NEW d, \/ d = Headed(c, k) \/ d = Kept(c, k) \/ d = Taken(c, 1)
                \/ d = Bodied(c)
  PROVE  Base(d, S, R) /\ ~d.pooled /\ StillUnanswered(c, d)
<1>1. Base(d, S, R) /\ Requests(c, d) /\ ~d.pooled
  BY RequestStepBase DEF RequestStep
<1>2. SameResponse(c, d) /\ d.done = c.done
  BY HeadedFields DEF Base, Typed
<1>3. Leads(c, d)
  BY <1>1, GroupsLead
<1> QED
  BY <1>1, <1>2, <1>3
  DEF StillUnanswered, Unanswered, Requests, SameResponse, SameWriter

LEMMA OnHttpCodeContinues ==
  ASSUME NEW S, NEW R, NEW c, Base(c, S, R), ~c.pooled,
         NEW d, d = OnHttpCode(c)
  PROVE  Continues(c, d)
<1> DEFINE e == Coded(c)
<1>1. d = Complete(e)
  BY DEF OnHttpCode, Coded
<1>2. \A a, b : RequestStep(c, e, a, b)
  BY DEF RequestStep
<1> HIDE DEF e
<1>3. Base(e, S, R) /\ Requests(c, e) /\ ~e.pooled
  BY <1>2, RequestStepBase
<1>4. Continues(e, d)
  BY <1>1, <1>3, CompleteContinues
<1> QED
  BY <1>3, <1>4, GroupsLead, LeadsOn

LEMMA IdleOffLeads ==
  ASSUME NEW c, Shape(c), IdleType(c), c.servlet, NEW d, d = IdleOff(c)
  PROVE  Rests(c, d) /\ SameReader(c, d)
<1>1. CASE ~c.idleOn
  <2>1. d = c
    BY <1>1 DEF IdleOff, SetIdleTimeout, IdleType
  <2> QED
    BY <2>1, WritesReflexive DEF SameReader
<1>2. CASE c.idleOn
  <2>1. d = WithNoIdle(c)
    BY <1>2 DEF IdleOff, SetIdleTimeout, WithNoIdle, IdleType
  <2> QED
    BY <2>1, NoIdleFields
<1> QED
  BY <1>1, <1>2

\* service() answers, or leaves the request to an asynchronous servlet.
LEMMA CallServiceContinues ==
  ASSUME NEW S, NEW R, NEW c, Base(c, S, R), ~c.pooled, Wait(c), c.servlet,
         NEW s \in ServiceCall, NEW f \in S \cup {NoPump},
         NEW d, d = CallService(c, s, f)
  PROVE  /\ KeepsFront(c, d)
         /\ (c.status = "RUNNING" => Unanswered(c)) =>
            (d.status = "RUNNING" => d.reads = c.reads /\ Unanswered(d))
<1> DEFINE i == IF s.idleOff THEN IdleOff(c) ELSE c
           o == Output(i, s.out, s.mode, f)
           a == o.async \/ s.async
           b == o.code \/ s.status
           e == Called(o, a, b)
<1>1. d = IF e.async THEN Undone(e) ELSE Done(Complete(e))
  BY DEF CallService, IdleOff, Called, Undone, Done
<1>2. s.out \in Outputs /\ s.mode \in Modes
  BY DEF ServiceCall
<1>3. Base(i, S, R) /\ Rests(c, i) /\ SameReader(c, i)
  BY IdleOffRests, IdleOffLeads, WritesReflexive DEF Base, Typed, SameReader
<1> HIDE DEF i
<1>4. ~i.pooled /\ Leads(c, i)
  BY <1>3, GroupsLead DEF Rests, SamePlace
<1>5. /\ Base(o, S, R) /\ Writes(i, o) /\ ~o.pooled
      /\ HeadersQueued(i) => HeadersQueued(o)
  BY <1>2, <1>3, <1>4, OutputWrites, OutputQueues
<1> HIDE DEF o
<1>6. /\ a \in BOOLEAN /\ (o.async => a)
      /\ RequestStep(o, e, a, b) /\ b \in BOOLEAN
  BY DEF RequestStep
<1>7. e.header = o.header /\ e.async = a
  BY <1>5, JudgedFields DEF Base, Typed
<1> HIDE DEF a, b, e
<1>8. Base(e, S, R) /\ Requests(o, e) /\ ~e.pooled
  BY <1>5, <1>6, RequestStepBase
<1>9. Leads(c, e)
  BY <1>4, <1>5, <1>8, GroupsLead, LeadsOn
<1>10. CASE e.async
  <2>1. d = Undone(e)
    BY <1>1, <1>10
  <2>2. \A u, v : RequestStep(e, d, u, v)
    BY <2>1 DEF RequestStep
  <2>3. Requests(e, d)
    BY <1>8, <2>2, RequestStepBase
  <2>4. SameResponse(e, d) /\ ~d.done
    BY <1>8, <2>1, JudgedFields DEF Base, Typed
  <2>5. Leads(c, d)
    BY <1>9, <2>3, GroupsLead, LeadsOn
  <2> QED
    BY <1>10, <2>4, <2>5 DEF Leads, KeepsFront, Unanswered, SameResponse
<1>11. CASE ~e.async
  <2> DEFINE g == Complete(e)
  <2>1. d = Done(g)
    BY <1>1, <1>11
  <2>2. Continues(e, g) /\ (HeadersQueued(e) => g.status # "RUNNING")
    BY <1>8, CompleteContinues
  <2>3. Shape(g)
    <3>1. Wait(e)
      <4>1. Wait(i)
        BY <1>3, RestsGood
      <4>2. Wait(o)
        BY <1>5, <4>1, WritesWait
      <4> QED
        BY <1>8, <4>2, RequestsWait
    <3>2. Good(g, S, R)
      BY <1>8, <3>1, CompleteGood
    <3> QED
      BY <3>2 DEF Good, Base, Typed
  <2> HIDE DEF g
  <2>4. SamePlace(g, d) /\ SameWriter(g, d)
    BY <2>1, <2>3, DoneFields
  <2>5. KeepsFront(c, d)
    <3>1. KeepsFront(c, g)
      BY <1>9, <2>2, LeadsOn DEF Continues
    <3> QED
      BY <2>4, <3>1 DEF KeepsFront, SameFront, SamePlace, SameWriter
  <2>6. CASE c.status # "RUNNING"
    BY <2>5, <2>6, CallServiceGood
  <2>7. CASE c.status = "RUNNING"
    <3>1. SUFFICES ASSUME Unanswered(c) PROVE d.status # "RUNNING"
      BY <2>5, <2>7
    <3>2. i.header = "none"
      BY <1>3, <1>5, <1>6, <1>7, <1>11, <3>1
      DEF Rests, SameResponse, Writes, Unanswered
    <3>3. HeadersQueued(e)
      BY <1>5, <1>7, <1>8, <3>2 DEF HeadersQueued, Requests, SameWriter
    <3> QED
      BY <2>2, <2>4, <3>3 DEF SamePlace
  <2> QED
    BY <2>6, <2>7
<1> QED
  BY <1>10, <1>11

\* The end of handleReadCompletionEvent.
LEMMA GoOnContinues ==
  ASSUME NEW S, NEW R, NEW c, Good(c, S, R), NEW d, d = GoOn(c)
  PROVE  /\ Good(d, S, R) /\ KeepsFront(c, d)
         /\ (c.status = "RUNNING" => c.code \/ Unanswered(c)) => Resumes(c, d)
<1>1. Good(d, S, R) /\ Moves(c, d)
  BY GoOnGood
<1>2. CASE c.pooled
  BY <1>1, <1>2, PooledContinues DEF Good, Moves, Continues
<1>3. CASE ~c.pooled /\ c.code
  BY <1>1, <1>3, OnHttpCodeContinues DEF GoOn, Good, Continues
<1>4. CASE ~c.pooled /\ ~c.code /\ c.done
  <2>1. d = c
    BY <1>4 DEF GoOn
  <2> QED
    BY <1>1, <1>4, <2>1 DEF KeepsFront, SameFront, Resumes, Unanswered
<1>5. CASE ~c.pooled /\ ~c.code /\ ~c.done
  <2>1. d = PrepareRead(c)
    BY <1>5 DEF GoOn
  <2>2. KeepsFront(c, d) /\ (Unanswered(c) => Resumes(c, d))
    BY <1>5, <2>1, PrepareReadContinues DEF Good
  <2>3. d.status = c.status
    BY <2>1, PrepareReadRests DEF Good, Rests, SamePlace
  <2> QED
    BY <1>1, <1>5, <2>2, <2>3 DEF Resumes
<1> QED
  BY <1>2, <1>3, <1>4, <1>5

\* What reading begins with: the idle timer is off, the rest is as it was.
LEMMA StopTimeoutUnanswered ==
  ASSUME NEW S, NEW R, NEW c, Base(c, S, R), NEW d, d = StopTimeoutEv(c)
  PROVE  StillUnanswered(c, d)
<1>1. Rests(c, d) /\ SameReader(c, d)
  <2>1. d = c \/ d = WithIdle(c, 0)
    BY DEF StopTimeoutEv, WithIdle
  <2> QED
    BY <2>1, NoTimeoutRests, WritesReflexive DEF SameReader
<1>2. Leads(c, d) /\ SamePlace(c, d)
  BY <1>1, GroupsLead DEF Rests
<1> QED
  BY <1>1, <1>2, RestsUnanswered DEF StillUnanswered

LEMMA WithHeadersUnanswered ==
  ASSUME NEW S, NEW R, NEW c, Base(c, S, R), ~c.pooled,
         NEW keep \in BOOLEAN, NEW d, d = WithHeaders(c, keep)
  PROVE  StillUnanswered(c, d)
<1> DEFINE e == Headed(c, keep)
<1>1. d = GetServlet(e)
  BY DEF WithHeaders, Headed
<1>2. Base(e, S, R) /\ ~e.pooled /\ StillUnanswered(c, e)
  BY HeadedUnanswered
<1> HIDE DEF e
<1>3. CASE e.servlet
  BY <1>1, <1>2, <1>3 DEF GetServlet
<1>4. CASE ~e.servlet
  <2>1. d = Taken(e, e.live + 1)
    BY <1>1, <1>4 DEF GetServlet, Taken
  <2>2. e.live + 1 = 1
    BY <1>2, <1>4 DEF Base, Typed, ServletType
  <2>3. d = Taken(e, 1)
    BY <2>1, <2>2
  <2>4. StillUnanswered(e, d)
    BY <1>2, <2>3, HeadedUnanswered
  <2> QED
    BY <1>2, <2>4, StillUnansweredOn
<1> QED
  BY <1>3, <1>4

\* The request up to its body; a servlet that writes early answers.
LEMMA BodyBeginsUnanswered ==
  ASSUME NEW S, NEW R, NEW c, Good(c, S, R), ~c.pooled,
         NEW keep \in BOOLEAN, NEW early \in BOOLEAN,
         NEW d, d = BodyOutput(WithHeaders(StopTimeoutEv(c), keep), early)
  PROVE  /\ SamePlace(c, d) /\ Leads(c, d)
         /\ ~early => StillUnanswered(c, d)
<1> DEFINE e == StopTimeoutEv(c)
           g == WithHeaders(e, keep)
           m == "length"
<1>0. d = BodyOutput(g, early)
  OBVIOUS
<1>1. Good(e, S, R) /\ ~e.pooled /\ StillUnanswered(c, e)
  BY ReadBegins, StopTimeoutUnanswered DEF Good
<1> HIDE DEF e
<1>2. Base(g, S, R) /\ ~g.pooled /\ StillUnanswered(e, g)
  BY <1>1, WithHeadersBase, WithHeadersUnanswered DEF Good
<1>3. d = IF early THEN FlushBuffer(g, m) ELSE g
  BY <1>0 DEF BodyOutput
<1>4. m \in Modes
  BY DEF Modes
<1> HIDE DEF g, m
<1>5. StillUnanswered(c, g)
  BY <1>1, <1>2, StillUnansweredOn
<1>6. CASE early
  <2>1. Writes(g, d)
    BY <1>2, <1>3, <1>4, <1>6, FlushBufferWrites
  <2>2. Leads(c, d)
    BY <1>5, <2>1, GroupsLead, LeadsOn DEF StillUnanswered
  <2> QED
    BY <1>5, <1>6, <2>1, <2>2 DEF StillUnanswered, Writes, SamePlace
<1>7. CASE ~early
  BY <1>3, <1>5, <1>7 DEF StillUnanswered
<1> QED
  BY <1>6, <1>7

\* What reading ends with: the request that was read is popped.
LEMMA ReadEndsHearing ==
  ASSUME NEW S, NEW R, NEW c, c.reads \in Nat, NEW e, Leads(c, e),
         NEW g, Base(g, S, R), KeepsFront(e, g), NEW d, d = PopEntry(g)
  PROVE  /\ KeepsFront(c, d)
         /\ c.reads > 0 /\ Resumes(e, g) => Hears(d)
<1> DEFINE n == g.reads - 1
           w == g.reads > 1
<1>1. CASE g.reads = 0
  <2>1. d = g
    BY <1>1 DEF PopEntry
  <2> QED
    BY <1>1, <2>1, LeadsOn DEF Resumes, Hears, Leads
<1>2. CASE g.reads # 0
  <2>1. d = WithReads(g, n, w)
    BY <1>2 DEF PopEntry, WithReads
  <2>2. /\ g.reads = c.reads + 1 /\ c.reads > 0 => n > 0 /\ w
    OBVIOUS
  <2> HIDE DEF n, w
  <2>3. Rests(g, d) /\ SameIdle(g, d) /\ d.reads = n /\ d.watch = w
    BY <2>1, ReadsFields DEF Base, Typed
  <2>4. KeepsFront(c, d)
    <3>1. KeepsFront(c, g)
      BY LeadsOn
    <3> QED
      BY <2>3, <3>1, GroupsLead
      DEF KeepsFront, SameFront, Rests, SamePlace, SameWriter
  <2>5. ASSUME c.reads > 0, Resumes(e, g), d.status = "RUNNING"
        PROVE  d.reads > 0 /\ Armed(d) /\ Unanswered(d)
    <3>1. g.status = "RUNNING"
      BY <2>3, <2>5 DEF Rests, SamePlace
    <3>2. g.reads = c.reads + 1 /\ Armed(g) /\ Unanswered(g)
      BY <2>5, <3>1 DEF Resumes, Leads
    <3>3. Unanswered(d)
      BY <2>3, <3>2, RestsUnanswered
    <3> QED
      BY <2>2, <2>3, <2>5, <3>2, <3>3 DEF Armed, SameIdle
  <2> QED
    BY <2>4, <2>5 DEF Hears
<1> QED
  BY <1>1, <1>2

-----------------------------------------------------------------------------
(* Write completions                                                       *)

\* Output of a RUNNING handler is that of an asynchronous servlet.
HearsAsync(c) ==
  c.status = "RUNNING" => c.reads > 0 /\ Armed(c) /\ ~c.done /\ c.async

LEMMA AsyncHears ==
  ASSUME NEW c, HearsAsync(c)
  PROVE  Hears(c)
BY DEF HearsAsync, Hears, Unanswered

LEMMA AsyncWrites ==
  ASSUME NEW c, NEW d, HearsAsync(c), Writes(c, d)
  PROVE  HearsAsync(d)
BY DEF HearsAsync, Writes, Armed, SamePlace, SameReader, SameIdle, SameRequest

LEMMA StartTimeoutHears ==
  ASSUME NEW S, NEW R, NEW c, Base(c, S, R), Hears(c),
         NEW d, d = StartTimeoutEv(c)
  PROVE  Hears(d)
<1>1. CASE ~c.idleOn \/ c.pooled
  <2>1. d = c \/ d.status = "STOP"
    BY <1>1, StartTimeoutEvRests
    DEF StartTimeoutEv, Base, Closed, Rests, SamePlace
  <2> QED
    BY <2>1 DEF Hears
<1>2. CASE c.idleOn /\ ~c.pooled
  <2> DEFINE k == c.conn
  <2>1. d = WithIdle(c, k) /\ k # 0
    BY <1>2 DEF StartTimeoutEv, WithIdle, Base, Opened, Conns
  <2> HIDE DEF k
  <2>2. Rests(c, d) /\ SameReader(c, d) /\ d.idle = k
    BY <2>1, IdleFields DEF Base, Typed
  <2>3. (Unanswered(c) => Unanswered(d)) /\ d.status = c.status
    BY <2>2, RestsUnanswered DEF Rests, SamePlace
  <2> QED
    BY <2>1, <2>2, <2>3 DEF Hears, Armed, SameReader
<1> QED
  BY <1>1, <1>2

LEMMA OnWriteQueueEmptyHears ==
  ASSUME NEW S, NEW R, NEW c, Base(c, S, R), ~c.pooled, HearsAsync(c),
         NEW react \in Reactions, NEW d, d = OnWriteQueueEmpty(c, react)
  PROVE  Hears(d)
<1>1. CASE d = c
  BY <1>1, AsyncHears
<1>2. CASE d # c /\ react = "write"
  <2> DEFINE m == "length"
             e == Buffered(c)
  <2>1. d = FlushBuffer(e, m)
    BY <1>2 DEF OnWriteQueueEmpty, Buffered, Reactions
  <2>2. m \in Modes
    BY DEF Modes
  <2>3. Base(e, S, R) /\ Writes(c, e) /\ ~e.pooled
    BY ResponseWrites DEF Modes
  <2> HIDE DEF m, e
  <2>4. Writes(e, d)
    BY <2>1, <2>2, <2>3, FlushBufferWrites
  <2> QED
    BY <2>3, <2>4, AsyncWrites, AsyncHears
<1>3. CASE d # c /\ react = "complete"
  <2>1. d = Complete(c)
    BY <1>3 DEF OnWriteQueueEmpty, Reactions
  <2>2. Continues(c, d)
    BY <2>1, CompleteContinues
  <2>3. c.reads \in Nat
    BY DEF Base, Typed, ReaderType
  <2> QED
    BY <2>2, <2>3, ResumedHears DEF Continues
<1>4. d = c \/ react \in {"write", "complete"}
  BY DEF OnWriteQueueEmpty, Reactions
<1> QED
  BY <1>1, <1>2, <1>3, <1>4

LEMMA HandleWriteHears ==
  ASSUME NEW S, NEW R, NEW c, Base(c, S, R), Answered(c), Fresh(c),
         HearsAsync(c),
         NEW react \in Reactions, NEW d, d = HandleWrite(c, react)
  PROVE  Hears(d)
<1>1. CASE d = c
  BY <1>1, AsyncHears
<1>2. CASE c.status = "STOP"
  <2>1. d = c
    BY <1>2 DEF HandleWrite, StopWrite, Base, Closed, Opened
  <2> QED
    BY <1>1, <2>1
<1>3. CASE d # c /\ c.status = "STOPPING"
  BY <1>3, StopHandlerContinues DEF HandleWrite
<1>4. CASE d # c /\ c.status = "CLEANING"
  <2>1. d = Clean(c) /\ ~c.pooled
    BY <1>4 DEF HandleWrite, Base, Closed
  <2>2. Continues(c, d)
    BY <2>1, CleanContinues
  <2>3. c.reads \in Nat
    BY DEF Base, Typed, ReaderType
  <2> QED
    BY <2>2, <2>3, ResumedHears DEF Continues
<1>5. CASE d # c /\ c.status = "RUNNING"
  <2> DEFINE g == OnWriteQueueEmpty(c, react)
  <2>1. /\ d = StartTimeoutEv(g) /\ ~c.pooled /\ c.queue = <<>>
    BY <1>5 DEF HandleWrite, Base, Closed
  <2>2. Good(c, S, R)
    BY <1>5 DEF Good, Wait, HasOutput
  <2>3. Good(g, S, R)
    BY <1>5, <2>2, OnWriteQueueEmptyGood
  <2>4. Hears(g)
    BY <2>1, OnWriteQueueEmptyHears
  <2> HIDE DEF g
  <2> QED
    BY <2>1, <2>3, <2>4, StartTimeoutHears DEF Good
<1>6. c.status \in Statuses \ {"ANSWERING"}
  BY DEF Base, Typed, PlaceType, Answered
<1> QED
  BY <1>1, <1>2, <1>3, <1>4, <1>5, <1>6 DEF Statuses

LEMMA PopFrontHears ==
  ASSUME NEW S, NEW R, NEW c, Good(c, S, R), c.queue # <<>>, Hears(c), NEW Q,
         NEW react \in Reactions, NEW d, d = PopFront(c, react)
  PROVE  Hears(d)
<1> DEFINE e == WithQueue(c, Tail(c.queue), Len(c.queue) > 1)
<1>1. d = IF e.queue = <<>> THEN HandleWrite(e, react) ELSE e
  BY DEF PopFront, WithQueue
<1>2. /\ Base(e, S, Q) /\ Answered(e) /\ Fresh(e)
      /\ SamePlace(c, e) /\ SameReader(c, e) /\ SameIdle(c, e)
      /\ SameRequest(c, e) /\ SameResponse(c, e)
  BY PoppedBase DEF Good, Wait
<1> HIDE DEF e
<1>3. HearsAsync(e)
  BY <1>2 DEF Hears, HearsAsync, Armed, Unanswered, SamePlace, SameReader,
     SameIdle, SameRequest, SameResponse
<1> QED
  BY <1>1, <1>2, <1>3, HandleWriteHears, AsyncHears

\* A pump whose block is in front never meets an empty queue.
LEMMA OnSentHears ==
  ASSUME NEW S, NEW R, NEW c, Good(c, S, R), c.queue # <<>>,
         Head(c.queue).pump # NoPump, Hears(c),
         NEW ev \in Events, NEW react \in Reactions, NEW d, d = OnSent(c, ev, react)
  PROVE  /\ Hears(d)
         /\ ev \in {"some", "again"} => d = c
<1>1. HandleWrite(c, react) = c
  BY DEF HandleWrite, StopWrite, Good, Base, Opened, Closed
<1>2. CASE ev \in {"some", "again"}
  <2>1. d = c
    BY <1>1, <1>2 DEF OnSent, HandleTransport
  <2> QED
    BY <2>1
<1>3. CASE ev \in {"last", "end"}
  <2>1. d = PopFront(c, react)
    BY <1>1, <1>3 DEF OnSent, HandleTransport
  <2> QED
    BY <1>3, <2>1, PopFrontHears
<1>4. CASE ev = "error"
  <2>1. d = Error(c)
    BY <1>4 DEF OnSent, HandleTransport
  <2>2. Base(d, S, R) /\ d.pooled
    BY <2>1, ErrorGood DEF Good
  <2> QED
    BY <1>4, <2>2, PooledContinues
<1> QED
  BY <1>2, <1>3, <1>4 DEF Events

-----------------------------------------------------------------------------
(* The steps                                                               *)

\* A pump that runs is the block in front of the queue of its owner.
PumpInFront ==
  \A f \in Files : pump[f].st = "RUNNING" =>
     LET q == h[pump[f].own].queue IN q # <<>> /\ Head(q).pump = f

Hearing == \A x \in all : Hears(h[x])

\* No pump starts, and one that goes on has not changed.
OldPumps == \A f \in Files : pump'[f].st = "RUNNING" => pump'[f] = pump[f]

\* A step of the handler x to the state d: every pump that runs afterwards is
\* the block in front still, and the handler hears still.
FrontStep(x, d) ==
  /\ x \in all /\ h' = [h EXCEPT ![x] = d] /\ all' = all
  /\ \A f \in Files : pump'[f].st = "RUNNING" =>
       \/ /\ pump'[f] = pump[f]
          /\ pump[f].own # x \/ KeepsFront(h[x], d)
       \/ pump'[f].own = x /\ d.queue # <<>> /\ Head(d.queue).pump = f
  /\ ~EarlyOutput /\ Hears(h[x]) => Hears(d)

\* What a step must give for both invariants.
FrontsStay ==
  /\ PumpsEndWithConnections' => PumpInFront'
  /\ ~EarlyOutput /\ Hearing => Hearing'

LEMMA FrontStepStays ==
  ASSUME IInv, PumpInFront, NEW x, NEW d, FrontStep(x, d)
  PROVE  FrontsStay
<1>1. /\ h'[x] = d /\ \A y \in all \ {x} : h'[y] = h[y]
      /\ all' = all /\ x \in all
  BY DEF FrontStep, IInv, TypeOK
<1>2. ASSUME PumpsEndWithConnections', NEW f \in Files, pump'[f].st = "RUNNING"
      PROVE  LET q == h'[pump'[f].own].queue IN q # <<>> /\ Head(q).pump = f
  <2>1. ~h'[pump'[f].own].pooled
    BY <1>2 DEF PumpsEndWithConnections
  <2>2. CASE pump'[f].own = x /\ d.queue # <<>> /\ Head(d.queue).pump = f
    BY <1>1, <2>2
  <2>3. CASE /\ pump'[f] = pump[f]
             /\ pump[f].own # x \/ KeepsFront(h[x], d)
    <3>1. /\ pump[f].own \in all
          /\ h[pump[f].own].queue # <<>> /\ Head(h[pump[f].own].queue).pump = f
      BY <1>2, <2>3 DEF IInv, PumpsInv, PumpInFront
    <3>2. CASE pump[f].own # x
      BY <1>1, <2>3, <3>1, <3>2
    <3>3. CASE pump[f].own = x
      <4>1. SameFront(h[x], d)
        BY <1>1, <2>1, <2>3, <3>3 DEF KeepsFront
      <4> QED
        BY <1>1, <2>3, <3>1, <3>3, <4>1 DEF SameFront
    <3> QED
      BY <3>2, <3>3
  <2> QED
    BY <1>2, <2>2, <2>3 DEF FrontStep
<1>3. PumpsEndWithConnections' => PumpInFront'
  BY <1>2 DEF PumpInFront
<1>4. ~EarlyOutput /\ Hearing => Hearing'
  BY <1>1 DEF Hearing, FrontStep
<1> QED
  BY <1>3, <1>4 DEF FrontsStay

LEMMA PumpsStayOld ==
  /\ UNCHANGED pump => OldPumps
  /\ \A x, f : IInv /\ f \in Files \cup {NoPump} /\ CreatePump(x, f) => OldPumps
<1>1. UNCHANGED pump => OldPumps
  BY DEF OldPumps
<1>2. ASSUME IInv, NEW x, NEW f \in Files \cup {NoPump}, CreatePump(x, f)
      PROVE  OldPumps
  <2>1. CASE UNCHANGED pump
    BY <1>1, <2>1
  <2>2. CASE f # NoPump
    <3> DEFINE p == [st |-> "NEW", fd |-> h[x].fd, own |-> x, conn |-> h[x].conn]
    <3>1. pump' = [pump EXCEPT ![f] = p]
      BY <1>2, <2>2 DEF CreatePump
    <3>2. p.st = "NEW"
      OBVIOUS
    <3> HIDE DEF p
    <3> QED
      BY <3>1, <3>2 DEF IInv, TypeOK, OldPumps
  <2> QED
    BY <1>2, <2>1, <2>2 DEF CreatePump
<1> QED
  BY <1>1, <1>2

LEMMA QuietFront ==
  ASSUME IInv, NEW x \in all, NEW d, h' = [h EXCEPT ![x] = d], all' = all,
         OldPumps, KeepsFront(h[x], d),
         ~EarlyOutput /\ Hears(h[x]) => Hears(d)
  PROVE  FrontStep(x, d)
BY DEF FrontStep, OldPumps

\* A step that ends with error() recycles the handler.
LEMMA PooledFront ==
  ASSUME IInv, NEW x \in all, NEW d, h' = [h EXCEPT ![x] = d],
         UNCHANGED <<all, pump>>, NEW S, NEW R, Base(d, S, R), d.pooled
  PROVE  FrontStep(x, d)
<1>1. KeepsFront(h[x], d) /\ Hears(d)
  BY PooledContinues DEF Continues
<1> QED
  BY <1>1, QuietFront, PumpsStayOld

\* Reading: from the state e, through the handling that leaves g.
LEMMA ReadFront ==
  ASSUME IInv, NEW x \in Handlers, OldPumps, NEW e, Leads(h[x], e),
         NEW S, NEW R, NEW g, ReadBytes(x, g), Base(g, S, R), KeepsFront(e, g),
         ~EarlyOutput /\ Hears(h[x]) /\ h[x].reads > 0 => Resumes(e, g)
  PROVE  \E d : FrontStep(x, d)
<1> DEFINE d == PopEntry(g)
<1>1. x \in all /\ ~h[x].pooled
  BY OnlyOpenAct DEF ReadBytes
<1>2. h[x].reads \in Nat /\ h[x].reads > 0
  BY <1>1, HandlerFacts DEF ReadBytes, Base, Typed, ReaderType
<1>3. KeepsFront(h[x], d) /\ (Resumes(e, g) => Hears(d))
  BY <1>2, ReadEndsHearing
<1>4. h' = [h EXCEPT ![x] = d] /\ all' = all
  BY DEF ReadBytes, Becomes
<1> HIDE DEF d
<1>5. FrontStep(x, d)
  BY <1>1, <1>2, <1>3, <1>4, QuietFront
<1> QED
  BY <1>5

\* What holds of the handler when it begins to read.
LEMMA ReadBeginsFront ==
  ASSUME IInv, NEW x \in Handlers, h[x].watch, NEW e, e = StopTimeoutEv(h[x])
  PROVE  /\ x \in all /\ ~h[x].pooled
         /\ Good(e, Own(x), Running) /\ ~e.pooled
         /\ StillUnanswered(h[x], e)
         /\ Hears(h[x]) => (e.status = "RUNNING" => Unanswered(e))
<1>1. x \in all /\ ~h[x].pooled
  BY OnlyOpenAct
<1>2. Good(e, Own(x), Running) /\ ~e.pooled
  BY <1>1, HandlerFacts, ReadBegins
<1>3. StillUnanswered(h[x], e)
  BY <1>1, HandlerFacts, StopTimeoutUnanswered
<1> QED
  BY <1>1, <1>2, <1>3 DEF StillUnanswered, SamePlace, Hears

LEMMA ReadWithStatusFront ==
  ASSUME IInv, NEW x \in Handlers, ReadWithStatus(x)
  PROVE  \E d : FrontStep(x, d)
<1> DEFINE e == StopTimeoutEv(h[x])
           g == OnHttpCode(e)
<1>1. ReadBytes(x, g) /\ OldPumps
  BY PumpsStayOld DEF ReadWithStatus
<1>2. h[x].watch
  BY <1>1 DEF ReadBytes
<1>3. Good(e, Own(x), Running) /\ ~e.pooled /\ Leads(h[x], e)
  BY <1>2, ReadBeginsFront DEF StillUnanswered
<1> HIDE DEF e
<1>4. Good(g, Own(x), Running) /\ Continues(e, g)
  BY <1>3, OnHttpCodeGood, OnHttpCodeContinues DEF Good
<1> HIDE DEF g
<1> QED
  BY <1>1, <1>3, <1>4, ReadFront DEF Good, Continues

LEMMA ReadHeadFront ==
  ASSUME IInv, NEW x \in Handlers, ReadHead(x)
  PROVE  \E d : FrontStep(x, d)
<1> DEFINE e == StopTimeoutEv(h[x])
           g == GoOn(e)
<1>1. ReadBytes(x, g) /\ OldPumps
  BY PumpsStayOld DEF ReadHead
<1>2. h[x].watch
  BY <1>1 DEF ReadBytes
<1>3. /\ Good(e, Own(x), Running) /\ Leads(h[x], e)
      /\ Hears(h[x]) => (e.status = "RUNNING" => Unanswered(e))
  BY <1>2, ReadBeginsFront DEF StillUnanswered
<1> HIDE DEF e
<1>4. /\ Good(g, Own(x), Running) /\ KeepsFront(e, g)
      /\ Hears(h[x]) => Resumes(e, g)
  BY <1>3, GoOnContinues
<1> HIDE DEF g
<1> QED
  BY <1>1, <1>3, <1>4, ReadFront DEF Good

LEMMA ReadBadHeadFront ==
  ASSUME IInv, NEW x \in Handlers, NEW keep \in BOOLEAN, ReadBadHead(x, keep)
  PROVE  \E d : FrontStep(x, d)
<1> DEFINE b == StopTimeoutEv(h[x])
           e == Kept(b, keep)
           g == OnHttpCode(e)
<1>1. ReadBytes(x, g) /\ OldPumps
  BY PumpsStayOld DEF ReadBadHead, Kept
<1>2. h[x].watch
  BY <1>1 DEF ReadBytes
<1>3. Good(b, Own(x), Running) /\ ~b.pooled /\ StillUnanswered(h[x], b)
  BY <1>2, ReadBeginsFront
<1> HIDE DEF b
<1>4. /\ Base(e, Own(x), Running) /\ ~e.pooled /\ StillUnanswered(b, e)
      /\ Wait(e)
  <2>1. \A u : RequestStep(b, e, keep, u)
    BY DEF RequestStep
  <2> HIDE DEF e
  <2>2. Wait(e)
    BY <1>3, <2>1, RequestStepBase, RequestsWait DEF Good
  <2> QED
    BY <1>3, <2>2, HeadedUnanswered DEF Good, e
<1> HIDE DEF e
<1>5. Leads(h[x], e)
  BY <1>3, <1>4, StillUnansweredOn DEF StillUnanswered
<1>6. Good(g, Own(x), Running) /\ Continues(e, g)
  BY <1>4, OnHttpCodeGood, OnHttpCodeContinues
<1> HIDE DEF g
<1> QED
  BY <1>1, <1>5, <1>6, ReadFront DEF Good, Continues

LEMMA ReadBodyFront ==
  ASSUME IInv, NEW x \in Handlers, NEW keep \in BOOLEAN,
         NEW refused \in BOOLEAN, NEW early \in BOOLEAN,
         ReadBody(x, keep, refused, early)
  PROVE  \E d : FrontStep(x, d)
<1> DEFINE b == BodyOutput(WithHeaders(StopTimeoutEv(h[x]), keep), early)
           e == Judged(b, refused)
           g == GoOn(e)
<1>1. ReadBytes(x, g) /\ OldPumps /\ (~EarlyOutput => ~early)
  BY PumpsStayOld DEF ReadBody, Judged
<1>2. x \in all /\ ~h[x].pooled
  BY <1>1, OnlyOpenAct DEF ReadBytes
<1>3. /\ Base(b, Own(x), Running) /\ ~b.pooled /\ Wait(b) /\ b.servlet
      /\ SamePlace(h[x], b) /\ Leads(h[x], b)
      /\ ~EarlyOutput => StillUnanswered(h[x], b)
  BY <1>1, <1>2, HandlerFacts, BodyBegins, BodyBeginsUnanswered
<1> HIDE DEF b
<1>4. /\ RequestStep(b, e, refused, refused)
      /\ SameResponse(b, e) /\ e.done = refused /\ e.code = refused
  BY <1>3, JudgedFields DEF RequestStep, Base, Typed
<1> HIDE DEF e
<1>5. Base(e, Own(x), Running) /\ Requests(b, e) /\ ~e.pooled
  BY <1>3, <1>4, RequestStepBase
<1>6. Wait(e) /\ SamePlace(b, e) /\ e.servlet
  BY <1>3, <1>5, RequestsWait
<1>7. Good(e, Own(x), Running)
  BY <1>5, <1>6 DEF Good, Fresh
<1>8. Leads(h[x], e)
  BY <1>3, <1>5, GroupsLead, LeadsOn
<1>9. ASSUME ~EarlyOutput, Hears(h[x]), e.status = "RUNNING"
      PROVE  e.code \/ Unanswered(e)
  <2>1. Unanswered(b)
    BY <1>3, <1>6, <1>9 DEF Hears, StillUnanswered, SamePlace
  <2> QED
    BY <1>4, <1>5, <2>1 DEF Unanswered, Requests, SameResponse, SameWriter
<1>10. /\ Good(g, Own(x), Running) /\ KeepsFront(e, g)
       /\ ~EarlyOutput /\ Hears(h[x]) => Resumes(e, g)
  BY <1>7, <1>9, GoOnContinues
<1> HIDE DEF g
<1> QED
  BY <1>1, <1>8, <1>10, ReadFront DEF Good

\* A handler that is over stays over to the end of the read.
LEMMA GoOnStays ==
  ASSUME NEW S, NEW R, NEW c, Good(c, S, R), c.status # "RUNNING",
         NEW d, d = GoOn(c)
  PROVE  d.status # "RUNNING" /\ (c.pooled => d.pooled)
<1>1. Good(d, S, R) /\ Moves(c, d)
  BY GoOnGood
<1>2. CASE c.pooled
  BY <1>1, <1>2 DEF Good, Base, Closed, Moves
<1>3. CASE ~c.pooled /\ c.code
  <2> DEFINE e == Coded(c)
  <2>1. d = Complete(e)
    BY <1>3 DEF GoOn, OnHttpCode, Coded
  <2>2. \A a, b : RequestStep(c, e, a, b)
    BY DEF RequestStep
  <2> HIDE DEF e
  <2>3. Base(e, S, R) /\ Requests(c, e) /\ ~e.pooled
    BY <1>3, <2>2, RequestStepBase DEF Good
  <2>4. Wait(e) /\ SamePlace(c, e)
    BY <2>3, RequestsWait DEF Good
  <2>5. e.status # "RUNNING" => d.status = e.status
    BY <2>1, <2>3, <2>4, CompleteGood
  <2> QED
    BY <1>3, <2>4, <2>5 DEF SamePlace
<1>4. CASE ~c.pooled /\ ~c.code
  <2>1. d = c \/ d = PrepareRead(c)
    BY <1>4 DEF GoOn
  <2> QED
    BY <1>4, <2>1, PrepareReadRests DEF Good, Rests, SamePlace
<1> QED
  BY <1>2, <1>3, <1>4

LEMMA ReadRequestFront ==
  ASSUME IInv, NEW x \in Handlers, NEW keep \in BOOLEAN,
         NEW early \in BOOLEAN, NEW s \in Service,
         NEW f \in Files \cup {NoPump}, ReadRequest(x, keep, early, s, f)
  PROVE  \E d : FrontStep(x, d)
<1> DEFINE b == BodyOutput(WithHeaders(StopTimeoutEv(h[x]), keep), early)
           e == Bodied(b)
           r == CallService(e, s, f)
           g == GoOn(r)
           T == NextOwn(x)
           Q == Running'
<1>1. ReadBytes(x, g) /\ CreatePump(x, f) /\ (~EarlyOutput => ~early)
  BY DEF ReadRequest, Bodied
<1>2. x \in all /\ ~h[x].pooled
  BY <1>1, OnlyOpenAct DEF ReadBytes
<1>3. /\ f \in T \cup {NoPump}
      /\ Good(h[x], T, Q) /\ OldPumps
  BY <1>1, <1>2, CreatePumpOwns, PumpsStayOld DEF ReadBytes
<1> HIDE DEF T, Q
<1>4. /\ Base(b, T, Q) /\ ~b.pooled /\ Wait(b) /\ b.servlet
      /\ SamePlace(h[x], b) /\ Leads(h[x], b)
      /\ ~EarlyOutput => StillUnanswered(h[x], b)
  BY <1>1, <1>2, <1>3, BodyBegins, BodyBeginsUnanswered
<1> HIDE DEF b
<1>5. /\ Base(e, T, Q) /\ ~e.pooled /\ StillUnanswered(b, e)
      /\ Wait(e) /\ e.servlet
  <2>1. Base(e, T, Q) /\ ~e.pooled /\ StillUnanswered(b, e)
    <3>1. TRUE \in BOOLEAN
      OBVIOUS
    <3> QED
      BY <1>4, <3>1, HeadedUnanswered
  <2>2. \A u, v : RequestStep(b, e, u, v)
    BY DEF RequestStep
  <2> HIDE DEF e
  <2>3. Requests(b, e)
    BY <1>4, <2>2, RequestStepBase
  <2> QED
    BY <1>4, <2>1, <2>3, RequestsWait
<1> HIDE DEF e
<1>6. Leads(h[x], e)
  BY <1>4, <1>5, LeadsOn DEF StillUnanswered
<1>7. ASSUME ~EarlyOutput, Hears(h[x]), e.status = "RUNNING"
      PROVE  Unanswered(e)
  BY <1>4, <1>5, <1>7 DEF Hears, StillUnanswered, SamePlace
<1>8. /\ Good(r, T, Q) /\ KeepsFront(e, r)
      /\ (e.status = "RUNNING" => Unanswered(e)) =>
         (r.status = "RUNNING" => r.reads = e.reads /\ Unanswered(r))
  BY <1>3, <1>5, ServiceAssumption, CallServiceGood, CallServiceContinues
<1> HIDE DEF r
<1>9. /\ Good(g, T, Q) /\ KeepsFront(r, g)
      /\ (r.status = "RUNNING" => r.code \/ Unanswered(r)) => Resumes(r, g)
      /\ r.status # "RUNNING" => g.status # "RUNNING"
      /\ r.pooled => g.pooled
  <2>1. r.pooled => r.status # "RUNNING"
    BY <1>8 DEF Good, Base, Closed
  <2> QED
    BY <1>8, <2>1, GoOnContinues, GoOnStays
<1> HIDE DEF g
<1>10. KeepsFront(e, g)
  BY <1>8, <1>9 DEF KeepsFront, SameFront
<1>11. ~EarlyOutput /\ Hears(h[x]) => Resumes(e, g)
  BY <1>7, <1>8, <1>9 DEF Resumes
<1> QED
  BY <1>1, <1>3, <1>6, <1>9, <1>10, <1>11, ReadFront DEF Good

LEMMA ReadEndFront ==
  ASSUME IInv, NEW x \in Handlers, ReadEnd(x)
  PROVE  \E d : FrontStep(x, d)
<1> DEFINE e == StopTimeoutEv(h[x])
           g == Error(e)
<1>1. h[x].watch
  BY DEF ReadEnd
<1>2. x \in all /\ Good(e, Own(x), Running)
  BY <1>1, ReadBeginsFront
<1>3. h' = [h EXCEPT ![x] = ReaderClose(g)] /\ UNCHANGED <<all, pump>>
  BY DEF ReadEnd, Becomes
<1> HIDE DEF e
<1>4. Base(g, Own(x), Running) /\ g.pooled
  BY <1>2, ErrorGood DEF Good
<1> HIDE DEF g
<1>5. ReaderClose(g) = g
  BY <1>4 DEF ReaderClose, Base, Closed
<1>6. FrontStep(x, g)
  BY <1>2, <1>3, <1>4, <1>5, PooledFront
<1> QED
  BY <1>6

-----------------------------------------------------------------------------

LEMMA TimerOffFields ==
  ASSUME NEW c, Shape(c), NEW d, d = TimerOff(c)
  PROVE  /\ Shape(d) /\ SamePlace(c, d) /\ SameReader(c, d) /\ SameIdle(c, d)
         /\ SameRequest(c, d) /\ SameResponse(c, d) /\ d.queue = c.queue
BY DEF TimerOff, Shape, FieldNames, SamePlace, SameReader, SameIdle,
       SameRequest, SameResponse

\* The timer fires: the block in front is taken up.
LEMMA TimerOffHears ==
  ASSUME IInv, NEW x \in Handlers, h[x].queue # <<>>,
         NEW e, e = TimerOff(h[x]),
         NEW Q, Head(h[x].queue).pump \in Q
  PROVE  /\ x \in all /\ ~h[x].pooled
         /\ Good(e, Own(x), Q) /\ e.queue = h[x].queue
         /\ Hears(h[x]) => Hears(e)
<1>1. x \in all /\ ~h[x].pooled
  BY OnlyOpenAct
<1>2. Good(h[x], Own(x), Running) /\ Shape(h[x])
  BY <1>1, HandlerFacts DEF Base, Typed
<1>3. Good(e, Own(x), Q)
  BY <1>2, TimerOffGood
<1>4. /\ SamePlace(h[x], e) /\ SameReader(h[x], e) /\ SameIdle(h[x], e)
      /\ SameRequest(h[x], e) /\ SameResponse(h[x], e) /\ e.queue = h[x].queue
  BY <1>2, TimerOffFields
<1>5. Hears(h[x]) => Hears(e)
  BY <1>4 DEF Hears, Armed, Unanswered, SamePlace, SameReader, SameIdle,
     SameRequest, SameResponse
<1> QED
  BY <1>1, <1>3, <1>4, <1>5

\* While a block of bytes is in front, no pump runs for that handler.
LEMMA WriteFrontFront ==
  ASSUME IInv, PumpInFront, NEW x \in Handlers, NEW react \in Reactions,
         WriteFront(x, react)
  PROVE  \E d : FrontStep(x, d)
<1> DEFINE e == TimerOff(h[x])
           d == PopFront(e, react)
           Q == Running \cup {Head(h[x].queue).pump}
<1>1. /\ h[x].queue # <<>> /\ Head(h[x].queue).pump = NoPump
      /\ h' = [h EXCEPT ![x] = d] /\ UNCHANGED <<all, pump>>
  BY DEF WriteFront, Becomes, TimerOff
<1>2. Head(h[x].queue).pump \in Q
  OBVIOUS
<1> HIDE DEF Q
<1>3. /\ x \in all /\ Good(e, Own(x), Q) /\ e.queue = h[x].queue
      /\ Hears(h[x]) => Hears(e)
  BY <1>1, <1>2, TimerOffHears
<1> HIDE DEF e
<1>4. Hears(h[x]) => Hears(d)
  BY <1>1, <1>3, PopFrontHears
<1> HIDE DEF d
<1>5. \A f \in Files : pump[f].st = "RUNNING" => pump[f].own # x
  BY <1>1, NoneAssumption DEF PumpInFront
<1>6. FrontStep(x, d)
  BY <1>1, <1>3, <1>4, <1>5 DEF FrontStep
<1> QED
  BY <1>6

LEMMA WriterErrorFront ==
  ASSUME IInv, NEW x \in Handlers, h[x].queue # <<>>,
         Becomes(x, Error([h[x] EXCEPT !.timer = FALSE])),
         UNCHANGED <<all, pump>>
  PROVE  \E d : FrontStep(x, d)
<1> DEFINE e == TimerOff(h[x])
           d == Error(e)
           Q == Running \cup {Head(h[x].queue).pump}
<1>1. h' = [h EXCEPT ![x] = d]
  BY DEF Becomes, TimerOff
<1>2. Head(h[x].queue).pump \in Q
  OBVIOUS
<1> HIDE DEF Q
<1>3. x \in all /\ Good(e, Own(x), Q)
  BY <1>2, TimerOffHears
<1> HIDE DEF e
<1>4. Base(d, Own(x), Q) /\ d.pooled
  BY <1>3, ErrorGood DEF Good
<1> HIDE DEF d
<1>5. FrontStep(x, d)
  BY <1>1, <1>3, <1>4, PooledFront
<1> QED
  BY <1>5

\* A pump that is in front sends; no other pump of its owner runs.
LEMMA SendDataFront ==
  ASSUME IInv, PumpInFront, NEW f \in Files, NEW x \in all, x = pump[f].own,
         h[x].queue # <<>>, Head(h[x].queue).pump = f,
         NEW c, NEW Q, Good(c, Own(x), Q), c.queue = h[x].queue,
         Hears(h[x]) => Hears(c),
         NEW ev \in Events, NEW react \in Reactions, SendData(f, c, ev, react)
  PROVE  \E d : FrontStep(x, d)
<1> DEFINE d == OnSent(c, ev, react)
           s == IF ev \in {"some", "again"} THEN "RUNNING" ELSE "CLOSED"
           p == [pump[f] EXCEPT !.st = s]
<1>1. /\ h' = [h EXCEPT ![x] = d] /\ all' = all
      /\ pump' = [pump EXCEPT ![f].st = s]
  BY DEF SendData, Becomes
<1>2. s = "RUNNING" => ev \in {"some", "again"}
  OBVIOUS
<1>3. (Hears(h[x]) => Hears(d)) /\ (ev \in {"some", "again"} => d = c)
  <2>1. c.queue # <<>> /\ Head(c.queue).pump # NoPump
    BY NoneAssumption
  <2>2. ev \in {"some", "again"} => d = c
    <3>1. HandleWrite(c, react) = c
      BY <2>1 DEF HandleWrite, StopWrite, Good, Base, Opened, Closed
    <3> QED
      BY <3>1 DEF OnSent, HandleTransport
  <2>3. Hears(c) => Hears(d)
    BY <2>1, OnSentHears
  <2> QED
    BY <2>2, <2>3
<1> HIDE DEF d, s
<1>4. /\ p.own = x /\ p.st = s
      /\ pump'[f] = p /\ \A g \in Files \ {f} : pump'[g] = pump[g]
  BY <1>1 DEF IInv, TypeOK, PumpState
<1> HIDE DEF p
<1>5. ASSUME NEW g \in Files, pump'[g].st = "RUNNING"
      PROVE  \/ /\ pump'[g] = pump[g]
                /\ pump[g].own # x \/ KeepsFront(h[x], d)
             \/ pump'[g].own = x /\ d.queue # <<>> /\ Head(d.queue).pump = g
  <2>1. CASE g = f
    BY <1>2, <1>3, <1>4, <1>5, <2>1
  <2>2. CASE g # f
    <3>1. pump'[g] = pump[g]
      BY <1>4, <2>2
    <3>2. pump[g].own # x
      BY <1>5, <2>2, <3>1 DEF PumpInFront
    <3> QED
      BY <3>1, <3>2
  <2> QED
    BY <2>1, <2>2
<1>6. FrontStep(x, d)
  BY <1>1, <1>3, <1>5 DEF FrontStep
<1> QED
  BY <1>6

LEMMA StartPumpFront ==
  ASSUME IInv, PumpInFront, NEW x \in Handlers, NEW ev \in Events,
         NEW react \in Reactions, StartPump(x, ev, react)
  PROVE  \E d : FrontStep(x, d)
<1> DEFINE e == TimerOff(h[x])
           f == Head(h[x].queue).pump
           Q == Running \cup {f}
<1>1. x \in all /\ ~h[x].pooled /\ h[x].queue # <<>> /\ f # NoPump
  BY OnlyOpenAct DEF StartPump
<1>2. f \in Own(x)
  <2>1. h[x].queue \in Seq(BlockOf(Own(x), h[x].conn))
    BY <1>1, HandlerFacts DEF Base, Typed, WriterType
  <2>2. Head(h[x].queue) \in BlockOf(Own(x), h[x].conn)
    BY <1>1, <2>1, HeadTailProperties
  <2> QED
    BY <1>1, <2>2 DEF BlockOf
<1>3. f \in Files /\ pump[f].own = x
  BY <1>2 DEF Own
<1>4. SendData(f, e, ev, react)
  BY DEF StartPump, TimerOff
<1>5. /\ Good(e, Own(x), Q) /\ e.queue = h[x].queue
      /\ Hears(h[x]) => Hears(e)
  <2>1. f \in Q
    OBVIOUS
  <2> QED
    BY <1>1, <2>1, TimerOffHears
<1>6. f = Head(h[x].queue).pump
  OBVIOUS
<1> HIDE DEF e, f, Q
<1> QED
  BY <1>1, <1>3, <1>4, <1>5, <1>6, SendDataFront

LEMMA PumpTimerFront ==
  ASSUME IInv, PumpInFront, NEW f \in Files, NEW ev \in Events,
         NEW react \in Reactions, PumpTimer(f, ev, react)
  PROVE  \E x, d : FrontStep(x, d)
<1>1. pump[f].st = "RUNNING" /\ pump[f].own \in all
  BY DEF PumpTimer, IInv, PumpsInv
<1>2. PICK x \in all : x = pump[f].own
  BY <1>1
<1>3. SendData(f, h[x], ev, react)
  BY <1>2 DEF PumpTimer
<1>4. h[x].queue # <<>> /\ Head(h[x].queue).pump = f
  BY <1>1, <1>2 DEF PumpInFront
<1>5. Good(h[x], Own(x), Running)
  BY HandlerFacts
<1>6. \E d : FrontStep(x, d)
  BY <1>2, <1>3, <1>4, <1>5, SendDataFront
<1> QED
  BY <1>6

LEMMA IdleTimeoutFront ==
  ASSUME IInv, NEW x \in Handlers, IdleTimeout(x)
  PROVE  \E d : FrontStep(x, d)
<1> DEFINE e == WithIdle(h[x], 0)
           d == Error(e)
<1>1. x \in all
  BY DEF IInv, HandlersInv, NewHandler, IdleTimeout
<1>2. Base(e, Own(x), Running)
  BY <1>1, HandlerFacts, NoTimeoutRests
<1>3. h' = [h EXCEPT ![x] = d] /\ UNCHANGED <<all, pump>>
  BY DEF IdleTimeout, Becomes, WithIdle
<1> HIDE DEF e
<1>4. Base(d, Own(x), Running) /\ d.pooled
  BY <1>2, ErrorGood DEF Good
<1> HIDE DEF d
<1>5. FrontStep(x, d)
  BY <1>1, <1>3, <1>4, PooledFront
<1> QED
  BY <1>5

LEMMA ServletOutputFront ==
  ASSUME IInv, NEW x \in Handlers, NEW out \in Outputs, NEW mode \in Modes,
         NEW f \in Files \cup {NoPump}, ServletOutput(x, out, mode, f)
  PROVE  \E d : FrontStep(x, d)
<1> DEFINE d == Output(h[x], out, mode, f)
           T == NextOwn(x)
           Q == Running'
<1>1. x \in all /\ ~h[x].pooled
  BY OnlyOpenAct DEF ServletOutput
<1>2. f \in T \cup {NoPump} /\ Good(h[x], T, Q) /\ OldPumps
  BY <1>1, CreatePumpOwns, PumpsStayOld DEF ServletOutput
<1> HIDE DEF T, Q
<1>3. Writes(h[x], d)
  BY <1>1, <1>2, OutputWrites DEF Good
<1>4. /\ h' = [h EXCEPT ![x] = d] /\ all' = all
      /\ h[x].async
  BY DEF ServletOutput, Becomes
<1> HIDE DEF d
<1>5. KeepsFront(h[x], d)
  BY <1>3, GroupsLead DEF KeepsFront, Leads
<1>6. Hears(h[x]) => Hears(d)
  <2>1. Hears(h[x]) => HearsAsync(h[x])
    BY <1>4 DEF Hears, HearsAsync, Unanswered
  <2> QED
    BY <1>3, <2>1, AsyncWrites, AsyncHears
<1>7. FrontStep(x, d)
  BY <1>1, <1>2, <1>4, <1>5, <1>6, QuietFront
<1> QED
  BY <1>7

LEMMA ServletSetStatusFront ==
  ASSUME IInv, NEW x \in Handlers, ServletSetStatus(x)
  PROVE  \E d : FrontStep(x, d)
<1> DEFINE d == Coded(h[x])
<1>1. x \in all /\ ~h[x].pooled
  BY OnlyOpenAct DEF ServletSetStatus
<1>2. Base(h[x], Own(x), Running)
  BY <1>1, HandlerFacts
<1>3. h' = [h EXCEPT ![x] = d] /\ all' = all /\ OldPumps
  BY PumpsStayOld DEF ServletSetStatus, Becomes, Coded
<1>4. SameResponse(h[x], d) /\ d.done = h[x].done
  BY <1>2, HeadedFields DEF Base, Typed
<1>5. \A u, v : RequestStep(h[x], d, u, v)
  BY DEF RequestStep
<1> HIDE DEF d
<1>6. Requests(h[x], d)
  BY <1>1, <1>2, <1>5, RequestStepBase
<1>7. KeepsFront(h[x], d)
  BY <1>6, GroupsLead DEF KeepsFront, Leads
<1>8. Hears(h[x]) => Hears(d)
  BY <1>4, <1>6
  DEF Hears, Armed, Unanswered, Requests, SamePlace, SameReader, SameIdle,
      SameWriter, SameResponse
<1>9. FrontStep(x, d)
  BY <1>1, <1>3, <1>7, <1>8, QuietFront
<1> QED
  BY <1>9

LEMMA ServletCompleteFront ==
  ASSUME IInv, NEW x \in Handlers, ServletComplete(x)
  PROVE  \E d : FrontStep(x, d)
<1> DEFINE d == Complete(h[x])
<1>1. x \in all /\ ~h[x].pooled
  BY OnlyOpenAct DEF ServletComplete
<1>2. Base(h[x], Own(x), Running) /\ h[x].reads \in Nat
  BY <1>1, HandlerFacts DEF Base, Typed, ReaderType
<1>3. Continues(h[x], d)
  BY <1>1, <1>2, CompleteContinues
<1>4. h' = [h EXCEPT ![x] = d] /\ all' = all /\ OldPumps
  BY PumpsStayOld DEF ServletComplete, Becomes
<1> HIDE DEF d
<1>5. KeepsFront(h[x], d) /\ Hears(d)
  BY <1>2, <1>3, ResumedHears DEF Continues
<1>6. FrontStep(x, d)
  BY <1>1, <1>4, <1>5, QuietFront
<1> QED
  BY <1>6

-----------------------------------------------------------------------------
(* The steps of the pool                                                   *)

\* init() and start() leave nothing of an earlier request.
LEMMA InitialisedUnanswered ==
  ASSUME NEW S, NEW c, Typed(c, S), Closed(c), NEW fd \in Fds,
         NEW k \in Conns, NEW e, e = Initialised(c, fd, k)
  PROVE  /\ Shape(e) /\ e.fd # NoFd /\ e.ropen /\ e.conn \in Conns
         /\ Unanswered(e) /\ e.reads \in Nat
<1> DEFINE i == IF c.idleOn THEN c ELSE WithIdleOn(c)
<1>1. e = WithInit(i, fd, k)
  BY DEF Initialised, WithInit, SetIdleTimeout, WithIdleOn, Typed, IdleType
<1>2. Shape(i) /\ SameWriter(c, i) /\ SameReader(c, i) /\ SameResponse(c, i)
  <2>1. CASE c.idleOn
    BY <2>1 DEF Typed, SameWriter, SameReader, SameResponse
  <2>2. CASE ~c.idleOn
    <3>1. i = WithIdleOn(c)
      BY <2>2
    <3> HIDE DEF i
    <3> QED
      BY <3>1, IdleOnFields DEF Typed
  <2> QED
    BY <2>1, <2>2
<1> HIDE DEF i
<1>3. /\ Shape(e) /\ e.fd = fd /\ e.conn = k /\ e.ropen /\ ~e.done
      /\ e.queue = i.queue /\ e.reads = i.reads /\ SameResponse(i, e)
  BY <1>1, <1>2, InitFields
<1> QED
  BY <1>2, <1>3, NoneAssumption
  DEF Unanswered, Closed, Slate, SameWriter, SameReader, SameResponse

LEMMA AcceptFront ==
  ASSUME IInv, PumpsEndWithConnections, PumpInFront,
         NEW x \in Handlers, NEW fd \in Fds, Accept(x, fd)
  PROVE  FrontsStay
<1> DEFINE k == accepted + 1
           e == Initialised(h[x], fd, k)
           d == PrepareRead(e)
<1>1. k \in Conns
  BY BoundsAssumption DEF Accept, IInv, TypeOK, Conns
<1>2. h' = [h EXCEPT ![x] = d] /\ all' = all \cup {x} /\ UNCHANGED pump
  BY DEF Accept, Becomes, Initialised
<1>3. Typed(h[x], Own(x)) /\ Closed(h[x]) /\ (x \in all => h[x].pooled)
  <2>1. CASE x \in all
    <3>1. h[x].pooled
      BY <2>1 DEF Accept, MayServe, Idle
    <3> QED
      BY <2>1, <3>1, HandlerFacts DEF Base
  <2>2. CASE x \notin all
    <3>1. h[x] = NewHandler
      BY <2>2 DEF IInv, HandlersInv
    <3> QED
      BY <2>2, <3>1, NewIsClosed
  <2> QED
    BY <2>1, <2>2
<1> HIDE DEF k
<1>4. /\ Shape(e) /\ e.fd # NoFd /\ e.ropen /\ e.conn \in Conns
      /\ Unanswered(e) /\ e.reads \in Nat
  BY <1>1, <1>3, InitialisedUnanswered
<1> HIDE DEF e
<1>5. Rests(e, d) /\ d.reads = e.reads + 1 /\ Armed(d)
  BY <1>4, PrepareReadArms
<1>6. Hears(d)
  BY <1>4, <1>5, RestsUnanswered DEF Hears
<1> HIDE DEF d
<1>7. /\ h'[x] = d /\ \A y \in all \ {x} : h'[y] = h[y]
  BY <1>2 DEF IInv, TypeOK
<1>8. ASSUME NEW f \in Files, pump[f].st = "RUNNING"
      PROVE  pump[f].own \in all \ {x}
  BY <1>3, <1>8 DEF IInv, PumpsInv, PumpsEndWithConnections
<1>9. PumpInFront'
  BY <1>2, <1>7, <1>8 DEF PumpInFront
<1>10. Hearing => Hearing'
  BY <1>2, <1>6, <1>7 DEF Hearing
<1> QED
  BY <1>9, <1>10 DEF FrontsStay

LEMMA NotifyCloseContinues ==
  ASSUME NEW S, NEW R, NEW c, Base(c, S, R), NEW ready,
         NEW d, d = NotifyClose(c, ready)
  PROVE  KeepsFront(c, d) /\ (Hears(c) => Hears(d))
<1>1. CASE d = c
  BY <1>1 DEF KeepsFront, SameFront
<1>2. CASE d # c
  <2>1. d = StopHandler(c)
    BY <1>2 DEF NotifyClose
  <2> QED
    BY <2>1, StopHandlerContinues DEF Continues
<1> QED
  BY <1>1, <1>2

\* The handlers are told to close, and those that are closed are freed with
\* their pumps.
LEMMA FreeFront ==
  ASSUME IInv, PumpInFront, NEW told, NEW freed \in SUBSET all,
         \A x \in all : /\ KeepsFront(h[x], told[x])
                        /\ Hears(h[x]) => Hears(told[x]),
         all' = all \ freed,
         h' = [x \in Handlers |-> IF x \in freed THEN NewHandler ELSE told[x]],
         pump' = [f \in Files |-> IF pump[f].own \in freed THEN AbsentPump
                                  ELSE pump[f]]
  PROVE  FrontsStay
<1>1. all \subseteq Handlers
  BY DEF IInv, TypeOK
<1>2. \A x \in all : x \notin freed => h'[x] = told[x]
  BY <1>1
<1>3. ASSUME PumpsEndWithConnections', NEW f \in Files, pump'[f].st = "RUNNING"
      PROVE  LET q == h'[pump'[f].own].queue IN q # <<>> /\ Head(q).pump = f
  <2>1. pump'[f] = pump[f] /\ pump[f].own \notin freed
    BY <1>3 DEF AbsentPump
  <2>2. PICK x \in all : x = pump[f].own
    BY <1>3, <2>1 DEF IInv, PumpsInv
  <2>3. h[x].queue # <<>> /\ Head(h[x].queue).pump = f
    BY <1>3, <2>1, <2>2 DEF PumpInFront
  <2>4. h'[x] = told[x] /\ ~told[x].pooled
    BY <1>2, <1>3, <2>1, <2>2 DEF PumpsEndWithConnections
  <2>5. SameFront(h[x], told[x])
    BY <2>4 DEF KeepsFront
  <2> QED
    BY <2>1, <2>2, <2>3, <2>4, <2>5 DEF SameFront
<1>4. PumpsEndWithConnections' => PumpInFront'
  BY <1>3 DEF PumpInFront
<1>5. Hearing => Hearing'
  BY <1>2 DEF Hearing
<1> QED
  BY <1>4, <1>5 DEF FrontsStay

LEMMA CleanupFront ==
  ASSUME IInv, PumpInFront, NEW freed \in SUBSET all, Cleanup(freed)
  PROVE  FrontsStay
<1>1. \A x \in all : KeepsFront(h[x], h[x]) /\ (Hears(h[x]) => Hears(h[x]))
  BY DEF KeepsFront, SameFront
<1> QED
  BY <1>1, FreeFront DEF Cleanup, Free

LEMMA ExecuteCloseFront ==
  ASSUME IInv, PumpInFront, NEW ready \in SUBSET all, ExecuteClose(ready)
  PROVE  FrontsStay
<1> DEFINE told == [x \in Handlers |->
                      IF x \in all /\ h[x].fd # NoFd
                      THEN NotifyClose(h[x], x \in ready) ELSE h[x]]
           freed == {x \in all : told[x].pooled}
<1>1. /\ freed \in SUBSET all /\ all' = all \ freed
      /\ h' = [x \in Handlers |-> IF x \in freed THEN NewHandler ELSE told[x]]
      /\ pump' = [f \in Files |-> IF pump[f].own \in freed THEN AbsentPump
                                  ELSE pump[f]]
  BY DEF ExecuteClose
<1>2. ASSUME NEW x \in all
      PROVE  /\ KeepsFront(h[x], told[x])
             /\ Hears(h[x]) => Hears(told[x])
  <2>1. x \in Handlers /\ Base(h[x], Own(x), Running)
    BY HandlerFacts
  <2>2. CASE told[x] = h[x]
    <3> HIDE DEF told
    <3> QED
      BY <2>2 DEF KeepsFront, SameFront
  <2>3. CASE told[x] = NotifyClose(h[x], x \in ready)
    <3> DEFINE r == x \in ready
    <3>1. told[x] = NotifyClose(h[x], r)
      BY <2>3
    <3> HIDE DEF told, r
    <3> QED
      BY <2>1, <3>1, NotifyCloseContinues
  <2> QED
    BY <2>1, <2>2, <2>3
<1> HIDE DEF told, freed
<1> QED
  BY <1>1, <1>2, FreeFront

-----------------------------------------------------------------------------
(* Both invariants hold                                                    *)

LEMMA NextFront ==
  ASSUME IInv, PumpsEndWithConnections, PumpInFront, [Next]_vars
  PROVE  FrontsStay
<1>1. ASSUME NEW x, NEW d, FrontStep(x, d)
      PROVE  FrontsStay
  BY <1>1, FrontStepStays
<1>2. ASSUME NEW x \in Handlers, Read(x)
      PROVE  FrontsStay
  <2>1. ASSUME NEW keep \in BOOLEAN, NEW early \in BOOLEAN, NEW s \in Service,
               NEW f \in Files \cup {NoPump}, ReadRequest(x, keep, early, s, f)
        PROVE  FrontsStay
    BY <1>1, <2>1, ReadRequestFront
  <2>2. ASSUME NEW keep \in BOOLEAN, NEW refused \in BOOLEAN,
               NEW early \in BOOLEAN, ReadBody(x, keep, refused, early)
        PROVE  FrontsStay
    BY <1>1, <2>2, ReadBodyFront
  <2>3. ASSUME NEW keep \in BOOLEAN, ReadBadHead(x, keep)
        PROVE  FrontsStay
    BY <1>1, <2>3, ReadBadHeadFront
  <2>4. CASE ReadWithStatus(x) \/ ReadHead(x) \/ ReadEnd(x)
    BY <1>1, <2>4, ReadWithStatusFront, ReadHeadFront, ReadEndFront
  <2> QED
    BY <1>2, <2>1, <2>2, <2>3, <2>4 DEF Read
<1>3. ASSUME NEW x \in Handlers, WriterTimer(x)
      PROVE  FrontsStay
  <2>1. ASSUME NEW react \in Reactions, WriteFront(x, react)
        PROVE  FrontsStay
    BY <1>1, <2>1, WriteFrontFront
  <2>2. ASSUME NEW ev \in Events, NEW react \in Reactions,
               StartPump(x, ev, react)
        PROVE  FrontsStay
    BY <1>1, <2>2, StartPumpFront
  <2>3. CASE WriteFails(x) \/ RestartPump(x)
    BY <1>1, <2>3, WriterErrorFront DEF WriteFails, RestartPump
  <2> QED
    BY <1>3, <2>1, <2>2, <2>3 DEF WriterTimer
<1>4. ASSUME NEW x \in Handlers, Servlet(x)
      PROVE  FrontsStay
  <2>1. ASSUME NEW out \in Outputs, NEW mode \in Modes,
               NEW f \in Files \cup {NoPump}, ServletOutput(x, out, mode, f)
        PROVE  FrontsStay
    BY <1>1, <2>1, ServletOutputFront
  <2>2. CASE ServletSetStatus(x) \/ ServletComplete(x)
    BY <1>1, <2>2, ServletSetStatusFront, ServletCompleteFront
  <2> QED
    BY <1>4, <2>1, <2>2 DEF Servlet
<1>5. ASSUME NEW x \in Handlers, IdleTimeout(x)
      PROVE  FrontsStay
  BY <1>1, <1>5, IdleTimeoutFront
<1>6. ASSUME NEW f \in Files, NEW ev \in Events, NEW react \in Reactions,
             PumpTimer(f, ev, react)
      PROVE  FrontsStay
  BY <1>1, <1>6, PumpTimerFront
<1>7. CASE UNCHANGED <<h, all, pump>>
  BY <1>7 DEF FrontsStay, PumpInFront, Hearing
<1>8. ASSUME NEW c \in Conns, ClientLeaves(c)
      PROVE  FrontsStay
  BY <1>7, <1>8 DEF ClientLeaves
<1>9. CASE UNCHANGED vars
  BY <1>7, <1>9 DEF vars
<1>10. CASE Next
  BY <1>2, <1>3, <1>4, <1>5, <1>6, <1>8, <1>10, AcceptFront, CleanupFront,
     ExecuteCloseFront DEF Next
<1> QED
  BY <1>9, <1>10

\* A file pump that runs is the block in front of its owner's queue, and so
\* the only one that runs for it (EvNIOWriter::timerCallback leaves the block
\* in the queue until the pump's "end" pops it).
THEOREM RunningPumpsAreInFront ==
  Spec /\ []PumpsEndWithConnections => []PumpInFront
<1>1. Init => PumpInFront
  BY DEF Init, PumpInFront, AbsentPump
<1>2. IInv /\ PumpsEndWithConnections /\ PumpInFront /\ [Next]_vars
        /\ PumpsEndWithConnections' => PumpInFront'
  BY NextFront DEF FrontsStay
<1> QED
  BY <1>1, <1>2, HandlerInvariance, PTL DEF Spec

LEMMA HearingHolds ==
  ASSUME EarlyOutput = FALSE
  PROVE  Spec /\ []PumpsEndWithConnections => []Hearing
<1>1. Init => Hearing
  BY DEF Init, Hearing
<1>2. IInv /\ PumpsEndWithConnections /\ PumpInFront /\ Hearing /\ [Next]_vars
        => Hearing'
  BY NextFront DEF FrontsStay
<1> QED
  BY <1>1, <1>2, HandlerInvariance, RunningPumpsAreInFront, PTL DEF Spec

\* A handler that waits for its client can hear it: it has a read request, the
\* watcher runs, and the idle timer unless a servlet switched it off
\* (HttpHandler::handleReadCompletionEvent, clean and start, the only places
\* that ask for the next read).  Premises: no servlet writes before its request
\* is complete, and no pump outlives its connection.
THEOREM HandlersHear ==
  ASSUME EarlyOutput = FALSE
  PROVE  Spec /\ []PumpsEndWithConnections => []NoDeafHandler
<1>1. Hearing => NoDeafHandler
  BY DEF Hearing, Hears, Armed, NoDeafHandler
<1> QED
  BY <1>1, HearingHolds, PTL

\* A worker whose servlets send no files, and write nothing before the request
\* is complete, never has a deaf handler, whatever its clients do.
COROLLARY HandlersHearWithoutFiles ==
  ASSUME EarlyOutput = FALSE, Files = {}
  PROVE  Spec => []NoDeafHandler
BY HandlersHear, NoFilesNeverPumps, PTL

\* When a handler reads the next request, on the same connection or on the next
\* one it is reused for, what clean() and stop() reset is reset.  completeFlag,
\* which the end of service() sets after clean() (HttpHandler.cpp:517), is among
\* it when no servlet writes early and no file is sent.
THEOREM RequestsStartClean == Spec => []CleanSlate
<1>1. CASE EarlyOutput \/ Files # {}
  <2>1. IInv => CleanSlate
    BY <1>1, HandlerFacts DEF CleanSlate, Good, Fresh, Slate
  <2> QED
    BY <2>1, HandlerInvariance, PTL
<1>2. CASE ~EarlyOutput /\ Files = {}
  <2>1. IInv /\ Hearing => CleanSlate
    BY HandlerFacts DEF CleanSlate, Good, Fresh, Slate, Hearing, Hears, Unanswered
  <2>2. EarlyOutput = FALSE
    BY <1>2, EarlyOutputAssumption
  <2>3. Spec => []Hearing
    BY <1>2, <2>2, HearingHolds, NoFilesNeverPumps, PTL
  <2> QED
    BY <2>1, <2>3, HandlerInvariance, PTL
<1> QED
  BY <1>1, <1>2

=============================================================================
