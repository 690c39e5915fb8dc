---------------------------- MODULE RequestInput ----------------------------
(***************************************************************************)
(* The input of one request: the bytes of the client arrive in bursts of   *)
(* any size; HttpHandler collects them in RequestData, finds the request   *)
(* line and the headers in them, and passes what follows to the servlet,   *)
(* here the one of the example that feeds a ChunkedBodyBuilder.            *)
(*                                                                         *)
(* A byte is one of the characters the code looks for, a digit, or one of  *)
(* Other.  Positions count from 0, as in the code.                         *)
(***************************************************************************)
EXTENDS Integers, Sequences, SequencesExt

CONSTANTS Requests,    \* the requests that a client may send
          Other,       \* the bytes that the code does not look for (HT is none)
          NoText,      \* "no parameters" and "no protocol" in a request line
          LineMax,     \* conf->requestLineMaxBytes
          BufferSize   \* conf->requestBufferSize, the longest burst

ASSUME LimitAssumption == LineMax \in Nat /\ BufferSize \in Nat \ {0}

VARIABLES request,     \* the request under way
          received,    \* how many bytes of it have arrived
          data,        \* requestData.data
          head,        \* the positions in requestData and the saved headers
          builder,     \* the servlet's ChunkedBodyBuilder
          code         \* httpCode

vars == <<request, received, data, head, builder, code>>

Digits == <<"0", "1", "2", "3">>
CRLF == <<"CR", "LF">>
Bytes == {"SP", "CR", "LF", "NUL", ":", "?", "0", "1", "2", "3"} \cup Other

NewHead ==
  [line |-> FALSE, headers |-> FALSE, trav |-> 0,
   methodEnd |-> 0, pathEnd |-> 0, paramStart |-> 0, paramEnd |-> 0,
   protStart |-> 0, protEnd |-> 0, lineEnd |-> 0,
   hstart |-> 0, cur |-> 0, saved |-> <<>>, bodyStart |-> 0]

\* skip: the byte after a block of data, which build() steps over; out: history
NewBuilder == [size |-> -1, read |-> 0, buff |-> <<>>, last |-> "NUL",
               skip |-> FALSE, done |-> FALSE, out |-> <<>>]

Init == /\ request \in Requests
        /\ received = 0 /\ data = <<>> /\ code = 0
        /\ head = NewHead /\ builder = NewBuilder

-----------------------------------------------------------------------------
(* The request line                                                        *)

At(d, i) == d[i + 1]
Sub(d, i, j) == SubSeq(d, i + 1, j)    \* the characters i .. j-1

\* The first position from i on that holds one of chars, or the end.
First(d, i, chars) ==
  LET hits == {k \in i .. Len(d) - 1 : At(d, k) \in chars}
  IN IF hits = {} THEN Len(d) ELSE CHOOSE k \in hits : \A l \in hits : k <= l

\* The line ends at the LF in i, and with it every part that is still open.
EndLine(s, i) ==
  [s EXCEPT !.line = TRUE, !.protEnd = i - 1, !.lineEnd = i - 1,
            !.trav = i + 1, !.hstart = i + 1, !.cur = i + 1]

Method(d, s) ==
  LET i == First(d, s.trav, {"SP"})
  IN IF s.methodEnd = 0 /\ i < Len(d)
     THEN [s EXCEPT !.methodEnd = i, !.trav = i + 1] ELSE s

\* The path ends at the character in i.
EndPath(d, s, i) ==
  CASE At(d, i) = "?"  -> [s EXCEPT !.pathEnd = i, !.paramStart = i + 1, !.trav = i + 1]
    [] At(d, i) = "SP" -> [s EXCEPT !.pathEnd = i, !.paramStart = i, !.paramEnd = i,
                                    !.protStart = i + 1, !.trav = i + 1]
    [] At(d, i) = "LF" -> EndLine([s EXCEPT !.pathEnd = i - 1, !.paramStart = i - 1,
                                     !.paramEnd = i - 1, !.protStart = i - 1], i)

Path(d, s) ==
  LET i == First(d, s.trav, {"?", "SP", "LF"})
  IN IF s.methodEnd # 0 /\ s.pathEnd = 0 /\ i < Len(d) THEN EndPath(d, s, i) ELSE s

\* The loop over the parameters goes on after a LF (and steps over the byte
\* behind it) until it meets a blank: the last LF and the blank, or -1.
ParamStops(d) ==
  LET f[i \in 0 .. Len(d) + 1] ==
        IF i >= Len(d) THEN [lf |-> -1, sp |-> -1]
        ELSE CASE At(d, i) = "SP" -> [lf |-> -1, sp |-> i]
               [] At(d, i) = "LF" -> [f[i + 2] EXCEPT !.lf = IF @ = -1 THEN i ELSE @]
               [] OTHER           -> f[i + 1]
  IN f

Params(d, s) ==
  IF s.pathEnd = 0 \/ s.paramEnd > 0 THEN s
  ELSE LET r == ParamStops(d)[s.trav]
           t == IF r.lf = -1 THEN s
                ELSE EndLine([s EXCEPT !.paramEnd = r.lf - 1,
                                       !.protStart = r.lf - 1], r.lf)
       IN IF r.sp = -1 THEN t
          ELSE [t EXCEPT !.paramEnd = r.sp, !.protStart = r.sp + 1,
                         !.trav = r.sp + 1]

Protocol(d, s) ==
  LET i == First(d, s.trav, {"LF"})
  IN IF s.paramEnd = 0 \/ s.protEnd > 0 \/ i = Len(d) THEN s ELSE EndLine(s, i)

\* prepareRequestLine() answers 400 to a line that ends within the method.
BadLine(d, s) ==
  /\ ~s.line /\ s.methodEnd = 0
  /\ LET i == First(d, s.trav, {"SP", "LF"}) IN i < Len(d) /\ At(d, i) = "LF"

Line(d, s) == Protocol(d, Params(d, Path(d, Method(d, s))))

-----------------------------------------------------------------------------
(* The headers                                                             *)

\* saveHeaderPos: leading blanks do not belong to the value.
Saved(d, ks, ke, vs, ve) ==
  LET text == {k \in vs .. ve - 1 : At(d, k) \notin {"SP", "CR", "LF"}}
      from == IF text = {} THEN vs
              ELSE CHOOSE k \in text : \A l \in text : k <= l
  IN [key |-> Sub(d, ks, ke), value |-> Sub(d, from, ve)]

\* Fault: a finished header is not the start of the next search.
HeaderByteAgain(d, start, k, i) ==
  LET lc == IF i > start THEN At(d, i - 1) ELSE "NUL"
      ks == IF k.ks # 0 THEN k.ks ELSE IF lc = "NUL" THEN i ELSE i - 1
      vs == IF k.ke > 0 /\ k.vs = 0 THEN i ELSE k.vs
      ke == IF k.ke = 0 THEN i - 2 ELSE k.ke
  IN CASE k.end # 0 -> k
       [] k.end = 0 /\ At(d, i) = "LF" /\ lc = "CR" /\ At(d, i - 2) = "LF" ->
            [k EXCEPT !.end = i]
       [] OTHER ->
            CASE k.ke = 0 /\ At(d, i) = ":" -> [k EXCEPT !.ks = ks, !.ke = i]
              [] lc = "LF" /\ At(d, i) # "SP" /\ ~(k.ke = 0 /\ At(d, i) = ":") ->
                   [k EXCEPT !.ks = 0, !.ke = 0, !.vs = 0,
                      !.saved = IF ks < ke
                                THEN Append(@, Saved(d, ks, ke,
                                       IF k.ke = 0 THEN i - 2 ELSE vs, i - 2))
                                ELSE @]
              [] OTHER -> [k EXCEPT !.ks = ks, !.vs = vs]

\* One byte of the loop of prepareRequestHeaders; k holds its local variables.
\* A header is finished by the first byte of the next line.
HeaderByte(d, start, k, i) ==
  LET lc == IF i > start THEN At(d, i - 1) ELSE "NUL"
      ks == IF k.ks # 0 THEN k.ks ELSE IF lc = "NUL" THEN i ELSE i - 1
      vs == IF k.ke > 0 /\ k.vs = 0 THEN i ELSE k.vs
      ke == IF k.ke = 0 THEN i - 2 ELSE k.ke
  IN CASE k.end # 0 -> k
       [] k.end = 0 /\ At(d, i) = "LF" /\ lc = "CR" /\ At(d, i - 2) = "LF" ->
            [k EXCEPT !.end = i]
       [] OTHER ->
            CASE k.ke = 0 /\ At(d, i) = ":" -> [k EXCEPT !.ks = ks, !.ke = i]
              [] lc = "LF" /\ At(d, i) # "SP" /\ ~(k.ke = 0 /\ At(d, i) = ":") ->
                   [k EXCEPT !.ks = 0, !.ke = 0, !.vs = 0, !.cur = i,
                      !.saved = IF ks < ke
                                THEN Append(@, Saved(d, ks, ke,
                                       IF k.ke = 0 THEN i - 2 ELSE vs, i - 2))
                                ELSE @]
              [] OTHER -> [k EXCEPT !.ks = ks, !.vs = vs]

\* The local variables of the loop before byte i; it starts where the last
\* finished header ends.
HeaderLoop(d, s) ==
  LET k[i \in s.cur .. Len(d)] ==
        IF i = s.cur THEN [ks |-> 0, ke |-> 0, vs |-> 0, end |-> 0,
                           cur |-> s.cur, saved |-> s.saved]
        ELSE HeaderByte(d, s.hstart, k[i - 1], i - 1)
  IN k

Headers(d, s) ==
  LET k == HeaderLoop(d, s)[Len(d)]
      t == [s EXCEPT !.cur = k.cur, !.saved = k.saved]
  IN IF k.end = 0 THEN t
     ELSE [t EXCEPT !.headers = TRUE, !.trav = k.end + 1, !.bodyStart = k.end + 1]

\* prepareRequestData
Prepare(d, s) ==
  LET t == IF s.line THEN s ELSE Line(d, s)
  IN IF t.line /\ ~t.headers THEN Headers(d, t) ELSE t

-----------------------------------------------------------------------------
(* ChunkedBodyBuilder::build, byte by byte                                 *)

\* strtol(..., 16) of a chunk's size line: it stops at the first other character.
Value(c) == CHOOSE v \in 0 .. Len(Digits) - 1 : Digits[v + 1] = c
DigitsTo(s, i) == \A j \in 1 .. i : s[j] \in ToSet(Digits)
Size(s) ==
  LET v[i \in 0 .. Len(s)] ==
        IF i = 0 THEN 0
        ELSE IF DigitsTo(s, i) THEN 16 * v[i - 1] + Value(s[i]) ELSE v[i - 1]
  IN v[Len(s)]

\* The size line.  The byte before its LF is taken for the CR.
SizeByte(b, c) ==
  CASE b.buff = <<>> /\ c \in ToSet(CRLF) -> b
    [] b.buff # <<>> /\ c = "LF" -> [b EXCEPT !.size = Size(Front(b.buff))]
    [] OTHER -> [b EXCEPT !.buff = Append(@, c)]

\* Fault: the size of the last block is still there when the next one comes.
DataByteKeepsSize(b, c) ==
  IF b.read + 1 = b.size
  THEN [NewBuilder EXCEPT !.out = Append(b.out, c), !.skip = TRUE, !.buff = b.buff]
  ELSE [b EXCEPT !.out = Append(@, c), !.read = @ + 1]

\* Fault: chunkReadedSize is not reset at the end of a block.
DataByteKeepsRead(b, c) ==
  IF b.read + 1 = b.size
  THEN [NewBuilder EXCEPT !.out = Append(b.out, c), !.skip = TRUE,
                          !.read = b.read + 1]
  ELSE [b EXCEPT !.out = Append(@, c), !.read = @ + 1]

DataByte(b, c) ==
  IF b.read + 1 = b.size
  THEN [NewBuilder EXCEPT !.out = Append(b.out, c), !.skip = TRUE]
  ELSE [b EXCEPT !.out = Append(@, c), !.read = @ + 1]

\* After the last block: the body ends with a CR that follows a LF.
TrailerByte(b, c) ==
  IF b.last = "LF" /\ c = "CR"
  THEN [NewBuilder EXCEPT !.out = b.out, !.done = TRUE]
  ELSE [b EXCEPT !.last = c]

BuildByte(b, c) ==
  CASE b.done -> b
    [] ~b.done /\ b.skip -> [b EXCEPT !.skip = FALSE]
    [] ~b.done /\ ~b.skip /\ b.size = -1 -> SizeByte(b, c)
    [] ~b.done /\ ~b.skip /\ b.size > 0  -> DataByte(b, c)
    [] ~b.done /\ ~b.skip /\ b.size = 0  -> TrailerByte(b, c)

\* The builder after the first i bytes of s.
BuildLoop(b, s) ==
  LET after[i \in 0 .. Len(s)] ==
        IF i = 0 THEN b ELSE BuildByte(after[i - 1], s[i])
  IN after

Build(b, s) == [BuildLoop(b, s)[Len(s)] EXCEPT !.skip = FALSE]

-----------------------------------------------------------------------------
(* What the client sends, and HttpHandler::handleReadCompletionEvent       *)

LineText(r) ==
  r.method \o <<"SP">> \o r.path
    \o (IF r.params = NoText THEN <<>> ELSE <<"?">> \o r.params)
    \o (IF r.protocol = NoText THEN <<>> ELSE <<"SP">> \o r.protocol) \o CRLF
HeaderTexts(r) ==
  [i \in DOMAIN r.headers |->
     r.headers[i].key \o r.headers[i].sep \o r.headers[i].value \o CRLF]
Blocks(r) ==
  [i \in DOMAIN r.chunks |->
     <<Digits[Len(r.chunks[i]) + 1]>> \o CRLF \o r.chunks[i] \o CRLF]
Text(r) ==
  LineText(r) \o FlattenSeq(HeaderTexts(r)) \o CRLF
    \o FlattenSeq(Blocks(r)) \o <<"0">> \o CRLF \o r.ending

\* What stands between a name and a value: nothing, or ":" and blanks.
Blanks(sep) == IF sep = <<>> THEN <<>> ELSE Tail(sep)
IsSeparator(sep) ==
  /\ sep \in Seq(Bytes)
  /\ sep # <<>> => sep[1] = ":" /\ \A i \in DOMAIN Blanks(sep) : Blanks(sep)[i] = "SP"

\* A header line: a name, and unless it stands alone a value, which may go on
\* in further lines that begin with a blank.
IsHeader(x) ==
  /\ x.key \in Seq(Bytes) /\ x.key # <<>> /\ x.key[1] \notin {"SP", "NUL"}
  /\ \A i \in DOMAIN x.key : x.key[i] \notin {":", "LF"}
  /\ IsSeparator(x.sep)
  /\ x.value \in Seq(Bytes)
  /\ x.value # <<>> => x.sep # <<>> /\ x.value[1] \notin {"SP", "CR", "LF"}
  /\ \A i \in DOMAIN x.value :
       x.value[i] = "LF" => i < Len(x.value) /\ x.value[i + 1] = "SP"

Lacks(s, chars) == s \in Seq(Bytes) /\ \A i \in DOMAIN s : s[i] \notin chars

\* Parameters are followed by a protocol; no block of the body is empty.
IsRequest(r) ==
  /\ r.method # <<>> /\ Lacks(r.method, {"SP"})
  /\ Lacks(r.path, {"?", "SP", "LF"})
  /\ r.params # NoText => Lacks(r.params, {"SP", "LF"}) /\ r.protocol # NoText
  /\ r.protocol # NoText => Lacks(r.protocol, {"LF"})
  /\ r.headers \in Seq(Range(r.headers))
  /\ \A i \in DOMAIN r.headers : IsHeader(r.headers[i])
  /\ r.chunks \in Seq(Seq(Bytes))
  /\ \A i \in DOMAIN r.chunks : Len(r.chunks[i]) \in 1 .. Len(Digits) - 1
  /\ r.ending \in Seq(Bytes)

ASSUME RequestsAssumption == \A r \in Requests : IsRequest(r)

\* data, head and builder after the bytes d, in the given state of the parser.
\* Body bytes are erased once the servlet has seen them.
Handle(d, s, b) ==
  LET t == IF s.headers THEN s ELSE Prepare(d, s)
      c == IF t.headers THEN Build(b, Sub(d, t.bodyStart, Len(d))) ELSE b
  IN [head |-> t, builder |-> c,
      data |-> IF t.headers /\ ~c.done THEN Sub(d, 0, t.bodyStart) ELSE d]

\* The next n bytes arrive at a handler that still reads this request.
Burst(n) ==
  /\ code = 0 /\ ~builder.done
  /\ n <= BufferSize /\ received + n <= Len(Text(request))
  /\ received' = received + n

Arrived(n) == data \o SubSeq(Text(request), received + 1, received + n)

\* Http10Handler::onReadEvent
ReadTooLong(n) ==
  /\ Burst(n)
  /\ ~head.line /\ Len(Arrived(n)) > LineMax
  /\ code' = 414 /\ data' = Arrived(n)
  /\ UNCHANGED <<request, head, builder>>

ReadBadLine(n) ==
  /\ Burst(n)
  /\ head.line \/ Len(Arrived(n)) <= LineMax
  /\ BadLine(Arrived(n), head)
  /\ code' = 400 /\ data' = Arrived(n)
  /\ UNCHANGED <<request, head, builder>>

Read(n) ==
  /\ Burst(n)
  /\ head.line \/ Len(Arrived(n)) <= LineMax
  /\ ~BadLine(Arrived(n), head)
  /\ LET r == Handle(Arrived(n), head, builder)
     IN head' = r.head /\ builder' = r.builder /\ data' = r.data
  /\ UNCHANGED <<request, code>>

Next == \E n \in 1 .. BufferSize : ReadTooLong(n) \/ ReadBadLine(n) \/ Read(n)

Spec == Init /\ [][Next]_vars

-----------------------------------------------------------------------------
(* Properties                                                              *)

\* No position points behind the bytes that are there, and the builder never
\* counts past the end of its block.
TypeOK ==
  /\ received \in 0 .. Len(Text(request)) /\ code \in {0, 400, 414}
  /\ Len(data) <= received
  /\ \A f \in {"trav", "methodEnd", "pathEnd", "paramStart", "paramEnd",
               "protStart", "protEnd", "lineEnd", "hstart", "cur", "bodyStart"} :
       head[f] \in 0 .. Len(data)
  /\ builder.size \in -1 .. Len(Digits) - 1
  /\ builder.read \in 0 .. Len(Digits) - 1
  /\ builder.size > 0 => builder.read < builder.size
  /\ builder.size <= 0 => builder.read = 0

\* However the bytes are cut into bursts, the request that is read is the one
\* that the same bytes in a single burst would give.
SplitIndependent ==
  code = 0 =>
    LET r == Handle(SubSeq(Text(request), 1, received), NewHead, NewBuilder)
    IN head = r.head /\ builder = r.builder

\* The parts of the request line and the headers are those the client sent; a
\* value of blanks only keeps them, a line without ":" is a name without value.
Part(s) == IF s = NoText THEN <<>> ELSE s
HeadIsRight ==
  /\ head.line =>
       /\ Sub(data, 0, head.methodEnd) = request.method
       /\ Sub(data, head.methodEnd + 1, head.pathEnd) = request.path
       /\ Sub(data, head.paramStart, head.paramEnd) = Part(request.params)
       /\ Sub(data, head.protStart, head.protEnd) = Part(request.protocol)
  /\ head.headers =>
       head.saved = [i \in DOMAIN request.headers |->
         [key   |-> request.headers[i].key,
          value |-> IF request.headers[i].value = <<>>
                    THEN Blanks(request.headers[i].sep)
                    ELSE request.headers[i].value]]

\* A body closes as build() has it when a CR follows a LF behind the last block;
\* so do those that Response writes.
Closes(r) ==
  \E i \in 1 .. Len(r.ending) - 1 : r.ending[i] = "LF" /\ r.ending[i + 1] = "CR"

\* The servlet gets the payload in order, without a byte of the framing, and
\* is told of the end only when it has all of it; a body that closes does end.
BodyIsRight ==
  LET payload == FlattenSeq(request.chunks)
  IN /\ IsPrefix(builder.out, payload)
     /\ builder.done => builder.out = payload
     /\ code = 0 /\ received = Len(Text(request)) /\ Closes(request) => builder.done

\* Both: the servlet is given the request that the client sent.
ParsedIsSent == HeadIsRight /\ BodyIsRight

\* ChunkedBodyBuilder.h:28: build() tells when the body has been read.
EndIsSeen == code = 0 /\ received = Len(Text(request)) => builder.done
=============================================================================
