--------------------------- MODULE ProcessMessages ---------------------------
(***************************************************************************)
(* The message channel between the master and one worker: Process with     *)
(* the handlers of HttpProcess, and SocketNIOReader for reads that fill    *)
(* their buffer.  A message is a header and, if its length is not 0, data; *)
(* each end reads the one, then the other, in parts as small as the kernel *)
(* likes.  Either process may end at any moment.                           *)
(*                                                                         *)
(* A byte is identified by its message and its place in it.  What one end  *)
(* has written is in its EvNIOWriter or in the socket until the other end  *)
(* reads it: wire.  The first byte of a header carries type and length.    *)
(* The three queries differ in the number they ask for; here it is the     *)
(* number of requests served.                                              *)
(***************************************************************************)
EXTENDS Integers, Sequences, SequencesExt

CONSTANTS HeaderSize,   \* sizeof(ProcessMessage_t)
          LongSize,     \* LONG_SIZE, the length of an answer
          UserSizes,    \* lengths of user-defined messages
          MaxMessages,  \* bound: messages the master sends
          MaxTotal      \* bound: requests the worker serves

ASSUME SizeAssumption ==
  HeaderSize \in Nat \ {0} /\ LongSize \in Nat \ {0} /\ UserSizes \subseteq Nat
ASSUME BoundsAssumption == MaxMessages \in Nat /\ MaxTotal \in Nat

Ends == {"master", "worker"}
Peer(e) == IF e = "master" THEN "worker" ELSE "master"

VARIABLES end,     \* the two Process objects
          wire,    \* wire[e]: bytes on their way to e
          sent,    \* history: messages sent to e
          got,     \* history: messages handed to e, as the bytes they came in
          total,   \* totalRequestCount of the worker
          shown,   \* totalRequestCount of the master
          asked,   \* history: total when each query without answer was sent
          fresh    \* history: no answer was older than its query

vars == <<end, wire, sent, got, total, shown, asked, fresh>>

Message == [type : {"total", "user", "exit"}, len : Nat, val : Nat]
Byte    == [msg : Message, at : Nat]
Entry   == [want : Nat, buf : Seq(Byte)]   \* planLength; buff, actualLength
EndState == [open : BOOLEAN, exiting : BOOLEAN, entries : Seq(Entry),
             msgExist : BOOLEAN, header : Seq(Byte)]

Bytes(m) == [i \in 1 .. HeaderSize + m.len |-> [msg |-> m, at |-> i]]
Msg(type, len, val) == [type |-> type, len |-> len, val |-> val]
Length(header) == header[1].msg.len

-----------------------------------------------------------------------------
(* Process, on the state s of one end                                      *)

ReadEntry(s, n) ==
  IF s.open THEN [s EXCEPT !.entries = Append(@, [want |-> n, buf |-> <<>>])]
  ELSE s

\* Fault: the next header is taken for data.
PrepareReadMessageKeepsFlag(s) == ReadEntry(s, HeaderSize)

PrepareReadMessage(s) == ReadEntry([s EXCEPT !.msgExist = FALSE], HeaderSize)

PrepareReadMessageData(s) == ReadEntry(s, Length(s.header))

\* Fault: the request just served stays in the queue.
PopEntryNone(s) == [s EXCEPT !.entries[1].buf = <<>>]

PopEntry(s) == [s EXCEPT !.entries = IF @ = <<>> THEN @ ELSE Tail(@)]

Close(s) == [s EXCEPT !.open = FALSE, !.entries = <<>>]

Started == PrepareReadMessage([open |-> TRUE, exiting |-> FALSE, entries |-> <<>>,
                               msgExist |-> FALSE, header |-> <<>>])

Init == /\ end = [e \in Ends |-> Started]
        /\ wire = [e \in Ends |-> <<>>]
        /\ sent = [e \in Ends |-> <<>>] /\ got = [e \in Ends |-> <<>>]
        /\ total = 0 /\ shown = 0 /\ asked = <<>> /\ fresh = TRUE

\* e is gone: exitProcess(), or the process ended.  What it had written and
\* the kernel not yet taken is lost.
Gone(e, k) ==
  /\ end' = [end EXCEPT ![e] = Close(@)]
  /\ wire' = [wire EXCEPT ![Peer(e)] = SubSeq(@, 1, k)]

-----------------------------------------------------------------------------
(* The master sends                                                        *)

\* Process::sendMessage: isAlive() looks for the worker first.
SendMessage(m) ==
  /\ end["master"].open /\ end["worker"].open
  /\ Len(sent["worker"]) < MaxMessages
  /\ wire' = [wire EXCEPT !["worker"] = @ \o Bytes(m)]
  /\ sent' = [sent EXCEPT !["worker"] = Append(@, m)]

QueryTotalRequestCount ==
  /\ SendMessage(Msg("total", 0, 0))
  /\ asked' = Append(asked, total)
  /\ UNCHANGED <<end, got, total, shown, fresh>>

SendUserMessage(n) ==
  /\ SendMessage(Msg("user", n, 0))
  /\ UNCHANGED <<end, got, total, shown, asked, fresh>>

\* Fault: a process that is exiting is not written to any more.
NotifyCloseUnsent ==
  /\ end["master"].open /\ end["worker"].open
  /\ end' = [end EXCEPT !["master"].exiting = TRUE]
  /\ UNCHANGED <<wire, sent, got, total, shown, asked, fresh>>

NotifyClose ==
  /\ SendMessage(Msg("exit", 0, 0))
  /\ end' = [end EXCEPT !["master"].exiting = TRUE]
  /\ UNCHANGED <<got, total, shown, asked, fresh>>

-----------------------------------------------------------------------------
(* readCallback: n bytes arrive at e                                       *)

Front1(e) == Head(end[e].entries)

Arrives(e, n) ==
  /\ end[e].open /\ end[e].entries # <<>>
  /\ n <= Front1(e).want - Len(Front1(e).buf) /\ n <= Len(wire[e])

Buffer(e, n) == Front1(e).buf \o SubSeq(wire[e], 1, n)
Taken(e, n)  == [wire EXCEPT ![e] = SubSeq(@, n + 1, Len(@))]

\* Fault: a buffer that is just full waits for more.
FullLate(e, n) == Len(Buffer(e, n)) > Front1(e).want

Full(e, n) == Len(Buffer(e, n)) >= Front1(e).want

ReceivePart(e, n) ==
  /\ Arrives(e, n) /\ ~Full(e, n)
  /\ end' = [end EXCEPT ![e].entries[1].buf = Buffer(e, n)]
  /\ wire' = Taken(e, n)
  /\ UNCHANGED <<sent, got, total, shown, asked, fresh>>

\* handleReadMessageCompletionEvent: a header that announces data
ReceiveHeader(e, n) ==
  /\ Arrives(e, n) /\ Full(e, n)
  /\ ~end[e].msgExist /\ Length(Buffer(e, n)) > 0
  /\ end' = [end EXCEPT ![e] = PopEntry(PrepareReadMessageData(
               [@ EXCEPT !.msgExist = TRUE, !.header = Buffer(e, n)]))]
  /\ wire' = Taken(e, n)
  /\ UNCHANGED <<sent, got, total, shown, asked, fresh>>

\* A message is complete: its listener is called with these bytes.
Received(e, n) ==
  IF end[e].msgExist THEN end[e].header \o Buffer(e, n) ELSE Buffer(e, n)

Complete(e, n, type) ==
  /\ Arrives(e, n) /\ Full(e, n)
  /\ end[e].msgExist \/ Length(Buffer(e, n)) = 0
  /\ Received(e, n)[1].msg.type = type
  /\ got' = [got EXCEPT ![e] = Append(@, Received(e, n))]

\* After the listener: the next header is asked for, the old request popped.
Ready(s) == PopEntry(PrepareReadMessage(s))

\* handleMessageInChild
ReceiveQuery(n) ==
  /\ Complete("worker", n, "total")
  /\ LET answer == Msg("total", LongSize, total)
     IN /\ wire' = [Taken("worker", n) EXCEPT !["master"] = @ \o Bytes(answer)]
        /\ sent' = [sent EXCEPT !["master"] = Append(@, answer)]
  /\ end' = [end EXCEPT !["worker"] = Ready(@)]
  /\ UNCHANGED <<total, shown, asked, fresh>>

ReceiveUser(n) ==
  /\ Complete("worker", n, "user")
  /\ end' = [end EXCEPT !["worker"] = Ready(@)]
  /\ wire' = Taken("worker", n)
  /\ UNCHANGED <<sent, total, shown, asked, fresh>>

\* EXIT: executeClose().  A worker without handlers ends.
ReceiveExit(n) ==
  /\ Complete("worker", n, "exit")
  /\ \/ /\ end' = [end EXCEPT !["worker"] = Ready([@ EXCEPT !.exiting = TRUE])]
        /\ wire' = Taken("worker", n)
     \/ \E k \in 0 .. Len(wire["master"]) :
          /\ end' = [end EXCEPT !["worker"] = Close(@)]
          /\ wire' = [Taken("worker", n) EXCEPT !["master"] = SubSeq(@, 1, k)]
  /\ UNCHANGED <<sent, total, shown, asked, fresh>>

\* Fault: the counts of several answers are added up.
ReceiveAnswerAdds(n) ==
  /\ Complete("master", n, "total")
  /\ shown' = shown + Buffer("master", n)[1].msg.val
  /\ fresh' = (fresh /\ shown' >= Head(asked))
  /\ asked' = Tail(asked)
  /\ end' = [end EXCEPT !["master"] = Ready(@)]
  /\ wire' = Taken("master", n)
  /\ UNCHANGED <<sent, total>>

\* handleMessageInParent, with the length that it checks
ReceiveAnswer(n) ==
  /\ Complete("master", n, "total")
  /\ IF Length(Received("master", n)) = LongSize
     THEN /\ shown' = Buffer("master", n)[1].msg.val
          /\ fresh' = (fresh /\ shown' >= Head(asked))
          /\ asked' = Tail(asked)
     ELSE UNCHANGED <<shown, fresh, asked>>
  /\ end' = [end EXCEPT !["master"] = Ready(@)]
  /\ wire' = Taken("master", n)
  /\ UNCHANGED <<sent, total>>

-----------------------------------------------------------------------------
(* Ends                                                                    *)

\* e is still reading, its peer has left and everything was read.
Alone(e) == /\ end[e].open /\ end[e].entries # <<>>
            /\ ~end[Peer(e)].open /\ wire[e] = <<>>

\* recv() fails once if the peer left with bytes unread.  The code adds the -1
\* to actualLength; only an empty buffer makes it an error.
ReceiveError(e) ==
  /\ Alone(e) /\ wire[Peer(e)] # <<>>
  /\ wire' = [wire EXCEPT ![Peer(e)] = <<>>]
  /\ end' = IF Front1(e).buf # <<>>
            THEN [end EXCEPT ![e].entries[1].buf = Front(Front1(e).buf)]
            ELSE [end EXCEPT ![e] = Close(@)]
  /\ UNCHANGED <<sent, got, total, shown, asked, fresh>>

\* Fault: the end of the channel only closes the reader.
ReceiveEndIgnored(e) ==
  /\ Alone(e)
  /\ end' = [end EXCEPT ![e].entries = <<>>]
  /\ UNCHANGED <<wire, sent, got, total, shown, asked, fresh>>

\* recv() returns 0: exitProcess()
ReceiveEnd(e) ==
  /\ Alone(e)
  /\ Gone(e, Len(wire[Peer(e)]))
  /\ UNCHANGED <<sent, got, total, shown, asked, fresh>>

\* onSendMessageEvent: a write to a peer that is gone fails.
SendError(e) ==
  /\ end[e].open /\ ~end[Peer(e)].open /\ wire[Peer(e)] # <<>>
  /\ Gone(e, 0)
  /\ UNCHANGED <<sent, got, total, shown, asked, fresh>>

\* The process ends, with k bytes of its own output already in the socket.
Dies(e, k) ==
  /\ end[e].open
  /\ k <= Len(wire[Peer(e)])
  /\ Gone(e, k)
  /\ UNCHANGED <<sent, got, total, shown, asked, fresh>>

\* HttpHandler::clean
CountRequest ==
  /\ end["worker"].open /\ total < MaxTotal
  /\ total' = total + 1
  /\ UNCHANGED <<end, wire, sent, got, shown, asked, fresh>>

MaxBytes == HeaderSize + LongSize

Receive(e) ==
  \E n \in 1 .. MaxBytes :
    \/ ReceivePart(e, n) \/ ReceiveHeader(e, n)
    \/ e = "worker" /\ (ReceiveQuery(n) \/ ReceiveUser(n) \/ ReceiveExit(n))
    \/ e = "master" /\ ReceiveAnswer(n)

Next ==
  \/ QueryTotalRequestCount \/ (\E n \in UserSizes : SendUserMessage(n))
  \/ NotifyClose \/ CountRequest
  \/ \E e \in Ends :
       \/ Receive(e) \/ ReceiveError(e) \/ ReceiveEnd(e) \/ SendError(e)
       \/ \E k \in 0 .. Len(wire[Peer(e)]) : Dies(e, k)

Spec == Init /\ [][Next]_vars

\* A readable socket is read; a socket whose peer is gone is readable.
Fairness == \A e \in Ends : WF_vars(Receive(e)) /\ WF_vars(ReceiveEnd(e))

FairSpec == Spec /\ Fairness

-----------------------------------------------------------------------------
(* Properties                                                              *)

TypeOK ==
  /\ end \in [Ends -> EndState]
  /\ wire \in [Ends -> Seq(Byte)]
  /\ sent \in [Ends -> Seq(Message)] /\ got \in [Ends -> Seq(Seq(Byte))]
  /\ total \in Nat /\ shown \in Nat /\ asked \in Seq(Nat) /\ fresh \in BOOLEAN
  /\ \A e \in Ends : \A i \in DOMAIN end[e].entries :
       Len(end[e].entries[i].buf) < end[e].entries[i].want

\* Each end is handed the messages that the other one sent, in their order and
\* with all of their bytes, however they were cut; never half of one.
MessagesArriveWhole ==
  \A e \in Ends :
    /\ Len(got[e]) <= Len(sent[e])
    /\ \A i \in DOMAIN got[e] : got[e][i] = Bytes(sent[e][i])

\* Between two callbacks an open end has one read request: for a header, or for
\* the data of the header it has.
OneReadOutstanding ==
  \A e \in Ends : end[e].open =>
    /\ Len(end[e].entries) = 1
    /\ Front1(e).want = IF end[e].msgExist THEN Length(end[e].header)
                        ELSE HeaderSize

\* HttpProcess.h:51: the number the master shows after an answer is one that
\* the worker had since the query was sent.
AnswersAreFresh == fresh /\ shown <= total

\* EXIT reaches a worker, whatever was sent before it.
ExitArrives ==
  end["master"].exiting ~> end["worker"].exiting \/ ~end["worker"].open

\* Neither process outlives the other's end for long: the master takes a dead
\* worker off its list, a worker ends when the master is gone.
DeathIsNoticed ==
  \A e \in Ends : ~end[e].open ~> ~end[Peer(e)].open
=============================================================================
