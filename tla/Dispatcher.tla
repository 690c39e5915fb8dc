----------------------------- MODULE Dispatcher -----------------------------
(***************************************************************************)
(* The master process and its workers: HttpServer accepts a connection,    *)
(* Dispatcher picks a worker and ProcessFDSender passes the descriptor     *)
(* over a socket pair, HttpProcess receives it and starts a handler.  A    *)
(* second socket pair carries messages, of which only EXIT matters here.   *)
(* Workers die, are forked anew while connections are under way, and are   *)
(* told to exit.                                                           *)
(*                                                                         *)
(* A connection is open as long as one descriptor of it is open in some    *)
(* process or in a socket buffer.  Descriptor numbers belong to the master *)
(* and are handed out by the kernel, the lowest free one first.            *)
(***************************************************************************)
EXTENDS Integers, Sequences, FiniteSets, SequencesExt

CONSTANTS WorkProcessCount, \* conf->workProcessCount
          MaxForks,         \* bound: worker processes ever forked
          MaxConn,          \* bound: connections ever accepted
          MaxFd,            \* client descriptors that fit into the master
          MaxExits          \* bound: EXIT messages on their way to one worker

ASSUME CountAssumption == WorkProcessCount \in Nat \ {0}
ASSUME BoundsAssumption == MaxForks \in Nat /\ MaxConn \in Nat /\ MaxFd \in Nat /\ MaxExits \in Nat

Workers == 1 .. MaxForks
Conns   == 1 .. MaxConn
Fds     == 1 .. MaxFd
NoFd    == 0     \* fdSendCompletionEvent.fd before the first success
NoConn  == 0     \* a free descriptor number

VARIABLES proc,     \* the master's HttpProcess objects
          child,    \* the worker processes
          table,    \* the master's descriptor table, client descriptors only
          forks,    \* workers forked so far
          accepted, \* connections accepted so far
          finished, \* history: connections closed by the worker that served them
          failed    \* history: a worker died or a descriptor was not sent

vars == <<proc, child, table, forks, accepted, finished, failed>>

\* st: where Dispatcher keeps the object; buried: how often it stands in
\* destroyedProcesses; open: the message channel; sender, queue, last: the
\* ProcessFDSender, its dataQueue and the descriptor of its last event.
Process == [st : {"NEW", "LISTED", "DESTROYED", "FREED"}, buried : Nat,
            exiting : BOOLEAN, open : BOOLEAN,
            sender : BOOLEAN, queue : Seq(Fds), last : Fds \cup {NoFd}]

\* wire, exits: connections and EXIT messages in the socket pairs to the worker;
\* held: connections with a handler; copies: descriptors that fork() duplicated.
Child == [up : BOOLEAN, wire : Seq(Conns), exits : 0 .. MaxExits,
          held : SUBSET Conns, copies : SUBSET Conns]

NewProcess == [st |-> "NEW", buried |-> 0, exiting |-> FALSE, open |-> FALSE,
               sender |-> FALSE, queue |-> <<>>, last |-> NoFd]
DeadChild  == [up |-> FALSE, wire |-> <<>>, exits |-> 0, held |-> {},
               copies |-> {}]

Init == /\ proc = [w \in Workers |-> NewProcess]
        /\ child = [w \in Workers |-> DeadChild]
        /\ table = [n \in Fds |-> NoConn]
        /\ forks = 0 /\ accepted = 0
        /\ finished = {} /\ failed = FALSE

AllProcesses == {w \in Workers : proc[w].st = "LISTED"}
Opened == {table[n] : n \in Fds} \ {NoConn}

-----------------------------------------------------------------------------
(* The master                                                              *)

\* Fault: createProcess() never looks at the processes that are left.
ForkAll == forks + 1 .. forks + WorkProcessCount

\* getIdleProcess: as many workers as are missing.  A failed fork() ends the
\* loop early, so some prefix of them is created.
Missing == forks + 1 .. forks + WorkProcessCount - Cardinality(AllProcesses)

\* Process::start: new is a set of workers to fork.  Each child inherits every
\* descriptor that the master has open, also those of clients.
Fork(new, opened) ==
  /\ new \subseteq Workers
  /\ child' = [w \in Workers |->
       IF w \in new THEN [DeadChild EXCEPT !.up = TRUE, !.copies = opened]
       ELSE child[w]]
  /\ forks' = forks + Cardinality(new)

Forked(new) ==
  [w \in Workers |->
     IF w \in new
     THEN [NewProcess EXCEPT !.st = "LISTED", !.open = TRUE, !.sender = TRUE]
     ELSE proc[w]]

\* Dispatcher::start.  Without all of its workers the server does not start.
Start ==
  /\ forks = 0
  /\ Fork(1 .. WorkProcessCount, {})
  /\ proc' = Forked(1 .. WorkProcessCount)
  /\ UNCHANGED <<table, accepted, finished, failed>>

\* Fault: a descriptor that no sender takes is left open.
AddTaskLeaks(procs, w, n) ==
  /\ proc' = IF procs[w].sender /\ ~procs[w].exiting
             THEN [procs EXCEPT ![w].queue = Append(@, n)] ELSE procs
  /\ table' = [table EXCEPT ![n] = accepted + 1]

\* HttpProcess::addTask: queue the descriptor n for w, or close it.
AddTask(procs, w, n) ==
  IF procs[w].sender /\ ~procs[w].exiting
  THEN /\ proc' = [procs EXCEPT ![w].queue = Append(@, n)]
       /\ table' = [table EXCEPT ![n] = accepted + 1]
  ELSE proc' = procs /\ UNCHANGED table

\* HttpServer::acceptCallback and Dispatcher::dispatch
AcceptAndDispatch ==
  /\ forks > 0 /\ accepted < MaxConn
  /\ \E n \in Fds :
       /\ table[n] = NoConn
       /\ \A m \in 1 .. n - 1 : table[m] # NoConn
       /\ \E k \in 0 .. Cardinality(Missing) :
            LET new == forks + 1 .. forks + k
            IN /\ Fork(new, Opened \cup {accepted + 1})
               /\ IF AllProcesses \cup new = {}
                  THEN UNCHANGED <<proc, table>>
                  ELSE \E w \in AllProcesses \cup new : AddTask(Forked(new), w, n)
  /\ accepted' = accepted + 1
  /\ UNCHANGED <<finished, failed>>

\* Fault: the master keeps its own descriptor after the worker got a copy.
SendFDKeeps(w) ==
  /\ proc[w].sender /\ proc[w].queue # <<>>
  /\ child[w].up
  /\ LET n == Head(proc[w].queue)
     IN /\ table[n] # NoConn
        /\ child' = [child EXCEPT ![w].wire = Append(@, table[n])]
        /\ proc' = [proc EXCEPT ![w].queue = Tail(@), ![w].last = n]
  /\ UNCHANGED <<table, forks, accepted, finished, failed>>

\* Fault: a descriptor that is not open any more passes for sent.
SendFDBlindly(w) ==
  /\ proc[w].sender /\ proc[w].queue # <<>>
  /\ child[w].up
  /\ LET n == Head(proc[w].queue)
     IN /\ child' = [child EXCEPT ![w].wire = Append(@, table[n])]
        /\ proc' = [proc EXCEPT ![w].queue = Tail(@), ![w].last = n]
        /\ table' = [table EXCEPT ![n] = NoConn]
  /\ UNCHANGED <<forks, accepted, finished, failed>>

\* The timer of w's ProcessFDSender: the front descriptor goes over the wire,
\* then Process::onFDSendCompletionEvent closes it here.
SendFD(w) ==
  /\ proc[w].sender /\ proc[w].queue # <<>>
  /\ child[w].up
  /\ LET n == Head(proc[w].queue)
     IN /\ table[n] # NoConn
        /\ child' = [child EXCEPT ![w].wire = Append(@, table[n])]
        /\ proc' = [proc EXCEPT ![w].queue = Tail(@), ![w].last = n]
        /\ table' = [table EXCEPT ![n] = NoConn]
  /\ UNCHANGED <<forks, accepted, finished, failed>>

\* The same when sendmsg() fails: the worker is dead, or n was closed behind
\* the sender's back.  The event still names the descriptor sent last, and
\* that one is closed; the queue is dropped.
SendFDFails(w) ==
  /\ proc[w].sender /\ proc[w].queue # <<>>
  /\ ~child[w].up \/ table[Head(proc[w].queue)] = NoConn
  /\ table' = [n \in Fds |-> IF n = proc[w].last THEN NoConn ELSE table[n]]
  /\ proc' = [proc EXCEPT ![w].sender = FALSE, ![w].queue = <<>>]
  /\ failed' = TRUE
  /\ UNCHANGED <<child, forks, accepted, finished>>

\* HttpProcess::exitProcess in the master: the worker closed its end of the
\* message channel.  addToDestroyedProcesses() and close().
ExitProcess(w) ==
  /\ proc[w].open /\ ~child[w].up
  /\ proc' = [proc EXCEPT ![w].st = "DESTROYED", ![w].buried = @ + 1,
                          ![w].open = FALSE, ![w].sender = FALSE,
                          ![w].queue = <<>>]
  /\ failed' = TRUE
  /\ UNCHANGED <<child, table, forks, accepted, finished>>

\* Dispatcher::cleanup, from the CleanerTimer
Cleanup ==
  /\ \E w \in Workers : proc[w].st = "DESTROYED"
  /\ proc' = [w \in Workers |->
       IF proc[w].st = "DESTROYED" THEN [proc[w] EXCEPT !.st = "FREED"]
       ELSE proc[w]]
  /\ UNCHANGED <<child, table, forks, accepted, finished, failed>>

\* Dispatcher::notifyCloseProcesses, which may be called again and again.
NotifyCloseProcesses ==
  /\ AllProcesses # {}
  /\ \A w \in AllProcesses : child[w].exits < MaxExits
  /\ proc' = [w \in Workers |->
       IF w \in AllProcesses THEN [proc[w] EXCEPT !.exiting = TRUE] ELSE proc[w]]
  /\ child' = [w \in Workers |->
       IF w \in AllProcesses /\ child[w].up
       THEN [child[w] EXCEPT !.exits = @ + 1] ELSE child[w]]
  /\ UNCHANGED <<table, forks, accepted, finished, failed>>

\* Dispatcher::killProcesses
KillProcesses ==
  /\ AllProcesses # {}
  /\ proc' = [w \in Workers |->
       IF w \in AllProcesses
       THEN [proc[w] EXCEPT !.st = "FREED", !.open = FALSE, !.sender = FALSE,
                            !.queue = <<>>]
       ELSE proc[w]]
  /\ child' = [w \in Workers |->
                 IF w \in AllProcesses THEN DeadChild ELSE child[w]]
  /\ failed' = TRUE
  /\ UNCHANGED <<table, forks, accepted, finished>>

-----------------------------------------------------------------------------
(* A worker                                                                *)

\* Fault: a descriptor read while errno still says EAGAIN is forgotten.
RecvFDForgets(w) ==
  /\ child[w].up /\ child[w].wire # <<>>
  /\ child' = [child EXCEPT ![w].wire = Tail(@)]
  /\ UNCHANGED <<proc, table, forks, accepted, finished, failed>>

\* fdReadCallback: a handler takes over the connection.
RecvFD(w) ==
  /\ child[w].up /\ child[w].wire # <<>>
  /\ child' = [child EXCEPT ![w].wire = Tail(@),
                            ![w].held = @ \cup {Head(child[w].wire)}]
  /\ UNCHANGED <<proc, table, forks, accepted, finished, failed>>

\* A handler closes its connection.
Finish(w, c) ==
  /\ child[w].up /\ c \in child[w].held
  /\ child' = [child EXCEPT ![w].held = @ \ {c}]
  /\ finished' = finished \cup {c}
  /\ UNCHANGED <<proc, table, forks, accepted, failed>>

\* handleMessageInChild, EXIT: notifyCloseAll() leaves the handlers that are
\* busy; the process exits if there are none.
ExecuteClose(w, busy) ==
  /\ child[w].up /\ child[w].exits > 0
  /\ busy \subseteq child[w].held
  /\ finished' = finished \cup (child[w].held \ busy)
  /\ child' = [child EXCEPT ![w] =
       IF busy = {} THEN DeadChild
       ELSE [child[w] EXCEPT !.exits = @ - 1, !.held = busy]]
  /\ failed' = (failed \/ busy = {})
  /\ UNCHANGED <<proc, table, forks, accepted>>

\* The worker dies: a crash, exitProcess() after a failed recvmsg(), or the
\* end of the message channel because the master closed it.
Dies(w) ==
  /\ child[w].up
  /\ child' = [child EXCEPT ![w] = DeadChild]
  /\ failed' = TRUE
  /\ UNCHANGED <<proc, table, forks, accepted, finished>>

Master ==
  \/ Start
  \/ AcceptAndDispatch
  \/ \E w \in Workers : SendFD(w) \/ SendFDFails(w) \/ ExitProcess(w)
  \/ Cleanup
  \/ NotifyCloseProcesses
  \/ KillProcesses

Worker(w) ==
  \/ RecvFD(w)
  \/ \E c \in Conns : Finish(w, c)
  \/ \E busy \in SUBSET Conns : ExecuteClose(w, busy)
  \/ Dies(w)

Next == Master \/ \E w \in Workers : Worker(w)

Spec == Init /\ [][Next]_vars

\* Both event loops go on: senders, receivers and channel ends are served.
Fairness ==
  \A w \in Workers : /\ WF_vars(SendFD(w)) /\ WF_vars(RecvFD(w))
                     /\ WF_vars(SendFDFails(w)) /\ WF_vars(ExitProcess(w))

FairSpec == Spec /\ Fairness

-----------------------------------------------------------------------------
(* Properties                                                              *)

TypeOK ==
  /\ proc \in [Workers -> Process]
  /\ child \in [Workers -> Child]
  /\ table \in [Fds -> Conns \cup {NoConn}]
  /\ forks \in 0 .. MaxForks /\ accepted \in 0 .. MaxConn
  /\ finished \subseteq Conns /\ failed \in BOOLEAN

InMaster(c)  == {n \in Fds : table[n] = c}
OnWire(c)    == {w \in Workers : c \in ToSet(child[w].wire)}
AtWorker(c)  == {w \in Workers : c \in child[w].held}

\* A connection is in one place only: one descriptor of the master, or on its
\* way to one worker, or served by one worker, or closed by it for good, however
\* workers die and descriptor numbers are used again.
InOnePlace ==
  \A c \in Conns :
     /\ Cardinality(InMaster(c)) + Cardinality(OnWire(c))
          + Cardinality(AtWorker(c)) + (IF c \in finished THEN 1 ELSE 0) <= 1
     /\ \A w \in Workers : Cardinality({i \in DOMAIN child[w].wire :
                                          child[w].wire[i] = c}) <= 1

\* As long as no worker has died and every descriptor could be sent, the client
\* descriptors open in the master are those in the queues, each in one.
CustodyUntilFailure ==
  ~failed =>
    /\ \A w \in Workers : ToSet(proc[w].queue) \subseteq
                            {n \in Fds : table[n] # NoConn}
    /\ \A n \in Fds : table[n] # NoConn =>
         \E w \in Workers :
           /\ proc[w].sender
           /\ Cardinality({i \in DOMAIN proc[w].queue :
                             proc[w].queue[i] = n}) = 1
           /\ \A v \in Workers \ {w} : n \notin ToSet(proc[v].queue)

\* Dead workers are replaced, but never more are listed than configured, and an
\* HttpProcess is in destroyedProcesses at most once, so it is deleted once.
PoolStaysWithinLimit ==
  /\ Cardinality(AllProcesses) <= WorkProcessCount
  /\ \A w \in Workers : /\ proc[w].buried <= 1
                        /\ proc[w].st # "LISTED" => ~proc[w].open

\* A connection that was dispatched gets a handler, unless a worker died or a
\* descriptor could not be sent.
DispatchedIsServed ==
  \A c \in Conns :
     InMaster(c) # {} \/ OnWire(c) # {}
       ~> AtWorker(c) # {} \/ c \in finished \/ failed

\* HttpProcess.cpp:219: a worker cleans up what it inherited from its parent.
\* A connection that was closed by its worker is open nowhere.
ClosedEverywhere ==
  \A w \in Workers : finished \cap child[w].copies = {}
=============================================================================
