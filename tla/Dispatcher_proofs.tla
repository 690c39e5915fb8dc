------------------------- MODULE Dispatcher_proofs -------------------------
(***************************************************************************)
(* Proofs about Dispatcher for any number of workers, forks, connections   *)
(* and descriptors: its type invariant and its three safety invariants.    *)
(*                                                                         *)
(* The properties count: how many places a connection is in, how many      *)
(* queues a descriptor, how many workers are listed.  The inductive        *)
(* invariant says the same without counting, by equality of places, and    *)
(* adds what is known of connections not yet accepted and of workers not   *)
(* yet forked.                                                             *)
(***************************************************************************)
EXTENDS Dispatcher, FiniteSetTheorems, SequenceTheorems, TLAPS

Wire(w)  == child[w].wire
Held(w)  == child[w].held
Queue(w) == proc[w].queue

\* What has not been forked is neither listed nor has it descriptors to send.
Unforked ==
  \A w \in Workers : w > forks => proc[w].st # "LISTED" /\ Queue(w) = <<>>

\* Only connections that were accepted are anywhere.
Accepted ==
  /\ \A n \in Fds : table[n] <= accepted
  /\ \A w \in Workers : \A i \in 1 .. Len(Wire(w)) : Wire(w)[i] <= accepted
  /\ \A w \in Workers : \A c \in Held(w) : c <= accepted
  /\ \A c \in finished : c <= accepted

\* Two places of the same kind that have a connection in common are one place.
SameKind ==
  /\ \A m, n \in Fds : table[m] = table[n] /\ table[m] # NoConn => m = n
  /\ \A w \in Workers : \A i, j \in 1 .. Len(Wire(w)) :
        Wire(w)[i] = Wire(w)[j] => i = j
  /\ \A v, w \in Workers :
        \A i \in 1 .. Len(Wire(v)), j \in 1 .. Len(Wire(w)) :
           Wire(v)[i] = Wire(w)[j] => v = w
  /\ \A v, w \in Workers : \A c \in Held(v) : c \in Held(w) => v = w

\* Places of different kinds have none in common.
OtherKind ==
  /\ \A n \in Fds : table[n] # NoConn =>
        /\ table[n] \notin finished
        /\ \A w \in Workers : table[n] \notin Held(w)
        /\ \A w \in Workers : \A i \in 1 .. Len(Wire(w)) : Wire(w)[i] # table[n]
  /\ \A w \in Workers : \A i \in 1 .. Len(Wire(w)) :
        /\ Wire(w)[i] \notin finished
        /\ \A v \in Workers : Wire(w)[i] \notin Held(v)
  /\ \A w \in Workers : \A c \in Held(w) : c \notin finished

Places == Accepted /\ SameKind /\ OtherKind

\* Until a failure the open descriptors are those queued, each at one place of one
\* queue.
Custody ==
  ~failed =>
    /\ \A w \in Workers : \A i \in 1 .. Len(Queue(w)) : table[Queue(w)[i]] # NoConn
    /\ \A w \in Workers : \A i, j \in 1 .. Len(Queue(w)) :
          Queue(w)[i] = Queue(w)[j] => i = j
    /\ \A v, w \in Workers :
          \A i \in 1 .. Len(Queue(v)), j \in 1 .. Len(Queue(w)) :
             Queue(v)[i] = Queue(w)[j] => v = w
    /\ \A n \in Fds : table[n] # NoConn =>
          \E w \in Workers : /\ proc[w].sender
                             /\ \E i \in 1 .. Len(Queue(w)) : Queue(w)[i] = n

\* An open message channel belongs to a listed process that was never buried.
Channels ==
  \A w \in Workers : /\ proc[w].buried <= 1
                     /\ proc[w].open => proc[w].st = "LISTED" /\ proc[w].buried = 0

Limit == Cardinality(AllProcesses) <= WorkProcessCount

IInv == TypeOK /\ Unforked /\ Places /\ Custody /\ Channels /\ Limit

-----------------------------------------------------------------------------
(* Lemmas about sequences and types                                        *)

LEMMA AppendItem ==
  ASSUME NEW S, NEW s \in Seq(S), NEW e \in S
  PROVE  /\ Append(s, e) \in Seq(S) /\ Len(s) \in Nat
         /\ Len(Append(s, e)) = Len(s) + 1
         /\ \A i \in 1 .. Len(s) : Append(s, e)[i] = s[i]
         /\ Append(s, e)[Len(s) + 1] = e
  BY SMT

LEMMA TailItems ==
  ASSUME NEW S, NEW s \in Seq(S), s # <<>>
  PROVE  /\ Len(s) \in Nat \ {0} /\ Head(s) = s[1] /\ s[1] \in S
         /\ Tail(s) \in Seq(S) /\ Len(Tail(s)) = Len(s) - 1
         /\ \A i \in 1 .. Len(s) - 1 : Tail(s)[i] = s[i + 1]
<1>1. Len(s) \in Nat \ {0}
  BY EmptySeq
<1>2. Head(s) = s[1] /\ s[1] \in S
  BY <1>1, ElementOfSeq
<1>3. /\ Tail(s) \in Seq(S) /\ Len(Tail(s)) = Len(s) - 1
      /\ \A i \in 1 .. Len(s) - 1 : Tail(s)[i] = s[i + 1]
  BY HeadTailProperties
<1> QED
  BY <1>1, <1>2, <1>3

LEMMA EmptyItems ==
  ASSUME NEW S
  PROVE  <<>> \in Seq(S) /\ Len(<<>>) = 0
  BY EmptySeq

LEMMA FieldTypes ==
  ASSUME TypeOK, NEW w \in Workers
  PROVE  /\ proc[w] \in Process /\ child[w] \in Child
         /\ Wire(w) \in Seq(Conns) /\ Len(Wire(w)) \in Nat
         /\ Held(w) \subseteq Conns
         /\ Queue(w) \in Seq(Fds) /\ Len(Queue(w)) \in Nat
         /\ proc[w].last \in Fds \cup {NoFd} /\ proc[w].buried \in Nat
         /\ proc[w].sender \in BOOLEAN
         /\ \A i \in 1 .. Len(Wire(w)) : Wire(w)[i] \in Conns
         /\ \A i \in 1 .. Len(Queue(w)) : Queue(w)[i] \in Fds
<1>1. proc[w] \in Process /\ child[w] \in Child
  BY DEF TypeOK
<1>2. /\ Wire(w) \in Seq(Conns) /\ Held(w) \subseteq Conns
      /\ Queue(w) \in Seq(Fds) /\ proc[w].last \in Fds \cup {NoFd}
      /\ proc[w].buried \in Nat /\ proc[w].sender \in BOOLEAN
  BY <1>1 DEF Process, Child, Wire, Held, Queue
<1>3. /\ Len(Wire(w)) \in Nat /\ Len(Queue(w)) \in Nat
      /\ \A i \in 1 .. Len(Wire(w)) : Wire(w)[i] \in Conns
      /\ \A i \in 1 .. Len(Queue(w)) : Queue(w)[i] \in Fds
  BY <1>2, ElementOfSeq
<1> QED
  BY <1>1, <1>2, <1>3

LEMMA PlaceNumbers ==
  ASSUME TypeOK, Accepted
  PROVE  /\ accepted \in Nat
         /\ \A m \in Fds : table[m] \in Nat /\ table[m] <= accepted
         /\ \A w \in Workers : \A i \in 1 .. Len(Wire(w)) :
               Wire(w)[i] \in Nat /\ Wire(w)[i] <= accepted
         /\ \A w \in Workers : \A c \in Held(w) : c \in Nat /\ c <= accepted
         /\ \A c \in finished : c \in Nat /\ c <= accepted
<1>1. Conns \subseteq Nat
  BY DEF Conns
<1>2. \A w \in Workers : /\ Held(w) \subseteq Conns
                         /\ \A i \in 1 .. Len(Wire(w)) : Wire(w)[i] \in Conns
  BY FieldTypes
<1>3. accepted \in Nat
  BY BoundsAssumption DEF TypeOK
<1>4. \A m \in Fds : table[m] \in Nat
  <2>1. \A m \in Fds : table[m] \in Conns \cup {NoConn}
    BY DEF TypeOK
  <2> QED
    BY <2>1 DEF NoConn, Conns
<1>5. finished \subseteq Conns
  BY DEF TypeOK
<1> QED
  BY <1>1, <1>2, <1>3, <1>4, <1>5 DEF Accepted

-----------------------------------------------------------------------------
(* What becomes of the places of connections                               *)

\* Descriptors are closed, wires dropped, and a worker finishes some of its own.
LEMMA LosePlaces ==
  ASSUME TypeOK, Places, accepted' = accepted,
         \A n \in Fds : table'[n] = table[n] \/ table'[n] = NoConn,
         \A w \in Workers : child'[w].wire = Wire(w) \/ child'[w].wire = <<>>,
         \A w \in Workers : child'[w].held \subseteq Held(w),
         NEW X, NEW u \in Workers, X \subseteq Held(u),
         child'[u].held \cap X = {}, finished' = finished \cup X
  PROVE  Places'
<1>1. \A w \in Workers :
        /\ Len(child'[w].wire) = Len(Wire(w)) \/ Len(child'[w].wire) = 0
        /\ \A i \in 1 .. Len(child'[w].wire) :
              i \in 1 .. Len(Wire(w)) /\ child'[w].wire[i] = Wire(w)[i]
  BY EmptyItems
<1>2. Accepted'
  BY <1>1, PlaceNumbers DEF Places, Accepted, Wire, Held, NoConn
<1>3. SameKind'
  <2>1. ASSUME NEW m \in Fds, NEW n \in Fds, table'[m] = table'[n], table'[m] # NoConn
        PROVE  m = n
    BY <2>1 DEF Places, SameKind
  <2>2. ASSUME NEW v \in Workers, NEW w \in Workers,
               NEW i \in 1 .. Len(child'[v].wire), NEW j \in 1 .. Len(child'[w].wire),
               child'[v].wire[i] = child'[w].wire[j]
        PROVE  v = w /\ i = j
    <3>1. i \in 1 .. Len(Wire(v)) /\ j \in 1 .. Len(Wire(w)) /\ Wire(v)[i] = Wire(w)[j]
      BY <1>1, <2>2
    <3>2. v = w
      BY <3>1 DEF Places, SameKind
    <3> QED
      BY <3>1, <3>2 DEF Places, SameKind
  <2>3. ASSUME NEW v \in Workers, NEW w \in Workers, NEW c \in child'[v].held,
               c \in child'[w].held
        PROVE  v = w
    BY <2>3 DEF Places, SameKind
  <2> QED
    BY <2>1, <2>2, <2>3 DEF SameKind, Wire, Held
<1>4. OtherKind'
  <2>1. ASSUME NEW n \in Fds, table'[n] # NoConn
        PROVE  /\ table'[n] \notin finished'
               /\ \A w \in Workers : table'[n] \notin child'[w].held
               /\ \A w \in Workers : \A i \in 1 .. Len(child'[w].wire) :
                     child'[w].wire[i] # table'[n]
    BY <1>1, <2>1 DEF Places, OtherKind
  <2>2. ASSUME NEW w \in Workers, NEW i \in 1 .. Len(child'[w].wire)
        PROVE  /\ child'[w].wire[i] \notin finished'
               /\ \A v \in Workers : child'[w].wire[i] \notin child'[v].held
    BY <1>1 DEF Places, OtherKind
  <2>3. ASSUME NEW w \in Workers, NEW c \in child'[w].held
        PROVE  c \notin finished'
    BY DEF Places, OtherKind, SameKind
  <2> QED
    BY <2>1, <2>2, <2>3 DEF OtherKind, Wire, Held
<1> QED
  BY <1>2, <1>3, <1>4 DEF Places

\* A new connection gets a free descriptor, or none; new workers have nothing.
LEMMA AcceptPlaces ==
  ASSUME TypeOK, Places, accepted' = accepted + 1, finished' = finished,
         NEW n \in Fds, table[n] = NoConn,
         \A m \in Fds : \/ table'[m] = table[m]
                        \/ m = n /\ table'[m] = accepted + 1,
         \A w \in Workers :
            \/ child'[w].wire = Wire(w) /\ child'[w].held = Held(w)
            \/ child'[w].wire = <<>> /\ child'[w].held = {}
  PROVE  Places'
<1>1. \A w \in Workers :
        /\ child'[w].held \subseteq Held(w)
        /\ \A i \in 1 .. Len(child'[w].wire) :
              i \in 1 .. Len(Wire(w)) /\ child'[w].wire[i] = Wire(w)[i]
  BY EmptyItems
<1>2. /\ accepted \in Nat
      /\ \A m \in Fds : table[m] \in Nat /\ table[m] <= accepted
      /\ \A w \in Workers : \A i \in 1 .. Len(Wire(w)) :
            Wire(w)[i] \in Nat /\ Wire(w)[i] <= accepted
      /\ \A w \in Workers : \A c \in Held(w) : c \in Nat /\ c <= accepted
      /\ \A c \in finished : c \in Nat /\ c <= accepted
  BY PlaceNumbers DEF Places
<1>3. Accepted'
  BY <1>1, <1>2 DEF Accepted, Wire, Held
<1>4. SameKind'
  <2>1. \A m, k \in Fds : table'[m] = table'[k] /\ table'[m] # NoConn => m = k
    BY <1>2 DEF Places, SameKind
  <2> QED
    BY <1>1, <2>1 DEF Places, SameKind, Wire, Held
<1>5. OtherKind'
  <2>1. ASSUME NEW m \in Fds, table'[m] # NoConn
        PROVE  /\ table'[m] \notin finished'
               /\ \A w \in Workers : table'[m] \notin child'[w].held
               /\ \A w \in Workers : \A i \in 1 .. Len(child'[w].wire) :
                     child'[w].wire[i] # table'[m]
    <3>1. CASE table'[m] = table[m]
      BY <1>1, <2>1, <3>1 DEF Places, OtherKind
    <3>2. CASE table'[m] = accepted + 1
      BY <1>1, <1>2, <3>2
    <3> QED
      BY <3>1, <3>2
  <2>2. ASSUME NEW w \in Workers, NEW i \in 1 .. Len(child'[w].wire)
        PROVE  /\ child'[w].wire[i] \notin finished'
               /\ \A v \in Workers : child'[w].wire[i] \notin child'[v].held
    BY <1>1 DEF Places, OtherKind
  <2>3. ASSUME NEW w \in Workers, NEW c \in child'[w].held
        PROVE  c \notin finished'
    BY <1>1 DEF Places, OtherKind
  <2> QED
    BY <2>1, <2>2, <2>3 DEF OtherKind, Wire, Held
<1> QED
  BY <1>3, <1>4, <1>5 DEF Places

\* An open descriptor leaves the master for the wire to worker u.
LEMMA SendPlaces ==
  ASSUME TypeOK, Places, accepted' = accepted, finished' = finished,
         NEW u \in Workers, NEW n \in Fds, table[n] # NoConn, table'[n] = NoConn,
         \A m \in Fds \ {n} : table'[m] = table[m],
         child'[u].wire = Append(Wire(u), table[n]),
         \A w \in Workers \ {u} : child'[w].wire = Wire(w),
         \A w \in Workers : child'[w].held = Held(w)
  PROVE  Places'
<1> DEFINE k == Len(Wire(u))
<1>1. Wire(u) \in Seq(Conns) /\ table[n] \in Conns
  BY FieldTypes DEF TypeOK
<1>2. /\ k \in Nat /\ Len(child'[u].wire) = k + 1
      /\ \A i \in 1 .. k : child'[u].wire[i] = Wire(u)[i]
      /\ child'[u].wire[k + 1] = table[n]
  BY <1>1, AppendItem
<1>3. \A i \in 1 .. k + 1 : i \in 1 .. k \/ i = k + 1
  BY <1>2
<1> HIDE DEF k
\* An item of a wire was there before, or is the new connection.
<1>4. ASSUME NEW w \in Workers, NEW i \in 1 .. Len(child'[w].wire)
      PROVE  \/ i \in 1 .. Len(Wire(w)) /\ child'[w].wire[i] = Wire(w)[i]
             \/ w = u /\ i = k + 1 /\ child'[w].wire[i] = table[n]
  BY <1>2, <1>3 DEF k
<1>5. Accepted'
  <2>1. \A m \in Fds : table'[m] <= accepted'
    BY PlaceNumbers DEF Places, Accepted, NoConn
  <2>2. \A w \in Workers : \A i \in 1 .. Len(child'[w].wire) :
           child'[w].wire[i] <= accepted'
    BY <1>4 DEF Places, Accepted
  <2> QED
    BY <2>1, <2>2 DEF Places, Accepted, Wire, Held
<1>6. SameKind'
  <2>1. \A m, l \in Fds : table'[m] = table'[l] /\ table'[m] # NoConn => m = l
    BY DEF Places, SameKind
  <2>2. ASSUME NEW v \in Workers, NEW w \in Workers,
               NEW i \in 1 .. Len(child'[v].wire), NEW j \in 1 .. Len(child'[w].wire),
               child'[v].wire[i] = child'[w].wire[j]
        PROVE  v = w /\ i = j
    <3>1. CASE /\ i \in 1 .. Len(Wire(v)) /\ child'[v].wire[i] = Wire(v)[i]
               /\ j \in 1 .. Len(Wire(w)) /\ child'[w].wire[j] = Wire(w)[j]
      <4>1. Wire(v)[i] = Wire(w)[j]
        BY <2>2, <3>1
      <4>2. v = w
        BY <3>1, <4>1 DEF Places, SameKind
      <4> QED
        BY <3>1, <4>1, <4>2 DEF Places, SameKind
    <3>2. CASE /\ i \in 1 .. Len(Wire(v)) /\ child'[v].wire[i] = Wire(v)[i]
               /\ child'[w].wire[j] = table[n]
      BY <2>2, <3>2 DEF Places, OtherKind
    <3>3. CASE /\ child'[v].wire[i] = table[n]
               /\ j \in 1 .. Len(Wire(w)) /\ child'[w].wire[j] = Wire(w)[j]
      BY <2>2, <3>3 DEF Places, OtherKind
    <3>4. CASE v = u /\ i = k + 1 /\ w = u /\ j = k + 1
      BY <3>4
    <3> QED
      BY <1>4, <3>1, <3>2, <3>3, <3>4
  <2>3. \A v, w \in Workers : \A c \in child'[v].held : c \in child'[w].held => v = w
    BY DEF Places, SameKind
  <2> QED
    BY <2>1, <2>2, <2>3 DEF SameKind, Wire, Held
<1>7. OtherKind'
  <2>1. ASSUME NEW m \in Fds, table'[m] # NoConn
        PROVE  /\ table'[m] \notin finished'
               /\ \A w \in Workers : table'[m] \notin child'[w].held
               /\ \A w \in Workers : \A i \in 1 .. Len(child'[w].wire) :
                     child'[w].wire[i] # table'[m]
    <3>1. m # n /\ table'[m] = table[m] /\ table[m] # table[n]
      BY <2>1 DEF Places, SameKind
    <3> QED
      BY <1>4, <2>1, <3>1 DEF Places, OtherKind
  <2>2. ASSUME NEW w \in Workers, NEW i \in 1 .. Len(child'[w].wire)
        PROVE  /\ child'[w].wire[i] \notin finished'
               /\ \A v \in Workers : child'[w].wire[i] \notin child'[v].held
    BY <1>4 DEF Places, OtherKind
  <2>3. ASSUME NEW w \in Workers, NEW c \in child'[w].held
        PROVE  c \notin finished'
    BY DEF Places, OtherKind
  <2> QED
    BY <2>1, <2>2, <2>3 DEF OtherKind, Wire, Held
<1> QED
  BY <1>5, <1>6, <1>7 DEF Places

\* Worker u takes the first connection off its wire.
LEMMA RecvPlaces ==
  ASSUME TypeOK, Places,
         accepted' = accepted, finished' = finished, table' = table,
         NEW u \in Workers, Wire(u) # <<>>,
         child'[u].wire = Tail(Wire(u)),
         child'[u].held = Held(u) \cup {Head(Wire(u))},
         \A w \in Workers \ {u} : child'[w].wire = Wire(w) /\ child'[w].held = Held(w)
  PROVE  Places'
<1> DEFINE k == Len(Wire(u))
           c0 == Wire(u)[1]
<1>1. Wire(u) \in Seq(Conns)
  BY FieldTypes
<1>2. /\ k \in Nat \ {0} /\ Len(child'[u].wire) = k - 1
      /\ \A i \in 1 .. k - 1 : child'[u].wire[i] = Wire(u)[i + 1]
      /\ child'[u].held = Held(u) \cup {c0}
  BY <1>1, TailItems
<1>3. 1 \in 1 .. k /\ \A i \in 1 .. k - 1 : i + 1 \in 1 .. k /\ i + 1 # 1
  BY <1>2
<1> DEFINE old(w, i) == IF w = u THEN i + 1 ELSE i
<1>4. ASSUME NEW w \in Workers, NEW i \in 1 .. Len(child'[w].wire)
      PROVE  /\ old(w, i) \in 1 .. Len(Wire(w))
             /\ child'[w].wire[i] = Wire(w)[old(w, i)]
             /\ child'[w].wire[i] # c0
  <2>1. old(w, i) \in 1 .. Len(Wire(w)) /\ child'[w].wire[i] = Wire(w)[old(w, i)]
    BY <1>2, <1>3
  <2>2. w = u => old(w, i) # 1
    BY <1>2, <1>3
  <2> HIDE DEF old
  <2>3. Wire(w)[old(w, i)] # Wire(u)[1]
    BY <1>3, <2>1, <2>2 DEF Places, SameKind
  <2> QED
    BY <2>1, <2>3
<1>5. \A w \in Workers : \A i, j \in 1 .. Len(child'[w].wire) :
         old(w, i) = old(w, j) => i = j
  BY <1>2
<1> HIDE DEF k, c0, old
<1>6. c0 \notin finished /\ c0 <= accepted /\ \A w \in Workers : c0 \notin Held(w)
  BY <1>3 DEF Places, OtherKind, Accepted, c0, k
<1>7. ASSUME NEW w \in Workers, NEW c \in child'[w].held
      PROVE  c \in Held(w) \/ (w = u /\ c = c0)
  BY <1>2
<1>8. Accepted'
  BY <1>4, <1>6, <1>7 DEF Places, Accepted, Wire, Held
<1>9. SameKind'
  <2>1. ASSUME NEW v \in Workers, NEW w \in Workers,
               NEW i \in 1 .. Len(child'[v].wire), NEW j \in 1 .. Len(child'[w].wire),
               child'[v].wire[i] = child'[w].wire[j]
        PROVE  v = w /\ i = j
    BY <1>4, <1>5, <2>1 DEF Places, SameKind
  <2>2. ASSUME NEW v \in Workers, NEW w \in Workers, NEW c \in child'[v].held,
               c \in child'[w].held
        PROVE  v = w
    BY <1>6, <1>7, <2>2 DEF Places, SameKind
  <2>3. \A m, n \in Fds : table'[m] = table'[n] /\ table'[m] # NoConn => m = n
    BY DEF Places, SameKind
  <2> QED
    BY <2>1, <2>2, <2>3 DEF SameKind, Wire, Held
<1>10. OtherKind'
  <2>1. ASSUME NEW m \in Fds, table'[m] # NoConn
        PROVE  /\ table'[m] \notin finished'
               /\ \A w \in Workers : table'[m] \notin child'[w].held
               /\ \A w \in Workers : \A i \in 1 .. Len(child'[w].wire) :
                     child'[w].wire[i] # table'[m]
    <3>1. table[m] # c0
      BY <1>3, <2>1 DEF Places, OtherKind, c0, k
    <3> QED
      BY <1>4, <1>7, <2>1, <3>1 DEF Places, OtherKind
  <2>2. ASSUME NEW w \in Workers, NEW i \in 1 .. Len(child'[w].wire)
        PROVE  /\ child'[w].wire[i] \notin finished'
               /\ \A v \in Workers : child'[w].wire[i] \notin child'[v].held
    BY <1>4, <1>7 DEF Places, OtherKind
  <2>3. ASSUME NEW w \in Workers, NEW c \in child'[w].held
        PROVE  c \notin finished'
    BY <1>6, <1>7 DEF Places, OtherKind
  <2> QED
    BY <2>1, <2>2, <2>3 DEF OtherKind, Wire, Held
<1> QED
  BY <1>8, <1>9, <1>10 DEF Places

-----------------------------------------------------------------------------
(* What becomes of the queues                                              *)

LEMMA CustodyKept ==
  ASSUME Custody, failed => failed', table' = table,
         \A w \in Workers : /\ proc'[w].queue = Queue(w)
                            /\ Queue(w) # <<>> => proc'[w].sender = proc[w].sender
  PROVE  Custody'
<1> SUFFICES ASSUME ~failed' PROVE Custody'
  BY DEF Custody
<1>1. ASSUME NEW n \in Fds, table'[n] # NoConn
      PROVE  \E w \in Workers : /\ proc'[w].sender
                                /\ \E i \in 1 .. Len(proc'[w].queue) :
                                      proc'[w].queue[i] = n
  <2>1. PICK w \in Workers : /\ proc[w].sender
                             /\ \E i \in 1 .. Len(Queue(w)) : Queue(w)[i] = n
    BY <1>1 DEF Custody
  <2>2. Queue(w) # <<>>
    BY <2>1, EmptyItems
  <2> QED
    BY <2>1, <2>2
<1>2. \A w \in Workers : \A i \in 1 .. Len(proc'[w].queue) : table'[proc'[w].queue[i]] # NoConn
  BY DEF Custody
<1>3. \A w \in Workers : \A i, j \in 1 .. Len(proc'[w].queue) :
         proc'[w].queue[i] = proc'[w].queue[j] => i = j
  BY DEF Custody
<1>4. \A v, w \in Workers :
         \A i \in 1 .. Len(proc'[v].queue), j \in 1 .. Len(proc'[w].queue) :
            proc'[v].queue[i] = proc'[w].queue[j] => v = w
  <2> TAKE v, w \in Workers
  <2>1. proc'[v].queue = Queue(v) /\ proc'[w].queue = Queue(w)
    OBVIOUS
  <2> QED
    BY <2>1 DEF Custody
<1> QED
  BY <1>1, <1>2, <1>3, <1>4 DEF Custody, Queue

\* A free descriptor is given to a connection and queued for u.
LEMMA CustodyAccepts ==
  ASSUME TypeOK, Custody, failed' = failed,
         NEW n \in Fds, table[n] = NoConn, table' = [table EXCEPT ![n] = accepted + 1],
         NEW u \in Workers, proc'[u].queue = Append(Queue(u), n), proc'[u].sender,
         \A w \in Workers \ {u} :
            /\ proc'[w].queue = Queue(w)
            /\ Queue(w) # <<>> => proc'[w].sender = proc[w].sender
  PROVE  Custody'
<1> SUFFICES ASSUME ~failed, ~failed' PROVE Custody'
  BY DEF Custody
<1> DEFINE k == Len(Queue(u))
<1>1. Queue(u) \in Seq(Fds)
  BY FieldTypes
<1>2. /\ k \in Nat /\ Len(proc'[u].queue) = k + 1
      /\ \A i \in 1 .. k : proc'[u].queue[i] = Queue(u)[i]
      /\ proc'[u].queue[k + 1] = n
  BY <1>1, AppendItem
<1>3. \A i \in 1 .. k + 1 : i \in 1 .. k \/ i = k + 1
  BY <1>2
<1>4. k + 1 \in 1 .. k + 1 /\ \A i \in 1 .. k : i \in 1 .. k + 1
  BY <1>2
<1> HIDE DEF k
<1>5. ASSUME NEW w \in Workers, NEW i \in 1 .. Len(proc'[w].queue)
      PROVE  \/ /\ i \in 1 .. Len(Queue(w)) /\ proc'[w].queue[i] = Queue(w)[i]
                /\ Queue(w)[i] # n /\ table[Queue(w)[i]] # NoConn
             \/ w = u /\ i = k + 1 /\ proc'[w].queue[i] = n
  BY <1>2, <1>3 DEF k, Custody
<1>6. \A m \in Fds : /\ m # n => table'[m] = table[m]
                     /\ table'[n] # NoConn
  <2>1. accepted + 1 # NoConn
    BY BoundsAssumption DEF TypeOK, NoConn
  <2> QED
    BY <2>1 DEF TypeOK
<1>7. \A w \in Workers : \A i \in 1 .. Len(proc'[w].queue) :
         table'[proc'[w].queue[i]] # NoConn
  <2> SUFFICES ASSUME NEW w \in Workers, NEW i \in 1 .. Len(proc'[w].queue)
               PROVE  table'[proc'[w].queue[i]] # NoConn
    OBVIOUS
  <2>1. CASE /\ i \in 1 .. Len(Queue(w)) /\ proc'[w].queue[i] = Queue(w)[i]
             /\ Queue(w)[i] # n /\ table[Queue(w)[i]] # NoConn
    <3>1. Queue(w)[i] \in Fds
      BY <2>1, FieldTypes
    <3> QED
      BY <1>6, <2>1, <3>1
  <2>2. CASE proc'[w].queue[i] = n
    BY <1>6, <2>2
  <2> QED
    BY <1>5, <2>1, <2>2
<1>8. ASSUME NEW v \in Workers, NEW w \in Workers,
             NEW i \in 1 .. Len(proc'[v].queue), NEW j \in 1 .. Len(proc'[w].queue),
             proc'[v].queue[i] = proc'[w].queue[j]
      PROVE  v = w /\ i = j
  <2>1. CASE proc'[v].queue[i] = n
    BY <1>5, <1>8, <2>1
  <2>2. CASE proc'[v].queue[i] # n
    <3>1. /\ i \in 1 .. Len(Queue(v)) /\ j \in 1 .. Len(Queue(w))
          /\ Queue(v)[i] = Queue(w)[j]
      BY <1>5, <1>8, <2>2
    <3>2. v = w
      BY <3>1 DEF Custody
    <3> QED
      BY <3>1, <3>2 DEF Custody
  <2> QED
    BY <2>1, <2>2
<1>9. ASSUME NEW m \in Fds, table'[m] # NoConn
      PROVE  \E w \in Workers : /\ proc'[w].sender
                                /\ \E i \in 1 .. Len(proc'[w].queue) :
                                      proc'[w].queue[i] = m
  <2>1. CASE m = n
    BY <1>2, <1>4, <2>1
  <2>2. CASE m # n
    <3>1. PICK w \in Workers : /\ proc[w].sender
                               /\ \E i \in 1 .. Len(Queue(w)) : Queue(w)[i] = m
      BY <1>6, <1>9, <2>2 DEF Custody
    <3>2. Queue(w) # <<>>
      BY <3>1, EmptyItems
    <3>3. CASE w = u
      BY <1>2, <1>4, <3>1, <3>3 DEF k
    <3>4. CASE w # u
      BY <3>1, <3>2, <3>4
    <3> QED
      BY <3>3, <3>4
  <2> QED
    BY <2>1, <2>2
<1> QED
  BY <1>7, <1>8, <1>9 DEF Custody, Queue

\* The first descriptor of u's queue is closed.
LEMMA CustodyGives ==
  ASSUME TypeOK, Custody, failed' = failed,
         NEW u \in Workers, Queue(u) # <<>>,
         proc'[u].queue = Tail(Queue(u)), proc'[u].sender = proc[u].sender,
         \A w \in Workers \ {u} : proc'[w] = proc[w],
         table' = [table EXCEPT ![Queue(u)[1]] = NoConn]
  PROVE  Custody'
<1> SUFFICES ASSUME ~failed, ~failed' PROVE Custody'
  BY DEF Custody
<1> DEFINE k == Len(Queue(u))
           n == Queue(u)[1]
<1>1. Queue(u) \in Seq(Fds)
  BY FieldTypes
<1>2. /\ k \in Nat \ {0} /\ Len(proc'[u].queue) = k - 1
      /\ \A i \in 1 .. k - 1 : proc'[u].queue[i] = Queue(u)[i + 1]
      /\ n \in Fds
  BY <1>1, TailItems
<1>3. 1 \in 1 .. k /\ \A i \in 1 .. k - 1 : i + 1 \in 1 .. k /\ i + 1 # 1
  BY <1>2
<1> DEFINE old(w, i) == IF w = u THEN i + 1 ELSE i
<1>4. ASSUME NEW w \in Workers, NEW i \in 1 .. Len(proc'[w].queue)
      PROVE  /\ old(w, i) \in 1 .. Len(Queue(w))
             /\ proc'[w].queue[i] = Queue(w)[old(w, i)]
             /\ Queue(w)[old(w, i)] # n
  <2>1. old(w, i) \in 1 .. Len(Queue(w)) /\ proc'[w].queue[i] = Queue(w)[old(w, i)]
    BY <1>2, <1>3 DEF Queue
  <2>2. w = u => old(w, i) # 1
    BY <1>2, <1>3
  <2> HIDE DEF old
  <2>3. Queue(w)[old(w, i)] # Queue(u)[1]
    BY <1>3, <2>1, <2>2 DEF Custody
  <2> QED
    BY <2>1, <2>3
<1>5. \A w \in Workers : \A i, j \in 1 .. Len(proc'[w].queue) :
         old(w, i) = old(w, j) => i = j
  BY <1>2
<1>6. \A m \in Fds : /\ m # n => table'[m] = table[m]
                     /\ table'[n] = NoConn
  BY <1>2 DEF TypeOK
<1>7. \A w \in Workers : \A i \in 1 .. Len(Queue(w)) : Queue(w)[i] \in Fds
  BY FieldTypes
<1>8. ASSUME NEW m \in Fds, table'[m] # NoConn
      PROVE  \E w \in Workers : /\ proc'[w].sender
                                /\ \E i \in 1 .. Len(proc'[w].queue) :
                                      proc'[w].queue[i] = m
  <2>1. m # n /\ table[m] # NoConn
    BY <1>6, <1>8
  <2>0. PICK w \in Workers : /\ proc[w].sender
                             /\ \E i \in 1 .. Len(Queue(w)) : Queue(w)[i] = m
    BY <2>1 DEF Custody
  <2>2. PICK j \in 1 .. Len(Queue(w)) : proc[w].sender /\ Queue(w)[j] = m
    BY <2>0
  <2>3. CASE w = u
    <3>1. j \in 1 .. k /\ j # 1
      BY <2>1, <2>2, <2>3
    <3>2. j - 1 \in 1 .. k - 1 /\ j - 1 + 1 = j
      BY <1>2, <3>1
    <3>3. proc'[u].queue[j - 1] = m
      BY <1>2, <2>2, <2>3, <3>2
    <3> QED
      BY <1>2, <2>2, <2>3, <3>2, <3>3
  <2>4. CASE w # u
    BY <2>2, <2>4 DEF Queue
  <2> QED
    BY <2>3, <2>4
<1> HIDE DEF k, n, old
<1>9. ASSUME NEW w \in Workers, NEW i \in 1 .. Len(proc'[w].queue)
      PROVE  table'[proc'[w].queue[i]] # NoConn
  <2> DEFINE j == old(w, i)
  <2>1. /\ j \in 1 .. Len(Queue(w)) /\ proc'[w].queue[i] = Queue(w)[j]
        /\ Queue(w)[j] # n
    BY <1>4
  <2> HIDE DEF j
  <2>2. Queue(w)[j] \in Fds /\ table[Queue(w)[j]] # NoConn
    BY <1>7, <2>1 DEF Custody
  <2> QED
    BY <1>6, <2>1, <2>2
<1>10. ASSUME NEW v \in Workers, NEW w \in Workers,
              NEW i \in 1 .. Len(proc'[v].queue), NEW j \in 1 .. Len(proc'[w].queue),
              proc'[v].queue[i] = proc'[w].queue[j]
       PROVE  v = w /\ i = j
  <2>1. Queue(v)[old(v, i)] = Queue(w)[old(w, j)]
    BY <1>4, <1>10
  <2>2. v = w
    BY <1>4, <2>1 DEF Custody
  <2>3. old(v, i) = old(w, j)
    BY <1>4, <2>1, <2>2 DEF Custody
  <2> QED
    BY <1>5, <2>2, <2>3
<1> QED
  BY <1>8, <1>9, <1>10 DEF Custody, Queue

-----------------------------------------------------------------------------
(* The listed processes                                                    *)

LEMMA ListedAreFinite ==
  /\ IsFiniteSet(AllProcesses) /\ Cardinality(AllProcesses) \in Nat
  /\ AllProcesses \subseteq Workers
<1>1. IsFiniteSet(Workers)
  BY BoundsAssumption, FS_Interval DEF Workers
<1>2. AllProcesses \subseteq Workers
  BY DEF AllProcesses
<1> QED
  BY <1>1, <1>2, FS_Subset, FS_CardinalityType

LEMMA LimitKept ==
  ASSUME Limit, AllProcesses' \subseteq AllProcesses
  PROVE  Limit'
<1>1. Cardinality(AllProcesses') <= Cardinality(AllProcesses)
  BY ListedAreFinite, FS_Subset
<1>2. Cardinality(AllProcesses') \in Nat /\ Cardinality(AllProcesses) \in Nat
  <2>1. IsFiniteSet(AllProcesses')
    BY ListedAreFinite, FS_Subset
  <2> QED
    BY <2>1, ListedAreFinite, FS_CardinalityType
<1> QED
  BY <1>1, <1>2, CountAssumption DEF Limit

\* Forking k workers: who is new, and how many.
LEMMA ForkedWorkers ==
  ASSUME TypeOK, NEW k \in Nat, forks + 1 .. forks + k \subseteq Workers
  PROVE  LET new == forks + 1 .. forks + k
         IN /\ forks + k \in 0 .. MaxForks
            /\ Cardinality(new) = k /\ IsFiniteSet(new)
            /\ \A w \in new : w > forks /\ w <= forks + k
            /\ \A w \in Workers : w > forks + k => w \notin new
<1> DEFINE new == forks + 1 .. forks + k
<1>1. forks \in Nat /\ forks <= MaxForks /\ MaxForks \in Nat
  BY BoundsAssumption DEF TypeOK
<1>2. forks + k <= MaxForks
  <2>1. CASE k = 0
    BY <1>1, <2>1
  <2>2. CASE k > 0
    <3>1. forks + k \in new
      BY <1>1, <2>2
    <3> QED
      BY <3>1 DEF Workers
  <2> QED
    BY <2>1, <2>2
<1>3. IsFiniteSet(new) /\ Cardinality(new) = k
  BY <1>1, FS_Interval
<1> QED
  BY <1>1, <1>2, <1>3

LEMMA ForkedTypes ==
  ASSUME TypeOK, NEW new, new \subseteq Workers
  PROVE  /\ Forked(new) \in [Workers -> Process]
         /\ \A w \in new : /\ Forked(new)[w].st = "LISTED" /\ Forked(new)[w].queue = <<>>
                           /\ Forked(new)[w].buried = 0 /\ Forked(new)[w].sender = TRUE
         /\ \A w \in Workers \ new : Forked(new)[w] = proc[w]
<1> DEFINE fresh == [NewProcess EXCEPT !.st = "LISTED", !.open = TRUE, !.sender = TRUE]
<1>1. /\ fresh \in Process /\ fresh.st = "LISTED" /\ fresh.queue = <<>>
      /\ fresh.buried = 0 /\ fresh.sender = TRUE
  BY EmptyItems DEF NewProcess, Process, NoFd
<1> HIDE DEF fresh
<1>2. Forked(new) = [w \in Workers |-> IF w \in new THEN fresh ELSE proc[w]]
  BY DEF Forked, fresh
<1> QED
  BY <1>1, <1>2 DEF TypeOK

LEMMA DeadChildType == DeadChild \in Child /\ DeadChild.wire = <<>> /\ DeadChild.held = {}
<1>1. 0 \in 0 .. MaxExits /\ <<>> \in Seq(Conns)
  BY EmptyItems, BoundsAssumption
<1> QED
  BY <1>1 DEF DeadChild, Child

LEMMA NewChildType ==
  ASSUME NEW opened, opened \subseteq Conns
  PROVE  LET c == [DeadChild EXCEPT !.up = TRUE, !.copies = opened]
         IN  c \in Child /\ c.wire = <<>> /\ c.held = {}
<1>1. 0 \in 0 .. MaxExits /\ <<>> \in Seq(Conns)
  BY EmptyItems, BoundsAssumption
<1> QED
  BY <1>1 DEF DeadChild, Child

-----------------------------------------------------------------------------
(* What the actions do to the invariant                                    *)

LEMMA StartInv == IInv /\ Start => IInv'
<1> SUFFICES ASSUME IInv, Start PROVE IInv'
  OBVIOUS
<1> DEFINE new == 1 .. WorkProcessCount
<1>1. /\ forks = 0 /\ new \subseteq Workers /\ proc' = Forked(new)
      /\ child' = [w \in Workers |->
           IF w \in new THEN [DeadChild EXCEPT !.up = TRUE, !.copies = {}]
           ELSE child[w]]
      /\ forks' = Cardinality(new)
      /\ UNCHANGED <<table, accepted, finished, failed>>
  <2>1. Cardinality(new) \in Nat
    BY FS_Interval, CountAssumption
  <2> QED
    BY <2>1 DEF Start, Fork
<1>2. WorkProcessCount \in Nat /\ forks + WorkProcessCount = WorkProcessCount
      /\ new = forks + 1 .. forks + WorkProcessCount
  BY <1>1, CountAssumption
<1> HIDE DEF new
<1>3. /\ WorkProcessCount \in 0 .. MaxForks /\ Cardinality(new) = WorkProcessCount
      /\ IsFiniteSet(new)
      /\ \A w \in Workers : w > WorkProcessCount => w \notin new
  BY <1>1, <1>2, ForkedWorkers DEF IInv
<1>4. /\ proc' \in [Workers -> Process]
      /\ \A w \in new : /\ proc'[w].st = "LISTED" /\ proc'[w].queue = <<>>
                        /\ proc'[w].buried = 0
      /\ \A w \in Workers \ new : proc'[w] = proc[w]
  BY <1>1, ForkedTypes DEF IInv
<1>5. \A w \in Workers : proc[w].st # "LISTED" /\ Queue(w) = <<>>
  BY <1>1 DEF IInv, Unforked, Workers
<1>6. \A w \in Workers :
        \/ w \in new /\ child'[w].wire = <<>> /\ child'[w].held = {}
        \/ child'[w] = child[w]
  BY <1>1 DEF DeadChild
<1>7. child' \in [Workers -> Child]
  <2>1. [DeadChild EXCEPT !.up = TRUE, !.copies = {}] \in Child
    BY NewChildType
  <2> QED
    BY <1>1, <2>1 DEF IInv, TypeOK
<1>8. TypeOK'
  BY <1>1, <1>3, <1>4, <1>7 DEF IInv, TypeOK
<1>9. Unforked'
  BY <1>1, <1>3, <1>4, <1>5 DEF Unforked, Queue
<1>10. Places'
  <2>1. 1 \in Workers
    BY <1>1, CountAssumption DEF new
  <2>2. /\ {} \subseteq Held(1) /\ child'[1].held \cap {} = {}
        /\ finished' = finished \cup {}
    BY <1>1
  <2>3. \A w \in Workers : /\ child'[w].wire = Wire(w) \/ child'[w].wire = <<>>
                           /\ child'[w].held \subseteq Held(w)
    BY <1>6 DEF Wire, Held
  <2> QED
    BY <1>1, <2>1, <2>2, <2>3, LosePlaces DEF IInv
<1>11. Custody'
  <2>1. \A w \in Workers : Queue(w) = <<>> /\ proc'[w].queue = <<>>
    BY <1>4, <1>5 DEF Queue
  <2> QED
    BY <1>1, <2>1, CustodyKept DEF IInv
<1>12. Channels'
  <2>1. \A w \in new : proc'[w].buried <= 1
    BY <1>4
  <2> QED
    BY <1>4, <2>1 DEF IInv, Channels
<1>13. Limit'
  <2>1. AllProcesses' = new
    BY <1>1, <1>4, <1>5 DEF AllProcesses
  <2> QED
    BY <1>2, <1>3, <2>1 DEF Limit
<1> QED
  BY <1>8, <1>9, <1>10, <1>11, <1>12, <1>13 DEF IInv

LEMMA AcceptInv == IInv /\ AcceptAndDispatch => IInv'
<1> SUFFICES ASSUME IInv, AcceptAndDispatch PROVE IInv'
  OBVIOUS
<1>1. /\ forks > 0 /\ accepted < MaxConn /\ accepted' = accepted + 1
      /\ UNCHANGED <<finished, failed>>
  BY DEF AcceptAndDispatch
<1>2. PICK n \in Fds, k \in 0 .. Cardinality(Missing) :
         /\ table[n] = NoConn
         /\ LET new == forks + 1 .. forks + k
            IN /\ Fork(new, Opened \cup {accepted + 1})
               /\ IF AllProcesses \cup new = {}
                  THEN UNCHANGED <<proc, table>>
                  ELSE \E w \in AllProcesses \cup new : AddTask(Forked(new), w, n)
  BY DEF AcceptAndDispatch
<1> DEFINE new == forks + 1 .. forks + k
           opened == Opened \cup {accepted + 1}
<1>3. /\ new \subseteq Workers
      /\ child' = [w \in Workers |->
            IF w \in new THEN [DeadChild EXCEPT !.up = TRUE, !.copies = opened]
            ELSE child[w]]
      /\ forks' = forks + Cardinality(new)
      /\ \/ AllProcesses \cup new = {} /\ UNCHANGED <<proc, table>>
         \/ \E w \in AllProcesses \cup new : AddTask(Forked(new), w, n)
  BY <1>2 DEF Fork
<1>4. /\ accepted \in Nat /\ accepted + 1 \in Conns /\ accepted + 1 \in 0 .. MaxConn
  BY <1>1, BoundsAssumption DEF IInv, TypeOK, Conns
<1>5. opened \subseteq Conns
  BY <1>4 DEF IInv, TypeOK, Opened
<1>6. k \in Nat
  <2>1. IsFiniteSet(Missing)
    <3>1. /\ forks + 1 \in Int
          /\ forks + WorkProcessCount - Cardinality(AllProcesses) \in Int
      BY ListedAreFinite, CountAssumption, BoundsAssumption DEF IInv, TypeOK
    <3> QED
      BY <3>1, FS_Interval DEF Missing
  <2> QED
    BY <2>1, FS_CardinalityType
<1> HIDE DEF new, opened
<1>7. /\ forks + k \in 0 .. MaxForks /\ Cardinality(new) = k /\ IsFiniteSet(new)
      /\ \A w \in new : w > forks
      /\ \A w \in Workers : w > forks + k => w \notin new
  <2>1. new = forks + 1 .. forks + k
    BY DEF new
  <2> QED
    BY <1>3, <1>6, <2>1, ForkedWorkers DEF IInv
<1>8. /\ Forked(new) \in [Workers -> Process]
      /\ \A w \in new : /\ Forked(new)[w].st = "LISTED" /\ Forked(new)[w].queue = <<>>
                        /\ Forked(new)[w].buried = 0 /\ Forked(new)[w].sender = TRUE
      /\ \A w \in Workers \ new : Forked(new)[w] = proc[w]
  BY <1>3, ForkedTypes DEF IInv
\* The processes before the descriptor is queued.
<1>9. \A w \in Workers : /\ Forked(new)[w].queue = Queue(w)
                         /\ Queue(w) # <<>> => Forked(new)[w].sender = proc[w].sender
  BY <1>7, <1>8 DEF IInv, Unforked, Queue
<1>10. \A w \in Workers :
        \/ child'[w].wire = Wire(w) /\ child'[w].held = Held(w)
        \/ child'[w].wire = <<>> /\ child'[w].held = {}
  BY <1>3 DEF DeadChild, Wire, Held
<1>11. child' \in [Workers -> Child]
  <2>1. [DeadChild EXCEPT !.up = TRUE, !.copies = opened] \in Child
    BY <1>5, NewChildType
  <2> QED
    BY <1>3, <2>1 DEF IInv, TypeOK
\* What the three ways to go on have in common.
<1>12. SUFFICES ASSUME proc' \in [Workers -> Process],
                       table' \in [Fds -> Conns \cup {NoConn}],
                       \A m \in Fds : \/ table'[m] = table[m]
                                      \/ m = n /\ table'[m] = accepted + 1,
                       \A w \in Workers :
                          /\ proc'[w].st = Forked(new)[w].st
                          /\ proc'[w].buried = Forked(new)[w].buried
                          /\ proc'[w].open = Forked(new)[w].open,
                       \A w \in Workers : w > forks + k => proc'[w] = proc[w],
                       Custody'
                PROVE  IInv'
  <2>1. CASE proc' = Forked(new) /\ table' = table
    <3>1. Custody'
      BY <1>1, <1>9, <2>1, CustodyKept DEF IInv
    <3>2. \A w \in Workers : w > forks + k => proc'[w] = proc[w]
      BY <1>7, <1>8, <2>1
    <3> QED
      BY <1>8, <2>1, <3>1, <3>2 DEF IInv, TypeOK
  <2>2. CASE AllProcesses \cup new = {} /\ UNCHANGED <<proc, table>>
    <3>1. proc' = Forked(new)
      BY <1>8, <2>2 DEF IInv, TypeOK
    <3> QED
      BY <2>1, <2>2, <3>1
  <2>3. ASSUME NEW u \in AllProcesses \cup new, AddTask(Forked(new), u, n),
               Forked(new)[u].sender,
               proc' = [Forked(new) EXCEPT ![u].queue = Append(@, n)],
               table' = [table EXCEPT ![n] = accepted + 1]
        PROVE  IInv'
    <3>0. u \in Workers
      BY <1>3, <2>3 DEF AllProcesses
    <3> DEFINE q == [Forked(new)[u] EXCEPT !.queue = Append(Queue(u), n)]
    <3>1. /\ q \in Process /\ q.queue = Append(Queue(u), n)
          /\ q.st = Forked(new)[u].st /\ q.buried = Forked(new)[u].buried
          /\ q.open = Forked(new)[u].open /\ q.sender = Forked(new)[u].sender
      <4>1. Forked(new)[u] \in Process
        BY <1>8, <3>0
      <4>2. Append(Queue(u), n) \in Seq(Fds)
        BY <3>0, FieldTypes, AppendItem DEF IInv
      <4> QED
        BY <4>1, <4>2 DEF Process
    <3>2. proc' = [Forked(new) EXCEPT ![u] = q]
      BY <1>9, <2>3, <3>0
    <3> HIDE DEF q
    <3>3. /\ proc' \in [Workers -> Process] /\ proc'[u] = q
          /\ \A w \in Workers \ {u} : proc'[w] = Forked(new)[w]
      BY <1>8, <3>0, <3>1, <3>2
    <3>4. Custody'
      BY <1>1, <1>2, <1>9, <2>3, <3>0, <3>1, <3>3, CustodyAccepts DEF IInv
    <3>5. u <= forks + k
      <4>1. CASE u \in new
        BY <1>7, <3>0, <4>1, ForkedWorkers, <1>3, <1>6 DEF IInv, new
      <4>2. CASE u \in AllProcesses
        <5>1. ~(u > forks)
          BY <3>0, <4>2 DEF IInv, Unforked, AllProcesses
        <5> QED
          BY <1>6, <3>0, <5>1, BoundsAssumption DEF IInv, TypeOK, Workers
      <4> QED
        BY <2>3, <4>1, <4>2
    <3>6. \A w \in Workers : w > forks + k => proc'[w] = proc[w]
      <4> SUFFICES ASSUME NEW w \in Workers, w > forks + k PROVE proc'[w] = proc[w]
        OBVIOUS
      <4>1. w # u
        BY <1>6, <3>0, <3>5, BoundsAssumption DEF IInv, TypeOK, Workers
      <4> QED
        BY <1>7, <1>8, <3>3, <4>1
    <3>7. table' \in [Fds -> Conns \cup {NoConn}] /\
          \A m \in Fds : \/ table'[m] = table[m]
                         \/ m = n /\ table'[m] = accepted + 1
      BY <1>4, <2>3 DEF IInv, TypeOK
    <3> QED
      BY <3>1, <3>3, <3>4, <3>6, <3>7
  <2> QED
    BY <1>3, <2>1, <2>2, <2>3 DEF AddTask
<1>13. TypeOK'
  BY <1>1, <1>3, <1>4, <1>7, <1>11, <1>12 DEF IInv, TypeOK
<1>14. Unforked'
  <2> SUFFICES ASSUME NEW w \in Workers, w > forks + k
               PROVE  proc'[w].st # "LISTED" /\ proc'[w].queue = <<>>
    BY <1>3, <1>7 DEF Unforked, Queue
  <2>1. w > forks /\ proc'[w] = proc[w]
    BY <1>6, <1>12, BoundsAssumption DEF IInv, TypeOK, Workers
  <2> QED
    BY <2>1 DEF IInv, Unforked, Queue
<1>15. Places'
  BY <1>1, <1>2, <1>10, <1>12, AcceptPlaces DEF IInv
<1>16. Channels'
  <2>1. \A w \in new : proc'[w].st = "LISTED" /\ proc'[w].buried = 0
    BY <1>3, <1>8, <1>12
  <2>2. \A w \in Workers \ new : /\ proc'[w].st = proc[w].st
                                 /\ proc'[w].buried = proc[w].buried
                                 /\ proc'[w].open = proc[w].open
    BY <1>8, <1>12
  <2>3. \A w \in new : proc'[w].buried <= 1
    BY <2>1
  <2> QED
    BY <2>1, <2>2, <2>3 DEF IInv, Channels
<1>17. Limit'
  <2>1. AllProcesses' \subseteq AllProcesses \cup new
    BY <1>8, <1>12 DEF AllProcesses
  <2>2. IsFiniteSet(AllProcesses \cup new)
        /\ Cardinality(AllProcesses \cup new) <= Cardinality(AllProcesses) + k
        /\ Cardinality(AllProcesses \cup new) \in Nat
    <3>1. /\ IsFiniteSet(AllProcesses \cup new)
          /\ Cardinality(AllProcesses \cup new)
               = Cardinality(AllProcesses) + k - Cardinality(AllProcesses \cap new)
      BY <1>7, ListedAreFinite, FS_Union
    <3>2. /\ Cardinality(AllProcesses \cap new) \in Nat
          /\ Cardinality(AllProcesses \cup new) \in Nat
      BY <3>1, <1>7, ListedAreFinite, FS_Intersection, FS_CardinalityType
    <3> QED
      BY <1>6, <3>1, <3>2, ListedAreFinite
  <2>3. /\ Cardinality(AllProcesses') <= Cardinality(AllProcesses \cup new)
        /\ Cardinality(AllProcesses') \in Nat
    <3>1. IsFiniteSet(AllProcesses')
      BY <2>1, <2>2, FS_Subset
    <3> QED
      BY <2>1, <2>2, <3>1, FS_Subset, FS_CardinalityType
  <2>4. Cardinality(AllProcesses) + k <= WorkProcessCount
    <3> DEFINE a == forks + 1
               b == forks + WorkProcessCount - Cardinality(AllProcesses)
    <3>1. /\ a \in Int /\ b \in Int /\ forks \in Nat
          /\ Cardinality(AllProcesses) \in Nat
          /\ Cardinality(AllProcesses) <= WorkProcessCount
      BY ListedAreFinite, CountAssumption, BoundsAssumption
         DEF IInv, TypeOK, Limit
    <3>2. Cardinality(Missing) = IF a > b THEN 0 ELSE b - a + 1
      BY <3>1, FS_Interval DEF Missing
    <3> QED
      BY <1>6, <3>1, <3>2, CountAssumption
  <2> QED
    BY <1>6, <2>2, <2>3, <2>4, ListedAreFinite, CountAssumption DEF Limit
<1> QED
  BY <1>12, <1>13, <1>14, <1>15, <1>16, <1>17 DEF IInv

LEMMA SendFDInv ==
  ASSUME IInv, NEW u \in Workers, SendFD(u)
  PROVE  IInv'
<1> DEFINE n == Queue(u)[1]
<1>1. /\ Queue(u) # <<>> /\ Queue(u) \in Seq(Fds) /\ Head(Queue(u)) = n
      /\ n \in Fds /\ Tail(Queue(u)) \in Seq(Fds)
  <2>1. Queue(u) # <<>> /\ Queue(u) \in Seq(Fds)
    BY FieldTypes DEF SendFD, Queue, IInv
  <2> QED
    BY <2>1, TailItems
<1>2. /\ table[n] # NoConn /\ table[n] \in Conns
      /\ child' = [child EXCEPT ![u].wire = Append(@, table[n])]
      /\ proc' = [proc EXCEPT ![u].queue = Tail(@), ![u].last = n]
      /\ table' = [table EXCEPT ![n] = NoConn]
      /\ UNCHANGED <<forks, accepted, finished, failed>>
  BY <1>1 DEF SendFD, Queue, IInv, TypeOK
<1> HIDE DEF n
<1> DEFINE p == [proc[u] EXCEPT !.queue = Tail(Queue(u)), !.last = n]
           c == [child[u] EXCEPT !.wire = Append(Wire(u), table[n])]
<1>3. /\ p \in Process /\ p.queue = Tail(Queue(u)) /\ p.st = proc[u].st
      /\ p.buried = proc[u].buried /\ p.open = proc[u].open
      /\ p.sender = proc[u].sender
  BY <1>1, FieldTypes DEF IInv, Process
<1>4. c \in Child /\ c.wire = Append(Wire(u), table[n]) /\ c.held = Held(u)
  <2>1. Append(Wire(u), table[n]) \in Seq(Conns) /\ child[u] \in Child
    BY <1>2, FieldTypes, AppendItem DEF IInv
  <2> QED
    BY <2>1 DEF Child, Held
<1>5. proc' = [proc EXCEPT ![u] = p] /\ child' = [child EXCEPT ![u] = c]
  BY <1>2 DEF IInv, TypeOK, Queue, Wire
<1> HIDE DEF p, c
<1>6. /\ proc' \in [Workers -> Process] /\ proc'[u] = p
      /\ \A w \in Workers \ {u} : proc'[w] = proc[w]
      /\ child' \in [Workers -> Child] /\ child'[u] = c
      /\ \A w \in Workers \ {u} : child'[w] = child[w]
  BY <1>3, <1>4, <1>5 DEF IInv, TypeOK
<1>7. /\ table' \in [Fds -> Conns \cup {NoConn}] /\ table'[n] = NoConn
      /\ \A m \in Fds \ {n} : table'[m] = table[m]
  BY <1>1, <1>2 DEF IInv, TypeOK
<1>8. TypeOK'
  BY <1>2, <1>6, <1>7 DEF IInv, TypeOK
<1>9. Unforked'
  BY <1>1, <1>2, <1>6 DEF IInv, Unforked, Queue
<1>10. Places'
  <2>1. /\ \A w \in Workers \ {u} : child'[w].wire = Wire(w)
        /\ \A w \in Workers : child'[w].held = Held(w)
    BY <1>4, <1>6 DEF Wire, Held
  <2>2. child'[u].wire = Append(Wire(u), table[n])
    BY <1>4, <1>6
  <2>3. TypeOK /\ Places /\ n \in Fds /\ table[n] # NoConn
        /\ accepted' = accepted /\ finished' = finished
    BY <1>1, <1>2 DEF IInv
  <2> QED
    BY <1>7, <2>1, <2>2, <2>3, SendPlaces
<1>11. Custody'
  BY <1>1, <1>2, <1>3, <1>6, CustodyGives DEF IInv, n
<1>12. Channels'
  BY <1>3, <1>6 DEF IInv, Channels
<1>13. Limit'
  <2>1. AllProcesses' \subseteq AllProcesses
    BY <1>3, <1>6 DEF AllProcesses
  <2> QED
    BY <2>1, LimitKept DEF IInv
<1> QED
  BY <1>8, <1>9, <1>10, <1>11, <1>12, <1>13 DEF IInv

\* A failure: nothing is sent, no process is listed that was not before.
LEMMA FailureInv ==
  ASSUME IInv, failed' = TRUE,
         UNCHANGED <<forks, accepted, finished>>,
         proc' \in [Workers -> Process], child' \in [Workers -> Child],
         table' \in [Fds -> Conns \cup {NoConn}],
         \A n \in Fds : table'[n] = table[n] \/ table'[n] = NoConn,
         \A w \in Workers :
            /\ child'[w].wire = Wire(w) \/ child'[w].wire = <<>>
            /\ child'[w].held \subseteq Held(w)
            /\ proc'[w].queue = Queue(w) \/ proc'[w].queue = <<>>
            /\ proc'[w].st = "LISTED" => proc[w].st = "LISTED"
            /\ \/ /\ proc'[w].buried = proc[w].buried
                  /\ proc'[w].open = proc[w].open /\ proc'[w].st = proc[w].st
               \/ proc'[w].buried <= 1 /\ ~proc'[w].open
  PROVE  IInv'
<1>1. TypeOK'
  BY DEF IInv, TypeOK
<1>2. Unforked'
  BY DEF IInv, Unforked, Queue
<1>3. Places'
  <2>1. CASE Workers # {}
    <3>1. PICK u : u \in Workers
      BY <2>1
    <3>2. /\ {} \subseteq Held(u) /\ child'[u].held \cap {} = {}
          /\ finished' = finished \cup {}
      OBVIOUS
    <3> QED
      BY <3>1, <3>2, LosePlaces DEF IInv
  <2>2. CASE Workers = {}
    <3>1. \A n \in Fds : table'[n] <= accepted'
      BY PlaceNumbers DEF IInv, Places, NoConn
    <3>2. Accepted'
      BY <2>2, <3>1 DEF IInv, Places, Accepted
    <3> QED
      BY <2>2, <3>2 DEF IInv, Places, SameKind, OtherKind
  <2> QED
    BY <2>1, <2>2
<1>4. Custody'
  BY DEF Custody
<1>5. Channels'
  BY DEF IInv, Channels
<1>6. Limit'
  <2>1. AllProcesses' \subseteq AllProcesses
    BY DEF AllProcesses
  <2> QED
    BY <2>1, LimitKept DEF IInv
<1> QED
  BY <1>1, <1>2, <1>3, <1>4, <1>5, <1>6 DEF IInv

LEMMA SendFDFailsInv ==
  ASSUME IInv, NEW u \in Workers, SendFDFails(u)
  PROVE  IInv'
<1> DEFINE p == [proc[u] EXCEPT !.sender = FALSE, !.queue = <<>>]
<1>1. /\ table' = [n \in Fds |-> IF n = proc[u].last THEN NoConn ELSE table[n]]
      /\ failed' = TRUE /\ UNCHANGED <<child, forks, accepted, finished>>
      /\ proc' = [proc EXCEPT ![u] = p]
  BY DEF SendFDFails, IInv, TypeOK
<1>2. /\ p \in Process /\ p.queue = <<>> /\ p.st = proc[u].st
      /\ p.buried = proc[u].buried /\ p.open = proc[u].open
  BY FieldTypes, EmptyItems DEF IInv, Process
<1> HIDE DEF p
<1>3. /\ proc' \in [Workers -> Process] /\ proc'[u] = p
      /\ \A w \in Workers \ {u} : proc'[w] = proc[w]
      /\ child' \in [Workers -> Child]
  BY <1>1, <1>2 DEF IInv, TypeOK
<1>4. /\ table' \in [Fds -> Conns \cup {NoConn}]
      /\ \A n \in Fds : table'[n] = table[n] \/ table'[n] = NoConn
  BY <1>1 DEF IInv, TypeOK
<1>5. \A w \in Workers :
         /\ child'[w].wire = Wire(w) /\ child'[w].held = Held(w)
         /\ proc'[w].queue = Queue(w) \/ proc'[w].queue = <<>>
         /\ proc'[w].st = proc[w].st /\ proc'[w].buried = proc[w].buried
         /\ proc'[w].open = proc[w].open
  BY <1>1, <1>2, <1>3 DEF Wire, Held, Queue
<1> QED
  BY <1>1, <1>3, <1>4, <1>5, FailureInv

LEMMA ExitProcessInv ==
  ASSUME IInv, NEW u \in Workers, ExitProcess(u)
  PROVE  IInv'
<1> DEFINE p == [proc[u] EXCEPT !.st = "DESTROYED", !.buried = proc[u].buried + 1,
                                !.open = FALSE, !.sender = FALSE, !.queue = <<>>]
<1>1. /\ proc[u].open /\ failed' = TRUE
      /\ UNCHANGED <<child, table, forks, accepted, finished>>
      /\ proc' = [proc EXCEPT ![u] = p]
  BY DEF ExitProcess, IInv, TypeOK
<1>2. proc[u].buried = 0
  BY <1>1 DEF IInv, Channels
<1>3. /\ p \in Process /\ p.queue = <<>> /\ p.st = "DESTROYED"
      /\ p.buried = 1 /\ p.open = FALSE
  <2>1. proc[u] \in Process /\ proc[u].buried + 1 = 1 /\ <<>> \in Seq(Fds)
    BY <1>2, FieldTypes, EmptyItems DEF IInv
  <2>2. p = [proc[u] EXCEPT !.st = "DESTROYED", !.buried = 1, !.open = FALSE,
                            !.sender = FALSE, !.queue = <<>>]
    BY <2>1
  <2> HIDE DEF p
  <2> QED
    BY <2>1, <2>2 DEF Process
<1> HIDE DEF p
<1>4. /\ proc' \in [Workers -> Process] /\ proc'[u] = p
      /\ \A w \in Workers \ {u} : proc'[w] = proc[w]
      /\ child' \in [Workers -> Child]
  BY <1>1, <1>3 DEF IInv, TypeOK
<1>5. table' \in [Fds -> Conns \cup {NoConn}]
  BY <1>1 DEF IInv, TypeOK
<1>6. \A w \in Workers :
         /\ child'[w].wire = Wire(w) /\ child'[w].held = Held(w)
         /\ proc'[w].queue = Queue(w) \/ proc'[w].queue = <<>>
         /\ proc'[w].st = "LISTED" => proc[w].st = "LISTED"
         /\ \/ /\ proc'[w].buried = proc[w].buried
               /\ proc'[w].open = proc[w].open /\ proc'[w].st = proc[w].st
            \/ proc'[w].buried <= 1 /\ ~proc'[w].open
  BY <1>1, <1>3, <1>4 DEF Wire, Held, Queue
<1> QED
  BY <1>1, <1>4, <1>5, <1>6, FailureInv

LEMMA KillProcessesInv == IInv /\ KillProcesses => IInv'
<1> SUFFICES ASSUME IInv, KillProcesses PROVE IInv'
  OBVIOUS
<1> DEFINE dead(w) == [proc[w] EXCEPT !.st = "FREED", !.open = FALSE,
                                      !.sender = FALSE, !.queue = <<>>]
<1>1. /\ proc' = [w \in Workers |-> IF w \in AllProcesses THEN dead(w) ELSE proc[w]]
      /\ child' = [w \in Workers |-> IF w \in AllProcesses THEN DeadChild ELSE child[w]]
      /\ failed' = TRUE /\ UNCHANGED <<table, forks, accepted, finished>>
  BY DEF KillProcesses
<1>2. \A w \in Workers : /\ dead(w) \in Process /\ dead(w).queue = <<>>
                         /\ dead(w).st = "FREED" /\ dead(w).open = FALSE
                         /\ dead(w).buried = proc[w].buried
  BY FieldTypes, EmptyItems DEF IInv, Process
<1> HIDE DEF dead
<1>3. proc' \in [Workers -> Process] /\ child' \in [Workers -> Child]
  BY <1>1, <1>2, DeadChildType DEF IInv, TypeOK
<1>4. table' \in [Fds -> Conns \cup {NoConn}]
  BY <1>1 DEF IInv, TypeOK
<1>5. \A w \in Workers :
         /\ child'[w].wire = Wire(w) \/ child'[w].wire = <<>>
         /\ child'[w].held \subseteq Held(w)
         /\ proc'[w].queue = Queue(w) \/ proc'[w].queue = <<>>
         /\ proc'[w].st = "LISTED" => proc[w].st = "LISTED"
         /\ \/ /\ proc'[w].buried = proc[w].buried
               /\ proc'[w].open = proc[w].open /\ proc'[w].st = proc[w].st
            \/ proc'[w].buried <= 1 /\ ~proc'[w].open
  <2>1. \A w \in Workers : proc[w].buried <= 1
    BY DEF IInv, Channels
  <2> QED
    BY <1>1, <1>2, <2>1, DeadChildType DEF Wire, Held, Queue
<1> QED
  BY <1>1, <1>3, <1>4, <1>5, FailureInv

LEMMA DiesInv ==
  ASSUME IInv, NEW u \in Workers, Dies(u)
  PROVE  IInv'
<1>1. /\ child' = [child EXCEPT ![u] = DeadChild] /\ failed' = TRUE
      /\ UNCHANGED <<proc, table, forks, accepted, finished>>
  BY DEF Dies
<1>2. /\ child' \in [Workers -> Child] /\ proc' \in [Workers -> Process]
      /\ table' \in [Fds -> Conns \cup {NoConn}]
  BY <1>1, DeadChildType DEF IInv, TypeOK
<1>3. \A w \in Workers :
         /\ child'[w].wire = Wire(w) \/ child'[w].wire = <<>>
         /\ child'[w].held \subseteq Held(w)
         /\ proc'[w] = proc[w]
  BY <1>1, DeadChildType DEF Wire, Held, IInv, TypeOK
<1> QED
  BY <1>1, <1>2, <1>3, FailureInv DEF Queue

\* Steps that change neither the listed processes' queues nor any descriptor.
LEMMA CleanupInv == IInv /\ Cleanup => IInv'
<1> SUFFICES ASSUME IInv, Cleanup PROVE IInv'
  OBVIOUS
<1>1. /\ proc' = [w \in Workers |->
            IF proc[w].st = "DESTROYED" THEN [proc[w] EXCEPT !.st = "FREED"]
            ELSE proc[w]]
      /\ UNCHANGED <<child, table, forks, accepted, finished, failed>>
  BY DEF Cleanup
<1>2. \A w \in Workers :
         /\ proc'[w] \in Process /\ proc'[w].queue = Queue(w)
         /\ proc'[w].sender = proc[w].sender
         /\ proc'[w].st = "LISTED" <=> proc[w].st = "LISTED"
         /\ proc'[w].buried = proc[w].buried /\ proc'[w].open = proc[w].open
  BY <1>1, FieldTypes DEF IInv, Process, Queue
<1>3. TypeOK'
  BY <1>1, <1>2 DEF IInv, TypeOK
<1>4. Unforked' /\ Channels'
  BY <1>1, <1>2 DEF IInv, Unforked, Channels, Queue
<1>5. Places'
  BY <1>1 DEF IInv, Places, Accepted, SameKind, OtherKind, Wire, Held
<1>6. Custody'
  BY <1>1, <1>2, CustodyKept DEF IInv
<1>7. Limit'
  <2>1. AllProcesses' \subseteq AllProcesses
    BY <1>2 DEF AllProcesses
  <2> QED
    BY <2>1, LimitKept DEF IInv
<1> QED
  BY <1>3, <1>4, <1>5, <1>6, <1>7 DEF IInv

LEMMA NotifyCloseInv == IInv /\ NotifyCloseProcesses => IInv'
<1> SUFFICES ASSUME IInv, NotifyCloseProcesses PROVE IInv'
  OBVIOUS
<1>1. /\ \A w \in AllProcesses : child[w].exits < MaxExits
      /\ proc' = [w \in Workers |->
            IF w \in AllProcesses THEN [proc[w] EXCEPT !.exiting = TRUE] ELSE proc[w]]
      /\ child' = [w \in Workers |->
            IF w \in AllProcesses /\ child[w].up
            THEN [child[w] EXCEPT !.exits = @ + 1] ELSE child[w]]
      /\ UNCHANGED <<table, forks, accepted, finished, failed>>
  BY DEF NotifyCloseProcesses
<1>2. \A w \in Workers :
         /\ proc'[w] \in Process /\ proc'[w].queue = Queue(w)
         /\ proc'[w].sender = proc[w].sender /\ proc'[w].st = proc[w].st
         /\ proc'[w].buried = proc[w].buried /\ proc'[w].open = proc[w].open
  BY <1>1, FieldTypes DEF IInv, Process, Queue
<1>3. \A w \in Workers :
         /\ child'[w] \in Child /\ child'[w].wire = Wire(w) /\ child'[w].held = Held(w)
  <2> SUFFICES ASSUME NEW w \in Workers
               PROVE  /\ child'[w] \in Child /\ child'[w].wire = Wire(w)
                      /\ child'[w].held = Held(w)
    OBVIOUS
  <2>1. child[w] \in Child /\ child[w].exits \in 0 .. MaxExits
    BY FieldTypes DEF IInv, Child
  <2>2. CASE w \in AllProcesses /\ child[w].up
    <3>1. child[w].exits + 1 \in 0 .. MaxExits
      BY <1>1, <2>1, <2>2, BoundsAssumption
    <3>2. child'[w] = [child[w] EXCEPT !.exits = child[w].exits + 1]
      BY <1>1, <2>1, <2>2
    <3> QED
      BY <2>1, <3>1, <3>2 DEF Child, Wire, Held
  <2>3. CASE ~(w \in AllProcesses /\ child[w].up)
    BY <1>1, <2>1, <2>3 DEF Wire, Held
  <2> QED
    BY <2>2, <2>3
<1>4. TypeOK'
  <2>1. proc' \in [Workers -> Process]
    BY <1>1, <1>2
  <2>2. child' \in [Workers -> Child]
    BY <1>1, <1>3
  <2> QED
    BY <1>1, <2>1, <2>2 DEF IInv, TypeOK
<1>5. Unforked' /\ Channels'
  BY <1>1, <1>2 DEF IInv, Unforked, Channels, Queue
<1>6. Places'
  BY <1>1, <1>3 DEF IInv, Places, Accepted, SameKind, OtherKind, Wire, Held
<1>7. Custody'
  BY <1>1, <1>2, CustodyKept DEF IInv
<1>8. Limit'
  <2>1. AllProcesses' \subseteq AllProcesses
    BY <1>2 DEF AllProcesses
  <2> QED
    BY <2>1, LimitKept DEF IInv
<1> QED
  BY <1>4, <1>5, <1>6, <1>7, <1>8 DEF IInv

\* A worker's step that leaves the master alone.
LEMMA WorkerInv ==
  ASSUME IInv, UNCHANGED <<proc, table, forks, accepted>>, failed => failed',
         failed' \in BOOLEAN, child' \in [Workers -> Child],
         finished' \subseteq Conns, Places'
  PROVE  IInv'
<1>1. TypeOK' /\ Unforked' /\ Channels'
  BY DEF IInv, TypeOK, Unforked, Channels, Queue
<1>2. Custody'
  BY CustodyKept DEF IInv, Queue
<1>3. Limit'
  BY DEF IInv, Limit, AllProcesses
<1> QED
  BY <1>1, <1>2, <1>3 DEF IInv

LEMMA RecvFDInv ==
  ASSUME IInv, NEW u \in Workers, RecvFD(u)
  PROVE  IInv'
<1> DEFINE c == [child[u] EXCEPT !.wire = Tail(Wire(u)),
                                 !.held = Held(u) \cup {Head(Wire(u))}]
<1>1. /\ Wire(u) # <<>>
      /\ UNCHANGED <<proc, table, forks, accepted, finished, failed>>
      /\ child' = [child EXCEPT ![u] = c]
  BY DEF RecvFD, Wire, Held, IInv, TypeOK
<1>2. /\ c \in Child /\ c.wire = Tail(Wire(u))
      /\ c.held = Held(u) \cup {Head(Wire(u))}
  <2>1. Tail(Wire(u)) \in Seq(Conns) /\ Head(Wire(u)) \in Conns
    BY <1>1, FieldTypes, TailItems DEF IInv
  <2>2. child[u] \in Child /\ Held(u) \subseteq Conns
    BY FieldTypes DEF IInv
  <2> QED
    BY <2>1, <2>2 DEF Child
<1> HIDE DEF c
<1>3. /\ child' \in [Workers -> Child] /\ child'[u] = c
      /\ \A w \in Workers \ {u} : child'[w] = child[w]
  BY <1>1, <1>2 DEF IInv, TypeOK
<1>4. \A w \in Workers \ {u} : child'[w].wire = Wire(w) /\ child'[w].held = Held(w)
  BY <1>3 DEF Wire, Held
<1>5. Places'
  BY <1>1, <1>2, <1>3, <1>4, RecvPlaces DEF IInv
<1> QED
  BY <1>1, <1>3, <1>5, WorkerInv DEF IInv, TypeOK

LEMMA FinishInv ==
  ASSUME IInv, NEW u \in Workers, NEW c \in Conns, Finish(u, c)
  PROVE  IInv'
<1> DEFINE d == [child[u] EXCEPT !.held = Held(u) \ {c}]
<1>1. /\ c \in Held(u) /\ finished' = finished \cup {c}
      /\ UNCHANGED <<proc, table, forks, accepted, failed>>
      /\ child' = [child EXCEPT ![u] = d]
  BY DEF Finish, Held, IInv, TypeOK
<1>2. d \in Child /\ d.wire = Wire(u) /\ d.held = Held(u) \ {c}
  BY FieldTypes DEF IInv, Child, Wire
<1> HIDE DEF d
<1>3. /\ child' \in [Workers -> Child]
      /\ \A w \in Workers : child'[w].wire = Wire(w) /\ child'[w].held \subseteq Held(w)
      /\ child'[u].held = Held(u) \ {c}
  BY <1>1, <1>2 DEF IInv, TypeOK, Wire, Held
<1>4. Places'
  <2>1. {c} \subseteq Held(u) /\ child'[u].held \cap {c} = {}
    BY <1>1, <1>3
  <2> QED
    BY <1>1, <1>3, <2>1, LosePlaces DEF IInv
<1>5. finished' \subseteq Conns
  BY <1>1 DEF IInv, TypeOK
<1> QED
  BY <1>1, <1>3, <1>4, <1>5, WorkerInv DEF IInv, TypeOK

LEMMA ExecuteCloseInv ==
  ASSUME IInv, NEW u \in Workers, NEW busy, ExecuteClose(u, busy)
  PROVE  IInv'
<1> DEFINE done == Held(u) \ busy
           d == IF busy = {} THEN DeadChild
                ELSE [child[u] EXCEPT !.exits = @ - 1, !.held = busy]
<1>1. /\ child[u].exits > 0 /\ busy \subseteq Held(u)
      /\ finished' = finished \cup done
      /\ child' = [child EXCEPT ![u] = d]
      /\ failed' = (failed \/ busy = {})
      /\ UNCHANGED <<proc, table, forks, accepted>>
  BY DEF ExecuteClose, Held
<1>2. child[u] \in Child /\ Held(u) \subseteq Conns /\ child[u].exits \in 0 .. MaxExits
  BY FieldTypes DEF IInv, Child
<1>3. /\ d \in Child /\ d.held = busy
      /\ (d.wire = Wire(u) \/ d.wire = <<>>)
  <2>1. CASE busy = {}
    BY <2>1, DeadChildType
  <2>2. CASE busy # {}
    <3>1. child[u].exits - 1 \in 0 .. MaxExits
      BY <1>1, <1>2, BoundsAssumption
    <3>2. d = [child[u] EXCEPT !.exits = child[u].exits - 1, !.held = busy]
      BY <1>2, <2>2
    <3> QED
      BY <1>1, <1>2, <3>1, <3>2 DEF Child, Wire
  <2> QED
    BY <2>1, <2>2
<1> HIDE DEF d
<1>4. /\ child' \in [Workers -> Child] /\ child'[u].held = busy
      /\ \A w \in Workers : /\ child'[w].wire = Wire(w) \/ child'[w].wire = <<>>
                            /\ child'[w].held \subseteq Held(w)
  BY <1>1, <1>3 DEF IInv, TypeOK, Wire, Held
<1>5. Places'
  <2>1. done \subseteq Held(u) /\ child'[u].held \cap done = {}
    BY <1>4
  <2> HIDE DEF done
  <2> QED
    BY <1>1, <1>4, <2>1, LosePlaces DEF IInv
<1>6. finished' \subseteq Conns /\ failed' \in BOOLEAN /\ (failed => failed')
  BY <1>1, <1>2 DEF IInv, TypeOK
<1> QED
  BY <1>1, <1>4, <1>5, <1>6, WorkerInv

LEMMA InitInv == Init => IInv
<1> SUFFICES ASSUME Init PROVE IInv
  OBVIOUS
<1>1. NewProcess \in Process
  BY EmptyItems DEF NewProcess, Process, NoFd
<1>2. /\ \A w \in Workers : proc[w] = NewProcess /\ child[w] = DeadChild
      /\ proc \in [Workers -> Process] /\ child \in [Workers -> Child]
      /\ table \in [Fds -> Conns \cup {NoConn}]
      /\ \A n \in Fds : table[n] = NoConn
      /\ forks = 0 /\ accepted = 0 /\ finished = {} /\ failed = FALSE
  BY <1>1, DeadChildType DEF Init
<1>3. \A w \in Workers :
         /\ proc[w].st = "NEW" /\ Queue(w) = <<>> /\ proc[w].buried = 0
         /\ proc[w].open = FALSE /\ Wire(w) = <<>> /\ Held(w) = {}
  BY <1>2, DeadChildType DEF NewProcess, Queue, Wire, Held
<1>4. TypeOK
  <2>1. forks \in 0 .. MaxForks /\ accepted \in 0 .. MaxConn
    BY <1>2, BoundsAssumption
  <2>2. finished \subseteq Conns /\ failed \in BOOLEAN
    BY <1>2
  <2> QED
    BY <1>2, <2>1, <2>2 DEF TypeOK
<1>5. Unforked
  BY <1>3 DEF Unforked
<1>6. Channels
  <2>1. \A w \in Workers : proc[w].buried <= 1
    BY <1>3
  <2> QED
    BY <1>3, <2>1 DEF Channels
<1>7. Places
  <2>1. \A n \in Fds : table[n] <= accepted
    BY <1>2 DEF NoConn
  <2> QED
    BY <1>2, <1>3, <2>1, EmptyItems DEF Places, Accepted, SameKind, OtherKind
<1>8. Custody
  BY <1>2, <1>3, EmptyItems DEF Custody
<1>9. Limit
  <2>1. AllProcesses = {}
    BY <1>3 DEF AllProcesses
  <2> QED
    BY <2>1, FS_EmptySet, CountAssumption DEF Limit
<1> QED
  BY <1>4, <1>5, <1>6, <1>7, <1>8, <1>9 DEF IInv

LEMMA NextInv == IInv /\ [Next]_vars => IInv'
<1> SUFFICES ASSUME IInv, [Next]_vars PROVE IInv'
  OBVIOUS
<1>1. CASE Master
  BY <1>1, StartInv, AcceptInv, SendFDInv, SendFDFailsInv, ExitProcessInv,
     CleanupInv, NotifyCloseInv, KillProcessesInv DEF Master
<1>2. ASSUME NEW w \in Workers, Worker(w) PROVE IInv'
  BY <1>2, RecvFDInv, FinishInv, ExecuteCloseInv, DiesInv DEF Worker
<1>3. CASE UNCHANGED vars
  <2>1. /\ UNCHANGED <<proc, child, table, forks, accepted, finished, failed>>
    BY <1>3 DEF vars
  <2>2. Places'
    BY <2>1 DEF IInv, Places, Accepted, SameKind, OtherKind, Wire, Held
  <2> QED
    BY <2>1, <2>2, WorkerInv DEF IInv, TypeOK
<1> QED
  BY <1>1, <1>2, <1>3 DEF Next

-----------------------------------------------------------------------------
(* What the invariant means for the properties, which count                *)

LEMMA AtMostOne ==
  ASSUME NEW S, \A x, y \in S : x = y
  PROVE  /\ Cardinality(S) \in {0, 1}
         /\ Cardinality(S) = 1 => S # {}
<1>1. CASE S = {}
  BY <1>1, FS_EmptySet
<1>2. CASE S # {}
  <2>1. PICK x : S = {x}
    BY <1>2
  <2> QED
    BY <1>2, <2>1, FS_Singleton
<1> QED
  BY <1>1, <1>2

LEMMA PlacesAreOne == IInv => InOnePlace
<1> SUFFICES ASSUME IInv, NEW c \in Conns
             PROVE  /\ Cardinality(InMaster(c)) + Cardinality(OnWire(c))
                         + Cardinality(AtWorker(c)) + (IF c \in finished THEN 1 ELSE 0) <= 1
                    /\ \A w \in Workers : Cardinality({i \in DOMAIN child[w].wire :
                                                         child[w].wire[i] = c}) <= 1
  BY DEF InOnePlace
<1>1. c # NoConn
  BY DEF Conns, NoConn
<1>2. \A w \in Workers : DOMAIN Wire(w) = 1 .. Len(Wire(w))
  BY FieldTypes DEF IInv
<1>3. \A m, n \in InMaster(c) : m = n
  BY <1>1 DEF IInv, Places, SameKind, InMaster
<1>4. \A w \in OnWire(c) : w \in Workers /\ \E i \in 1 .. Len(Wire(w)) : Wire(w)[i] = c
  BY <1>2 DEF OnWire, ToSet, Wire
<1>5. \A v, w \in OnWire(c) : v = w
  BY <1>4 DEF IInv, Places, SameKind
<1>6. \A v, w \in AtWorker(c) : v = w
  BY DEF IInv, Places, SameKind, AtWorker, Held
<1>7. /\ InMaster(c) # {} => OnWire(c) = {} /\ AtWorker(c) = {} /\ c \notin finished
      /\ OnWire(c) # {} => AtWorker(c) = {} /\ c \notin finished
      /\ AtWorker(c) # {} => c \notin finished
  <2>1. ASSUME NEW n \in InMaster(c)
        PROVE  OnWire(c) = {} /\ AtWorker(c) = {} /\ c \notin finished
    BY <1>1, <1>4 DEF IInv, Places, OtherKind, InMaster, AtWorker, Held
  <2>2. ASSUME NEW w \in OnWire(c)
        PROVE  AtWorker(c) = {} /\ c \notin finished
    BY <1>4 DEF IInv, Places, OtherKind, AtWorker, Held
  <2>3. ASSUME NEW w \in AtWorker(c) PROVE c \notin finished
    BY DEF IInv, Places, OtherKind, AtWorker, Held
  <2> QED
    BY <2>1, <2>2, <2>3
<1>8. Cardinality({}) = 0
  BY FS_EmptySet
<1>9. /\ Cardinality(InMaster(c)) \in {0, 1} /\ Cardinality(OnWire(c)) \in {0, 1}
      /\ Cardinality(AtWorker(c)) \in {0, 1}
      /\ Cardinality(InMaster(c)) = 1 => InMaster(c) # {}
      /\ Cardinality(OnWire(c)) = 1 => OnWire(c) # {}
      /\ Cardinality(AtWorker(c)) = 1 => AtWorker(c) # {}
  BY <1>3, <1>5, <1>6, AtMostOne
<1>10. ASSUME NEW w \in Workers
       PROVE  Cardinality({i \in DOMAIN Wire(w) : Wire(w)[i] = c}) <= 1
  <2> DEFINE S == {i \in DOMAIN Wire(w) : Wire(w)[i] = c}
  <2>1. \A i, j \in S : i = j
    BY <1>2 DEF IInv, Places, SameKind
  <2> HIDE DEF S
  <2>2. Cardinality(S) \in {0, 1}
    BY <2>1, AtMostOne
  <2>3. Cardinality(S) <= 1
    BY <2>2
  <2> QED
    BY <2>3 DEF S
<1> QED
  BY <1>7, <1>8, <1>9, <1>10 DEF Wire

LEMMA CustodyIsKept == IInv => CustodyUntilFailure
<1> SUFFICES ASSUME IInv, ~failed
             PROVE  /\ \A w \in Workers : ToSet(proc[w].queue) \subseteq
                                             {n \in Fds : table[n] # NoConn}
                    /\ \A n \in Fds : table[n] # NoConn =>
                         \E w \in Workers :
                           /\ proc[w].sender
                           /\ Cardinality({i \in DOMAIN proc[w].queue :
                                             proc[w].queue[i] = n}) = 1
                           /\ \A v \in Workers \ {w} : n \notin ToSet(proc[v].queue)
  BY DEF CustodyUntilFailure
<1>1. \A w \in Workers : /\ DOMAIN Queue(w) = 1 .. Len(Queue(w))
                         /\ \A i \in 1 .. Len(Queue(w)) : Queue(w)[i] \in Fds
  BY FieldTypes DEF IInv
<1>2. \A w \in Workers : \A n \in ToSet(Queue(w)) :
         \E i \in 1 .. Len(Queue(w)) : Queue(w)[i] = n
  BY <1>1 DEF ToSet
<1>3. \A w \in Workers : ToSet(Queue(w)) \subseteq {n \in Fds : table[n] # NoConn}
  BY <1>1, <1>2 DEF IInv, Custody
<1>4. ASSUME NEW n \in Fds, table[n] # NoConn
      PROVE  \E w \in Workers :
               /\ proc[w].sender
               /\ Cardinality({i \in DOMAIN Queue(w) : Queue(w)[i] = n}) = 1
               /\ \A v \in Workers \ {w} : n \notin ToSet(Queue(v))
  <2>1. PICK w \in Workers : /\ proc[w].sender
                             /\ \E i \in 1 .. Len(Queue(w)) : Queue(w)[i] = n
    BY <1>4 DEF IInv, Custody
  <2>2. PICK i \in 1 .. Len(Queue(w)) : Queue(w)[i] = n
    BY <2>1
  <2> DEFINE S == {j \in DOMAIN Queue(w) : Queue(w)[j] = n}
  <2>3. S = {i}
    BY <1>1, <2>2 DEF IInv, Custody
  <2>4. Cardinality(S) = 1
    BY <2>3, FS_Singleton
  <2>5. \A v \in Workers \ {w} : n \notin ToSet(Queue(v))
    BY <1>2, <2>2 DEF IInv, Custody
  <2> QED
    BY <2>1, <2>4, <2>5
<1> QED
  BY <1>3, <1>4 DEF Queue

-----------------------------------------------------------------------------
(* The theorems                                                            *)

\* Every reachable state of the master and its workers satisfies IInv.
THEOREM DispatcherInvariance == Spec => []IInv
<1>1. Init => IInv
  BY InitInv
<1>2. IInv /\ [Next]_vars => IInv'
  BY NextInv
<1> QED
  BY <1>1, <1>2, PTL DEF Spec

\* The processes, their channels and the descriptor table keep their types.
THEOREM DispatcherTypeCorrect == Spec => []TypeOK
<1>1. IInv => TypeOK
  BY DEF IInv
<1> QED
  BY <1>1, DispatcherInvariance, PTL

\* Passing descriptors between processes never duplicates a connection.
THEOREM ConnectionsAreInOnePlace == Spec => []InOnePlace
<1>1. IInv => InOnePlace
  BY PlacesAreOne
<1> QED
  BY <1>1, DispatcherInvariance, PTL

\* No client descriptor of the master is forgotten as long as nothing failed.
THEOREM MasterKeepsCustody == Spec => []CustodyUntilFailure
<1>1. IInv => CustodyUntilFailure
  BY CustodyIsKept
<1> QED
  BY <1>1, DispatcherInvariance, PTL

\* The pool never has more workers than configured, and buries each only once.
THEOREM PoolIsWithinLimit == Spec => []PoolStaysWithinLimit
<1>1. IInv => PoolStaysWithinLimit
  BY DEF IInv, PoolStaysWithinLimit, Channels, Limit
<1> QED
  BY <1>1, DispatcherInvariance, PTL
=============================================================================
