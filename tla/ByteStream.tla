----------------------------- MODULE ByteStream -----------------------------
(***************************************************************************)
(* What an IIOWriter promises the object that owns it (IIOWriter.h): the   *)
(* bytes submitted with write() and transport() reach the descriptor in    *)
(* the order of submission, none twice and none left out, until the        *)
(* stream is shut.  Bytes are numbered from 1 in submission order; a new   *)
(* descriptor starts a new stream.                                         *)
(*                                                                         *)
(* exact says whether the descriptor took nothing else.  The text promises *)
(* this as well (a planned length is a maximum, IIOPump.h:46), but the     *)
(* code does not keep it, so Deliver may end it.                           *)
(***************************************************************************)
EXTENDS Naturals

VARIABLES submitted,  \* number of bytes accepted so far
          sent,       \* number of bytes delivered so far
          exact,      \* only submitted bytes were delivered
          alive       \* the stream accepts and delivers

vars == <<submitted, sent, exact, alive>>

Init == submitted = 0 /\ sent = 0 /\ exact = TRUE /\ alive = TRUE

Submit == /\ alive
          /\ submitted' \in Nat /\ submitted' > submitted
          /\ UNCHANGED <<sent, exact, alive>>

\* The next bytes in line are delivered, never more than were submitted.
Deliver == /\ alive
           /\ sent' \in Nat /\ sent' > sent /\ sent' <= submitted
           /\ exact' \in {exact, FALSE}
           /\ UNCHANGED <<submitted, alive>>

Shut == alive /\ alive' = FALSE /\ UNCHANGED <<submitted, sent, exact>>

Renew == ~alive /\ Init'

Next == Submit \/ Deliver \/ Shut \/ Renew

Spec == Init /\ [][Next]_vars
=============================================================================
