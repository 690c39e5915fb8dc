--------------------------- MODULE HttpConnection ---------------------------
(***************************************************************************)
(* What a worker promises about each client connection, whichever handler  *)
(* serves it: requests are read, served and answered one after the other;  *)
(* the answer is completely sent before the next request is read; a        *)
(* connection that is being closed is not read again, and a closed one     *)
(* never comes back.  One step may move several connections.               *)
(***************************************************************************)
EXTENDS Naturals

CONSTANT Conns
VARIABLE phase   \* the phase of every connection

Phases == {"absent", "reading", "serving", "answering", "closing", "closed"}

\* The phases that one callback may lead to.
Moves ==
  [p \in Phases |->
     CASE p = "absent"    -> {"absent", "reading"}
       [] p = "reading"   -> Phases \ {"absent"}
       [] p = "serving"   -> Phases \ {"absent"}
       [] p = "answering" -> {"answering", "reading", "closing", "closed"}
       [] p = "closing"   -> {"closing", "closed"}
       [] p = "closed"    -> {"closed"}]

Init == phase = [c \in Conns |-> "absent"]

Next == /\ phase' \in [Conns -> Phases]
        /\ \A c \in Conns : phase'[c] \in Moves[phase[c]]

Spec == Init /\ [][Next]_phase
=============================================================================
