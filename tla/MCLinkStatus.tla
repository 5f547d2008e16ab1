----------------------------- MODULE MCLinkStatus -----------------------------
(* Instances of LinkStatus for TLC: Heavy are the kinds of events that count
   double, of which a behaviour has one at most. *)
EXTENDS LinkStatus

CONSTANTS u, v, Heavy

Kinds == {"linker", "socket", "restart", "report", "throw", "reconnect"}
Weights == [kind \in Kinds |-> IF kind \in Heavy THEN 2 ELSE 1]
==============================================================================
