------------------------------ MODULE ChainLog ------------------------------
(***************************************************************************)
(* What the source chain promises: per cell an append-only log.  A log     *)
(* appears with its four genesis records at once, then grows at its end;   *)
(* what is published is on the log, and stays there.                       *)
(***************************************************************************)
EXTENDS Naturals, Sequences, SequencesExt

CONSTANTS Cells, Records

VARIABLES log, published

OnLog(c) == {log[c][i] : i \in 1..Len(log[c])}

Init ==
  /\ log = [c \in Cells |-> <<>>]
  /\ published = [c \in Cells |-> {}]

(* One cell's log grows, by its genesis or by the records of a call.       *)
Extend(c) ==
  /\ log[c] # log'[c]
  /\ IsPrefix(log[c], log'[c])
  /\ log[c] = <<>> => Len(log'[c]) = 4
  /\ \A d \in Cells \ {c} : log'[d] = log[d]
  /\ UNCHANGED published

Publish(c) ==
  /\ published[c] \subseteq published'[c]
  /\ published'[c] \subseteq OnLog(c)
  /\ \A d \in Cells \ {c} : published'[d] = published[d]
  /\ UNCHANGED log

Next == \E c \in Cells : Extend(c) \/ Publish(c)

Spec == Init /\ [][Next]_<<log, published>>
=============================================================================
