------------------------------ MODULE MCSession ------------------------------
(***************************************************************************)
(* An instance of Session for TLC: two tabs of an origin the user is asked *)
(* about, two of one that is approved unasked; two challenges of one       *)
(* group, of which the extension signs one, and a third of its own.        *)
(***************************************************************************)
EXTENDS Session

CONSTANTS p1, p2, l1, l2, o1, o2, c1, c2, c3

Own == [p \in {p1, p2, l1, l2} |-> IF p \in {l1, l2} THEN o2 ELSE o1]
ListOrder == <<c1, c2, c3>>
Alternatives == [c \in {c1, c2, c3} |-> IF c = c3 THEN NoGroup ELSE "either"]
==============================================================================
