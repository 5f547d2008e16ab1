----------------------------- MODULE MCDhtView -----------------------------
(***************************************************************************)
(* Instances of DhtView for TLC: a link of this agent and one of another,  *)
(* of two types; four actions, two for each of two entries.                *)
(***************************************************************************)
EXTENDS DhtView, TLC

CONSTANTS m1, o1, t1, t2, d1, d2, a1, a2, a3, a4, e1, e2

TwoTypes == (m1 :> t1) @@ (o1 :> t2)
OneDna == [l \in Links |-> d1]
TwoDnas == (m1 :> d1) @@ (o1 :> d2)
TwoEntries == (a1 :> e1) @@ (a2 :> e2) @@ (a3 :> e2) @@ (a4 :> e1)
=============================================================================
