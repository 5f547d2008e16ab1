------------------------------ MODULE MCStorage ------------------------------
(***************************************************************************)
(* An instance of Storage for TLC: A writes every kind of action, B is a   *)
(* second cell that shares an entry with it.                               *)
(***************************************************************************)
EXTENDS Storage

CONSTANTS A, B, dna, key, c1, c2, u, d, l, x, bdna, bc, e1, e2, ek

Act(c, t, e, z, o, b) == [cell |-> c, type |-> t, entry |-> e, zome |-> z, original |-> o, base |-> b]
MCAbout ==
  (dna :> Act(A, "Dna", None, None, None, None)) @@ (key :> Act(A, "Create", ek, None, None, None)) @@
  (c1 :> Act(A, "Create", e1, 1, None, None)) @@ (c2 :> Act(A, "Create", e1, 1, None, None)) @@
  (u :> Act(A, "Update", e2, 1, c1, None)) @@ (d :> Act(A, "Delete", None, None, c1, None)) @@
  (l :> Act(A, "CreateLink", None, 1, None, e1)) @@ (x :> Act(A, "DeleteLink", None, None, l, None)) @@
  (bdna :> Act(B, "Create", ek, None, None, None)) @@ (bc :> Act(B, "Create", e1, 0, None, None))
MCGenesis == (A :> <<dna, key>>) @@ (B :> <<bdna>>)
MCZomes == {0, 1}

(* Bounds: ops of one cell from the coordinator zome or integrity zome 1;  *)
(* over the cached store only one of two equal creates.                    *)
MCNext ==
  /\ Next
  /\ part = "ops" => call'.zome # 0 /\ rows'.head[B] = None
  /\ part = "cached" /\ pending' # None => \A i \in DOMAIN pending'.act : pending'.act[i].key # c2

MCSpec == Init /\ [][MCNext]_<<part, authorVars, cachedVars>>
=============================================================================
