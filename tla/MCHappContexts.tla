--------------------------- MODULE MCHappContexts ---------------------------
(***************************************************************************)
(* Instances of HappContexts for TLC.  Handlers are interchangeable, and   *)
(* so are domains.                                                         *)
(***************************************************************************)
EXTENDS HappContexts, TLC

CONSTANTS p1, p2, d1, d2

Pages == {OwnTag(d) : d \in Domains}

Setting(overlap, domains, tags, ops, lairFails, installs, calls, stops) ==
  [overlap |-> overlap, domains |-> domains, tags |-> tags, ops |-> ops, lairFails |-> lairFails,
   installs |-> installs, requests |-> calls, restarts |-> stops]

(* Requests one after the other on two domains whose pages name tags; on   *)
(* one, with remote signals, keys that are deleted, a Lair that fails and a *)
(* restart; two handlers at once, with signals, such a Lair and a restart.  *)
Turns == Setting(FALSE, {d1, d2}, Pages, AllOps \ {"signal", "delkey"}, FALSE, 3, 5, 0)
Troubles == {Setting(FALSE, {d}, {}, AllOps, TRUE, 2, 6, 1) : d \in Domains}
Overlaps == {Setting(TRUE, {d}, {}, AllOps \ {"newkey", "delkey"}, TRUE, 2, 5, 1) : d \in Domains}
All == {Turns} \cup Troubles \cup Overlaps

(* A call that commits and is not answered.                                *)
Unanswered == {Setting(FALSE, {d}, {}, {"install", "call", "recover"}, FALSE, 1, 4, 0) : d \in Domains}

(* Two handlers at once, under which only seals and caches are kept, and a  *)
(* Lair that fails, which makes contexts look stale.                       *)
Beyond == {Setting(TRUE, {d}, {}, {"install", "provide", "uninstall", "disable", "call"}, TRUE, 1, 5, 0) : d \in Domains}

Symmetry == Permutations({p1, p2}) \cup Permutations({d1, d2})
=============================================================================
