----------------------------- MODULE MCKeyVault -----------------------------
(***************************************************************************)
(* Instances of KeyVault for TLC.  Tags are interchangeable, and so are    *)
(* handlers.                                                               *)
(***************************************************************************)
EXTENDS KeyVault, TLC

CONSTANTS p1, p2, t1, t2

Setting(overlap, ops, passphrases, calls, stops) ==
  [overlap |-> overlap, ops |-> ops, keys |-> passphrases, requests |-> calls, restarts |-> stops]

(* Requests one after the other; two handlers at once and a restart; one   *)
(* handler and two restarts.                                               *)
Turns == Setting(FALSE, AllOps, 2, 9, 0)
Overlaps == Setting(TRUE, {"change", "lock", "new", "derive", "delete", "agentkey", "uninstall"}, 1, 7, 1)
Restarts == Setting(FALSE, AllOps \ {"import", "sign"}, 1, 8, 2)
All == {Turns, Overlaps, Restarts}

(* What Safe and InTurn exclude: a change of the passphrase that a restart *)
(* stops; locking while an unlock is under way; two requests for a key;    *)
(* an export after a restart.                                              *)
Halfway == Setting(FALSE, {"change", "new"}, 2, 5, 1)
Zeroed == Setting(TRUE, {"change", "lock", "unlock", "agentkey"}, 1, 6, 1)
Beyond == {Halfway, Zeroed}
AfterRestart == {Setting(FALSE, {"change", "lock", "unlock", "new", "export"}, 1, 5, 1)}

Symmetry == Permutations({p1, p2}) \cup Permutations({t1, t2})
=============================================================================
