------------------------------ MODULE Storage ------------------------------
(***************************************************************************)
(* The two stores of a worker's host functions: "cached" behaviours are    *)
(* calls over the cached storage, "ops" behaviours calls over the row      *)
(* store, up to the ops of what they write.  The parts share no state; a   *)
(* behaviour is one of a single part, chosen at the start.                 *)
(***************************************************************************)
EXTENDS Authoring

CONSTANTS Parts,                                      \* the parts to explore
          MaxFailures, MaxRollbacks, MaxReloads       \* bounds

VARIABLES part, idb, pending, cache, inCall, bounds

cachedVars == <<idb, pending, cache, inCall, bounds>>

C == INSTANCE CachedStore WITH call <- inCall

ASSUME PendingAssumption == None \notin C!Pendings /\ None \notin [cell : Cells, seq : Nat, act : Acts]

Init == part \in Parts /\ AuthorInit /\ C!CachedInit

Next ==
  /\ UNCHANGED part
  /\ \/ part = "ops" /\ AuthorNext /\ UNCHANGED cachedVars
     \/ part = "cached" /\ C!CachedNext /\ UNCHANGED authorVars

Spec == Init /\ [][Next]_<<part, authorVars, cachedVars>>

(* A call reads from the session cache what the row store would answer     *)
(* (preloadChainForCell, and the writes of SourceChainStorage).            *)
SameAnswers == C!SameAnswers
(* SourceChainStorage implements the row store (commitTransaction).        *)
ImplementsRows == C!ImplementsRows
============================================================================
