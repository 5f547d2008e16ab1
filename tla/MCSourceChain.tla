--------------------------- MODULE MCSourceChain ---------------------------
(***************************************************************************)
(* Instances of SourceChain for TLC: p is a cell of zome calls only, m one *)
(* founded by RUN_GENESIS, r one that is recovered from the DHT.           *)
(***************************************************************************)
EXTENDS SourceChain, TLC

CONSTANTS p, m, r, t1, t2, g1

(* Two calls on one cell.                                                  *)
TwoOnP == [t \in {t1, t2} |-> p]
(* Two calls on p, a RUN_GENESIS on m.                                     *)
CallsAndGenesis == (t1 :> p) @@ (t2 :> p) @@ (g1 :> m)

Symmetry == Permutations({t1, t2})
=============================================================================
