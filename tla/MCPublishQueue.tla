--------------------------- MODULE MCPublishQueue ---------------------------
(***************************************************************************)
(* Instances of PublishQueue for TLC: ops a and b of DNA d1, c of d2.      *)
(***************************************************************************)
EXTENDS PublishQueue, TLC

CONSTANTS a, b, c, d1, d2, call1, call2, again, button, online

OneDna == [o \in Ops |-> d1]
TwoDnas == [o \in Ops |-> IF o = c THEN d2 ELSE d1]
Order1 == <<d1>>
Order2 == <<d1, d2>>

(* A call, PUBLISH_ALL_RECORDS and reconnects; two calls, alone and with   *)
(* reconnects.                                                             *)
CallAgainOnline == (call1 :> "record") @@ (again :> "all") @@ (online :> "reconnect")
CallAgainOnlineOps == (call1 :> {a}) @@ (again :> {b}) @@ (online :> {})
TwoCalls == (call1 :> "record") @@ (call2 :> "record")
CallsOnline == TwoCalls @@ (online :> "reconnect")
TwoDnasOps == (call1 :> {a, b}) @@ (call2 :> {c}) @@ (online :> {})
=============================================================================
