------------------------ MODULE MCExecutorLifecycle ------------------------
(***************************************************************************)
(* Instances of ExecutorLifecycle for TLC; the scenarios add up in one run *)
(* instead of multiplying.                                                 *)
(***************************************************************************)
EXTENDS ExecutorLifecycle, TLC

CONSTANTS p, q, r, s, d1

OneDna == [c \in Callers |-> d1]

Setting(platform, jobs, requests, tokens, restarts, closes, breaks) ==
  [platform |-> platform, job |-> [c \in Callers |-> jobs[c]], requests |-> requests,
   tokens |-> tokens, restarts |-> restarts, closes |-> closes, breaks |-> breaks]
Jobs4(a, b, c, d) == (p :> a) @@ (q :> b) @@ (r :> c) @@ (s :> d)

(* A call that blocks twice, and whose document may be closed; 401s and    *)
(* new tokens; two calls of a DNA while documents come and go and the      *)
(* service worker restarts; the settings it restores; a worker that does   *)
(* not start; and Firefox, with a restart and without a worker.            *)
Blocking == Setting("chrome", Jobs4("call", "configure", "none", "none"), 2, 1, 0, 1, FALSE)
Tokens == Setting("chrome", Jobs4("call", "configure", "none", "none"), 1, 3, 0, 0, FALSE)
Documents == Setting("chrome", Jobs4("call", "call", "none", "none"), 0, 0, 1, 2, FALSE)
Resumed == Setting("chrome", Jobs4("call", "none", "configure", "restore"), 0, 0, 1, 1, FALSE)
Broken == Setting("chrome", Jobs4("work", "configure", "off", "on"), 0, 1, 0, 0, TRUE)
Firefox == Setting("firefox", Jobs4("call", "configure", "call", "restore"), 1, 1, 1, 0, FALSE)
FirefoxBroken == Setting("firefox", Jobs4("call", "configure", "work", "none"), 1, 1, 0, 0, TRUE)
All == {Blocking, Tokens, Documents, Resumed, Broken, Firefox, FirefoxBroken}
JustBlocking == {Blocking}
=============================================================================
