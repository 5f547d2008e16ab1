------------------------------ MODULE SiteAccess ------------------------------
(***************************************************************************)
(* How a page is let into the extension: window.holochain.connect() in the *)
(* page, the relay of the content script, handleConnect in the background, *)
(* the pending requests of AuthManager, the permissions of                 *)
(* PermissionManager and the popup the user answers in.  A request to      *)
(* authorize is known by the call that made it, so AuthManager's two maps  *)
(* are sets of calls.  A permission is written to chrome.storage in the    *)
(* turn that changes it, so one variable stands for memory and storage.    *)
(***************************************************************************)
EXTENDS Naturals

CONSTANTS Pages, Origins, OriginOf,   \* tabs, origins, and whose a tab is
          Local,                      \* origins that are approved unasked
          MaxConnects,                \* bound: calls of connect() in a tab
          MaxRetries,                 \* MAX_RETRIES of the content script
          MaxRestarts                 \* bound: restarts of the service worker

VARIABLES promise,    \* what the page's promise of a call has become
          call,       \* where the call's handler is, and its answer
          tries,      \* deliveries that found no background
          pending,    \* AuthManager.pendingRequests
          callbacks,  \* AuthManager.resolveCallbacks
          perm,       \* PermissionManager, by origin
          popup,      \* the window of a call's request
          revoking,   \* origins whose PERMISSION_REVOKE is on its way
          restarts    \* of the service worker so far

vars == <<promise, call, tries, pending, callbacks, perm, popup, revoking, restarts>>

Calls == Pages \X (1..MaxConnects)
Site(c) == OriginOf[c[1]]
Handling == {"key", "localkey", "opening", "open"}   \* awaits of handleConnect
Verdicts == {"approving", "approved", "denying", "denied"}

(* The type of every variable. *)
TypeOK ==
    /\ promise \in [Calls -> {"none", "waiting", "connected", "refused", "timeout"}]
    /\ call \in [Calls -> {"none", "sent", "connected", "refused", "done"} \cup Handling]
    /\ tries \in [Calls -> 0..MaxRetries]
    /\ callbacks \subseteq Calls /\ pending \subseteq Calls
    /\ perm \in [Origins -> {"none", "granted", "denied"}]
    /\ popup \in [Calls -> {"none", "loading", "shown", "failed", "closed"} \cup Verdicts]
    /\ revoking \subseteq Origins /\ restarts \in 0..MaxRestarts

Init ==
    /\ promise = [c \in Calls |-> "none"] /\ call = [c \in Calls |-> "none"]
    /\ tries = [c \in Calls |-> 0]
    /\ pending = {} /\ callbacks = {}
    /\ perm = [o \in Origins |-> "none"]
    /\ popup = [c \in Calls |-> "none"]
    /\ revoking = {} /\ restarts = 0

------------------------------------------------------------------------------
(* The page and the content script. *)

(* sendToContentScript and sendToBackground: the promise waits, the message goes. *)
Connect(c) ==
    /\ promise[c] = "none"
    /\ c[2] > 1 => promise[<<c[1], c[2] - 1>>] # "none"
    /\ promise' = [promise EXCEPT ![c] = "waiting"]
    /\ call' = [call EXCEPT ![c] = "sent"]
    /\ UNCHANGED <<tries, pending, callbacks, perm, popup, revoking, restarts>>

(* The page waits thirty seconds; an answer after that finds no request. *)
PageTimeout(c) ==
    /\ promise[c] = "waiting"
    /\ promise' = [promise EXCEPT ![c] = "timeout"]
    /\ UNCHANGED <<call, tries, pending, callbacks, perm, popup, revoking, restarts>>

(* "Receiving end does not exist": sent again, or given up with an error. *)
Bounce(c) ==
    /\ call[c] = "sent"
    /\ \/ tries[c] < MaxRetries /\ tries' = [tries EXCEPT ![c] = @ + 1] /\ UNCHANGED call
       \/ tries[c] = MaxRetries /\ call' = [call EXCEPT ![c] = "refused"] /\ UNCHANGED tries
    /\ UNCHANGED <<promise, pending, callbacks, perm, popup, revoking, restarts>>

(* The answer reaches the content script, is posted to the page, and settles
   the promise if it still waits. *)
Answer(c) ==
    /\ call[c] \in {"connected", "refused"}
    /\ promise' = [promise EXCEPT ![c] = IF @ = "waiting" THEN call[c] ELSE @]
    /\ call' = [call EXCEPT ![c] = "done"]
    /\ UNCHANGED <<tries, pending, callbacks, perm, popup, revoking, restarts>>

------------------------------------------------------------------------------
(* The background: handleConnect. *)

(* createAuthRequest, and a window for it. *)
Ask(c) ==
    /\ pending' = pending \cup {c}
    /\ call' = [call EXCEPT ![c] = "opening"]

(* Mutant of HandleConnect: a local origin is granted before its record is
   looked at. *)
HandleConnectLocalFirst(c) ==
    /\ call[c] = "sent"
    /\ \/ /\ Site(c) \in Local
          /\ perm' = [perm EXCEPT ![Site(c)] = "granted"]
          /\ call' = [call EXCEPT ![c] = "localkey"]
          /\ UNCHANGED pending
       \/ /\ Site(c) \notin Local /\ perm[Site(c)] # "none"
          /\ call' = [call EXCEPT ![c] = IF perm[Site(c)] = "granted" THEN "key" ELSE "refused"]
          /\ UNCHANGED <<perm, pending>>
       \/ Site(c) \notin Local /\ perm[Site(c)] = "none" /\ Ask(c) /\ UNCHANGED perm
    /\ UNCHANGED <<promise, tries, callbacks, popup, revoking, restarts>>

(* A recorded permission decides; without one a local origin is granted, and
   for any other the user is asked. *)
HandleConnect(c) ==
    /\ call[c] = "sent"
    /\ \/ /\ perm[Site(c)] = "granted"
          /\ call' = [call EXCEPT ![c] = "key"]
          /\ UNCHANGED <<perm, pending>>
       \/ /\ perm[Site(c)] = "denied"
          /\ call' = [call EXCEPT ![c] = "refused"]
          /\ UNCHANGED <<perm, pending>>
       \/ /\ perm[Site(c)] = "none" /\ Site(c) \in Local
          /\ perm' = [perm EXCEPT ![Site(c)] = "granted"]
          /\ call' = [call EXCEPT ![c] = "localkey"]
          /\ UNCHANGED pending
       \/ /\ perm[Site(c)] = "none" /\ Site(c) \notin Local
          /\ Ask(c)
          /\ UNCHANGED perm
    /\ UNCHANGED <<promise, tries, callbacks, popup, revoking, restarts>>

(* getOrCreateAgentKey returns, or throws: the keystore may be locked.  What
   it throws for a local origin that was just granted falls through to the
   question. *)
AgentKey(c) ==
    /\ \/ call[c] \in {"key", "localkey"} /\ call' = [call EXCEPT ![c] = "connected"] /\ UNCHANGED pending
       \/ call[c] = "key" /\ call' = [call EXCEPT ![c] = "refused"] /\ UNCHANGED pending
       \/ call[c] = "localkey" /\ Ask(c)
    /\ UNCHANGED <<promise, tries, callbacks, perm, popup, revoking, restarts>>

(* chrome.windows.create returns and the callback is set, or it throws: the
   page is told, and the request is left to its timeout. *)
OpenWindow(c) ==
    /\ call[c] = "opening"
    /\ \/ /\ call' = [call EXCEPT ![c] = "open"]
          /\ popup' = [popup EXCEPT ![c] = "loading"]
          /\ callbacks' = callbacks \cup {c}
       \/ /\ call' = [call EXCEPT ![c] = "refused"]
          /\ UNCHANGED <<popup, callbacks>>
    /\ UNCHANGED <<promise, tries, pending, perm, revoking, restarts>>

------------------------------------------------------------------------------
(* AuthManager. *)

(* The callback, if it is set, gives the call its answer; both entries go. *)
Retire(c, answer) ==
    /\ call' = [call EXCEPT ![c] = IF c \in callbacks THEN answer ELSE @]
    /\ pending' = pending \ {c} /\ callbacks' = callbacks \ {c}

(* Mutant of AuthTimeout: the request goes, nobody is told. *)
AuthTimeoutSilent(c) ==
    /\ c \in pending
    /\ call[c] # "opening"
    /\ pending' = pending \ {c} /\ callbacks' = callbacks \ {c}
    /\ UNCHANGED <<promise, call, tries, perm, popup, revoking, restarts>>

(* Two minutes; a window opens long before that, hence the second conjunct. *)
AuthTimeout(c) ==
    /\ c \in pending
    /\ call[c] # "opening"
    /\ Retire(c, "refused")
    /\ UNCHANGED <<promise, tries, perm, popup, revoking, restarts>>

------------------------------------------------------------------------------
(* The authorize popup and the handlers of its two buttons. *)

(* AUTH_REQUEST_INFO: without the request there are no buttons. *)
PopupLoads(c) ==
    /\ popup[c] = "loading"
    /\ popup' = [popup EXCEPT ![c] = IF c \in pending THEN "shown" ELSE "failed"]
    /\ UNCHANGED <<promise, call, tries, pending, callbacks, perm, revoking, restarts>>

(* A click disables both buttons; the user may as well close the window. *)
Click(c) ==
    /\ popup[c] = "shown"
    /\ \E next \in {"approving", "denying", "closed"} : popup' = [popup EXCEPT ![c] = next]
    /\ UNCHANGED <<promise, call, tries, pending, callbacks, perm, revoking, restarts>>

(* grantPermission and denyPermission are called before anyone looks whether
   the request still exists. *)
Record(c) ==
    /\ popup[c] \in {"approving", "denying"}
    /\ perm' = [perm EXCEPT ![Site(c)] = IF popup[c] = "approving" THEN "granted" ELSE "denied"]
    /\ popup' = [popup EXCEPT ![c] = IF @ = "approving" THEN "approved" ELSE "denied"]
    /\ UNCHANGED <<promise, call, tries, pending, callbacks, revoking, restarts>>

(* resolveAuthRequest: the popup closes, or shows that there was no request. *)
Resolve(c) ==
    /\ popup[c] \in {"approved", "denied"}
    /\ popup' = [popup EXCEPT ![c] = IF c \in pending THEN "closed" ELSE "failed"]
    /\ IF c \in pending
       THEN Retire(c, IF popup[c] = "approved" THEN "connected" ELSE "refused")
       ELSE UNCHANGED <<call, pending, callbacks>>
    /\ UNCHANGED <<promise, tries, perm, revoking, restarts>>

(* getOrCreateAgentKey throws after the grant: the request stays as it was. *)
GrantFails(c) ==
    /\ popup[c] = "approved"
    /\ popup' = [popup EXCEPT ![c] = "failed"]
    /\ UNCHANGED <<promise, call, tries, pending, callbacks, perm, revoking, restarts>>

(* The permissions page: one origin, or all those it has just listed. *)
AskRevoke ==
    /\ revoking = {}
    /\ LET listed == {o \in Origins : perm[o] # "none"}
       IN  \E some \in {{o} : o \in listed} \cup {listed} :
             some # {} /\ revoking' = some
    /\ UNCHANGED <<promise, call, tries, pending, callbacks, perm, popup, restarts>>

Revoke(o) ==
    /\ o \in revoking
    /\ perm' = [perm EXCEPT ![o] = "none"]
    /\ revoking' = revoking \ {o}
    /\ UNCHANGED <<promise, call, tries, pending, callbacks, popup, restarts>>

------------------------------------------------------------------------------
(* The service worker stops and starts: its maps are empty, whoever awaits it
   is told that the channel closed, windows and permissions remain. *)
Restart ==
    /\ restarts < MaxRestarts
    /\ restarts' = restarts + 1
    /\ pending' = {} /\ callbacks' = {} /\ revoking' = {}
    /\ call' = [c \in Calls |-> IF call[c] \in Handling THEN "refused" ELSE call[c]]
    /\ popup' = [c \in Calls |->
         CASE popup[c] \in Verdicts -> "failed"
           [] popup[c] \notin Verdicts /\ call[c] = "opening" -> "loading"
           [] OTHER -> popup[c]]
    /\ UNCHANGED <<promise, tries, perm>>

Proceed(c) == HandleConnect(c) \/ AgentKey(c) \/ OpenWindow(c) \/ Answer(c)
Serve(c) == Record(c) \/ Resolve(c) \/ PopupLoads(c)

Next ==
    \/ \E c \in Calls :
         \/ Connect(c) \/ PageTimeout(c) \/ Bounce(c) \/ Proceed(c)
         \/ AuthTimeout(c) \/ Serve(c) \/ Click(c) \/ GrantFails(c)
    \/ AskRevoke \/ (\E o \in Origins : Revoke(o)) \/ Restart

(* Handlers return and timers fire; the user need not answer. *)
Fairness == \A c \in Calls : WF_vars(Proceed(c)) /\ WF_vars(AuthTimeout(c)) /\ WF_vars(Serve(c))

Spec == Init /\ [][Next]_vars /\ Fairness

------------------------------------------------------------------------------
(* Once an origin is denied, no page gets in by asking again: the record only
   changes by a click on Approve, in a window that was open before, or by a
   revocation. *)
DenialStands ==
    [][\A o \in Origins : perm[o] = "denied" /\ perm'[o] # "denied" =>
          \/ o \in revoking
          \/ \E c \in Calls : Site(c) = o /\ popup[c] = "approving"]_vars

(* Every message the content script has sent to the background is answered,
   whether the user answers, closes the window or does nothing, and whatever
   restarts in between. *)
CallsAnswered == \A c \in Calls : (call[c] = "sent") ~> (call[c] = "done")
==============================================================================
