-------------------------- MODULE ExecutorLifecycle --------------------------
(***************************************************************************)
(* The ZomeExecutor: how a request of the background reaches the ribosome  *)
(* worker and how its answer comes back.                                   *)
(*                                                                         *)
(* Chrome: the service worker makes sure that the offscreen document is    *)
(* there, sends it a message, and the document passes it on to its worker. *)
(* The browser may stop the service worker or close the document.          *)
(* Firefox: the background page holds the worker itself, and both go       *)
(* together.  "Host" is the one of the two that owns the worker, the       *)
(* WebSocket, the linker's URL and the session token.                      *)
(*                                                                         *)
(* A call is abstracted to the blocking requests it makes (SyncBridge);    *)
(* SourceChain is what it does meanwhile.  The browser is assumed to       *)
(* answer getContexts and closeDocument before another document loads.     *)
(***************************************************************************)
EXTENDS SyncBridge

CONSTANTS
  Callers,    \* requests of the background; each runs once
  Dnas,
  DnaOf,      \* the DNA a call is about
  Scenarios   \* the settings Init chooses from: what the callers do, and the bounds

Jobs == {"none", "call", "work", "configure", "off", "on", "restore"}
ASSUME DnaAssumption == DnaOf \in [Callers -> Dnas]
Scenario ==
  [platform : {"chrome", "firefox"}, job : [Callers -> Jobs],
   requests : 0..MaxRequests,  \* bound: blocking requests
   tokens : Nat,               \* bound: session tokens issued
   restarts : Nat, closes : Nat, breaks : BOOLEAN]
   \* bounds: restarts, documents closed by the browser; may INIT fail?
ASSUME ScenarioAssumption == Scenarios \subseteq Scenario

VARIABLES
  sc,       \* the scenario; its bounds count down
  at,       \* where each caller is, in the background
  task,     \* where it is in the host
  bg,       \* the executor's fields, and what chrome.storage holds of the linker
  news,     \* an OFFSCREEN_READY is on its way
  host,     \* the host's fields
  wk,       \* the worker: its message queue, WASM cache, network settings, calls
  honoured  \* the session token the linker accepts

vars == <<sc, at, task, bg, news, host, wk, honoured, bridgeVars>>

Chrome == sc.platform = "chrome"
Ended == {"ok", "failed", "gone"}
FreshBg(stored) ==
  [ready |-> FALSE, creating |-> "no", configured |-> FALSE, saved |-> stored.saved,
   token |-> stored.token]
NoHost == [up |-> "none", url |-> FALSE, token |-> 0, ws |-> "none", worker |-> "off", sent |-> {},
           refused |-> None]   \* history: the token a 401 was about
NoWorker == [q |-> <<>>, cache |-> {}, url |-> FALSE, token |-> 0, chain |-> <<>>, running |-> None]

Init ==
  /\ sc \in Scenarios /\ BridgeInit
  /\ at = [c \in Callers |-> "idle"] /\ task = [c \in Callers |-> "none"]
  /\ bg = FreshBg([saved |-> FALSE, token |-> 0]) /\ news = FALSE
  /\ host = IF Chrome THEN NoHost ELSE [NoHost EXCEPT !.up = "up"]
  /\ wk = NoWorker /\ honoured = 0

Moved(from, to) == [c \in Callers |-> IF at[c] \in from THEN to ELSE at[c]]

(***************************************************************************)
(* The offscreen document (Chrome)                                         *)
(***************************************************************************)
(* The host goes, and with it the worker and all it was doing.             *)
HostGone(h) ==
  /\ host' = h /\ wk' = NoWorker /\ task' = [c \in Callers |-> "none"] /\ BridgeGone

HostStays == UNCHANGED <<host, wk, task, bridgeVars>>

(* The rest of ensureOffscreenDocument when there is no document: create   *)
(* one, unless a creation is under way, whose outcome is then waited for;  *)
(* one that was refused is kept for good.                                  *)
Create(c, others, ready) ==
  \/ /\ bg.creating = "no"
     /\ at' = [others EXCEPT ![c] = "create"]
     /\ bg' = [bg EXCEPT !.ready = FALSE, !.creating = "pending"]
     /\ HostGone([NoHost EXCEPT !.up = "loading"])
  \/ /\ bg.creating # "no"
     /\ at' = [others EXCEPT ![c] = IF bg.creating = "pending" THEN "join" ELSE "failed"]
     /\ bg' = [bg EXCEPT !.ready = ready] /\ HostGone(NoHost)

(* ensureOffscreenDocument: the document is there and ready, there and not *)
(* yet ready, or not there.                                                *)
Ensure(c) ==
  /\ at[c] = "ensure"
  /\ \/ /\ host.up # "none"
        /\ at' = [at EXCEPT ![c] = IF bg.ready THEN "send" ELSE "wait"]
        /\ UNCHANGED bg /\ HostStays
     \/ host.up = "none" /\ Create(c, at, bg.ready)
  /\ UNCHANGED <<sc, news, honoured>>

(* 3 s without OFFSCREEN_READY: close the document and create another; the *)
(* requests it was serving fail.  With no document, closing throws.        *)
Recreate(c) ==
  /\ at[c] = "wait"
  /\ \/ host.up # "none" /\ Create(c, Moved({"host"}, "failed"), FALSE)
     \/ /\ host.up = "none" /\ at' = [at EXCEPT ![c] = "failed"]
        /\ UNCHANGED bg /\ HostStays
  /\ UNCHANGED <<sc, news, honoured>>

(* The document's script runs: it starts its worker and reports.           *)
DocumentLoaded ==
  /\ host.up = "loading" /\ host' = [host EXCEPT !.up = "up", !.worker = "loading"]
  /\ news' = TRUE /\ UNCHANGED <<sc, at, task, bg, wk, honoured, bridgeVars>>

(* createDocument returns, or is refused because the document is gone.     *)
CreateReturns(c) ==
  /\ at[c] = "create" /\ host.up # "loading"
  /\ IF host.up = "up"
     THEN /\ bg' = [bg EXCEPT !.creating = "no"]
          /\ at' = [Moved({"join"}, "send") EXCEPT ![c] = IF bg.ready THEN "send" ELSE "readying"]
     ELSE /\ bg' = [bg EXCEPT !.creating = "refused"]
          /\ at' = [Moved({"join"}, "failed") EXCEPT ![c] = "failed"]
  /\ UNCHANGED <<sc, news, honoured>> /\ HostStays

(* markOffscreenReady: all who wait for the document go on.                *)
OffscreenReady ==
  /\ news /\ news' = FALSE
  /\ bg' = [bg EXCEPT !.ready = TRUE] /\ at' = Moved({"wait", "readying"}, "send")
  /\ UNCHANGED <<sc, honoured>> /\ HostStays

(* 10 s without it: the caller gets an error.                              *)
ReadyTimeout(c) ==
  /\ at[c] = "readying" /\ at' = [at EXCEPT ![c] = "failed"]
  /\ UNCHANGED <<sc, bg, news, honoured>> /\ HostStays

(***************************************************************************)
(* The executor's methods, and their handlers in the document              *)
(***************************************************************************)
ToWorker(w, m) == [w EXCEPT !.q = Append(@, m)]
Settings(h) == [type |-> "configure", url |-> h.url, token |-> h.token]
Forward(h) == IF h.worker = "ready" THEN ToWorker(wk, Settings(h)) ELSE wk

(* A request starts.  LINKER_CONFIGURE stores the URL first, and with it   *)
(* no token.                                                               *)
Start(c) ==
  /\ at[c] = "idle" /\ sc.job[c] \notin {"none", "restore"}
  /\ at' = [at EXCEPT ![c] = IF Chrome THEN "ensure" ELSE "send"]
  /\ bg' = IF sc.job[c] = "configure" THEN [bg EXCEPT !.saved = TRUE, !.token = 0] ELSE bg
  /\ UNCHANGED <<sc, news, honoured>> /\ HostStays

(* Calls, and what else the worker does, go to the host, which awaits its  *)
(* worker first (Firefox starts it now).  With no document, the message is *)
(* refused.                                                                *)
SendWork(c) ==
  /\ at[c] = "send" /\ sc.job[c] \in {"call", "work"}
  /\ at' = [at EXCEPT ![c] = IF host.up = "up" THEN "host" ELSE "failed"]
  /\ task' = IF host.up = "up" THEN [task EXCEPT ![c] = "init"] ELSE task
  /\ host' = IF host.up = "up" /\ host.worker = "off" THEN [host EXCEPT !.worker = "loading"] ELSE host
  /\ UNCHANGED <<sc, bg, news, wk, honoured, bridgeVars>>

(* Firefox: initialize comes before configureNetwork.                      *)
InitWorker(c) ==
  /\ at[c] = "send" /\ sc.job[c] \in {"configure", "restore"} /\ ~Chrome
  /\ \/ /\ host.worker = "off" /\ host' = [host EXCEPT !.worker = "loading"] /\ UNCHANGED at
     \/ /\ host.worker = "broken" /\ at' = [at EXCEPT ![c] = "failed"] /\ UNCHANGED host
  /\ UNCHANGED <<sc, task, bg, news, wk, honoured, bridgeVars>>

(* configureNetwork: set the URL, and the token if there is one; open the  *)
(* WebSocket; tell the worker, if ready.                                   *)
SendConfigure(c) ==
  /\ at[c] = "send" /\ sc.job[c] \in {"configure", "restore"} /\ (Chrome \/ host.worker = "ready")
  /\ IF host.up # "up" THEN at' = [at EXCEPT ![c] = "failed"] /\ UNCHANGED <<bg, host, wk>>
     ELSE LET token == IF sc.job[c] = "restore" THEN bg.token ELSE 0
              h == [host EXCEPT !.url = TRUE, !.token = IF token = 0 THEN @ ELSE token,
                                !.ws = IF @ = "none" THEN "connecting" ELSE @]
          IN /\ host' = h /\ wk' = Forward(h) /\ bg' = [bg EXCEPT !.configured = TRUE]
             /\ at' = [at EXCEPT ![c] = "ok"]
  /\ UNCHANGED <<sc, task, news, honoured, bridgeVars>>

(* LINKER_DISCONNECT and LINKER_RECONNECT.                                 *)
SendLinker(c) ==
  /\ at[c] = "send" /\ sc.job[c] \in {"off", "on"}
  /\ at' = [at EXCEPT ![c] = IF host.up = "up" THEN "ok" ELSE "failed"]
  /\ host' = IF host.ws = "none" THEN host
             ELSE IF sc.job[c] = "off" THEN [host EXCEPT !.ws = "off"]
             ELSE [host EXCEPT !.ws = IF @ = "off" THEN "connecting" ELSE @]
  /\ UNCHANGED <<sc, task, bg, news, wk, honoured, bridgeVars>>

(***************************************************************************)
(* The host                                                                *)
(***************************************************************************)
(* The worker has loaded and is sent INIT; on Firefox with the settings.   *)
WorkerLoaded ==
  /\ host.worker = "loading" /\ host' = [host EXCEPT !.worker = "init"]
  /\ wk' = ToWorker(wk, [Settings(IF Chrome THEN NoHost ELSE host) EXCEPT !.type = "init"])
  /\ UNCHANGED <<sc, at, task, bg, news, honoured, bridgeVars>>

Finish(c, end) ==
  /\ task' = [task EXCEPT ![c] = "none"]
  /\ at' = IF at[c] = "host" THEN [at EXCEPT ![c] = end] ELSE at

(* The worker is ready, or will never be.                                  *)
(* bug: whoever awaits a worker that does not start is not told *)
InitAwaitedForEver(c) ==
  /\ task[c] = "init" /\ host.worker = "ready"
  /\ IF sc.job[c] = "call"
     THEN task' = [task EXCEPT ![c] = "context"] /\ UNCHANGED wk
     ELSE /\ task' = [task EXCEPT ![c] = "worker"]
          /\ wk' = ToWorker(wk, [type |-> "work", c |-> c])
  /\ UNCHANGED <<sc, at, bg, news, host, honoured, bridgeVars>>

InitAwaited(c) ==
  /\ task[c] = "init"
  /\ \/ /\ host.worker = "ready" /\ sc.job[c] = "call"
        /\ task' = [task EXCEPT ![c] = "context"] /\ UNCHANGED <<at, wk>>
     \/ /\ host.worker = "ready" /\ sc.job[c] = "work"
        /\ task' = [task EXCEPT ![c] = "worker"]
        /\ wk' = ToWorker(wk, [type |-> "work", c |-> c]) /\ UNCHANGED at
     \/ host.worker = "broken" /\ Finish(c, "failed") /\ UNCHANGED wk
  /\ UNCHANGED <<sc, bg, news, host, honoured, bridgeVars>>

(* executeZomeCall after reading the context, if it and the DNA are found: *)
(* the WASM goes along the first time.                                     *)
(* bug: the WASM counts as sent before the context is found *)
ContextReadMarksEarly(c) ==
  /\ task[c] = "context" /\ host' = [host EXCEPT !.sent = @ \cup {DnaOf[c]}]
  /\ \/ /\ task' = [task EXCEPT ![c] = "worker"]
        /\ wk' = ToWorker(wk, [type |-> "call", c |-> c, wasm |-> DnaOf[c] \notin host.sent])
        /\ UNCHANGED at
     \/ Finish(c, "failed") /\ UNCHANGED wk
  /\ UNCHANGED <<sc, bg, news, honoured, bridgeVars>>

ContextRead(c) ==
  /\ task[c] = "context"
  /\ \/ /\ task' = [task EXCEPT ![c] = "worker"]
        /\ wk' = ToWorker(wk, [type |-> "call", c |-> c, wasm |-> DnaOf[c] \notin host.sent])
        /\ host' = [host EXCEPT !.sent = @ \cup {DnaOf[c]}] /\ UNCHANGED at
     \/ Finish(c, "failed") /\ UNCHANGED <<wk, host>>
  /\ UNCHANGED <<sc, bg, news, honoured, bridgeVars>>

(* Firefox: 60 s without an answer; a late one finds no pending request.   *)
WorkerTimeout(c) ==
  /\ ~Chrome /\ task[c] = "worker" /\ Finish(c, "failed")
  /\ UNCHANGED <<sc, bg, news, host, wk, honoured, bridgeVars>>

(* handleWorkerMessage: INIT's answer, which settles whether the worker is *)
(* ready and sends it the settings there are by now; and a request's.      *)
(* bug: the settings of before are not sent *)
InitAnswerForgets ==
  /\ Handling("init") /\ posted' = Tail(posted)
  /\ host' = [host EXCEPT !.worker = IF Head(posted).ok THEN "ready" ELSE "broken"]
  /\ UNCHANGED <<sc, at, task, bg, news, wk, honoured>>
  /\ UNCHANGED <<asked, waiting, signal, buffer, signing, written, linker, answer, late>>

InitAnswer ==
  /\ Handling("init") /\ posted' = Tail(posted)
  /\ host' = [host EXCEPT !.worker = IF Head(posted).ok THEN "ready" ELSE "broken"]
  /\ wk' = IF Head(posted).ok /\ (host.url \/ host.token # 0) THEN ToWorker(wk, Settings(host)) ELSE wk
  /\ UNCHANGED <<sc, at, task, bg, news, honoured>>
  /\ UNCHANGED <<asked, waiting, signal, buffer, signing, written, linker, answer, late>>

Answered ==
  /\ Handling("reply") /\ posted' = Tail(posted)
  /\ IF task[Head(posted).n] = "worker"
     THEN Finish(Head(posted).n, IF Head(posted).ok THEN "ok" ELSE "failed")
     ELSE UNCHANGED <<at, task>>
  /\ UNCHANGED <<sc, bg, news, host, wk, honoured>>
  /\ UNCHANGED <<asked, waiting, signal, buffer, signing, written, linker, answer, late>>

(* triggerReauth: unless a connection is being made already.               *)
(* bug: a connection that is open is kept *)
ReauthKeeps(h) == IF h.ws = "off" THEN [h EXCEPT !.ws = "connecting"] ELSE h

Reauth(h) == IF h.ws \in {"connected", "off"} THEN [h EXCEPT !.ws = "connecting"] ELSE h

Accepts(token) == token = honoured /\ honoured # 0
Replied(reply, token) ==
  reply \in IF Accepts(token) THEN Replies \ {"denied"} ELSE {"denied", "broken", "cut"}

NetworkRequest(reply) ==
  /\ Handling("request") /\ Replied(reply, host.token)
  /\ HandleNetworkRequest(reply)
  /\ host' = IF reply = "denied" THEN Reauth([host EXCEPT !.refused = host.token]) ELSE host
  /\ UNCHANGED <<sc, at, task, bg, news, wk, honoured>>

Http401 ==
  /\ Handling("http401") /\ posted' = Tail(posted)
  /\ host' = Reauth([host EXCEPT !.refused = wk.token])
  /\ UNCHANGED <<sc, at, task, bg, news, wk, honoured>>
  /\ UNCHANGED <<asked, waiting, signal, buffer, signing, written, linker, answer, late>>

(* The linker accepts the connection and issues a session token; Firefox   *)
(* also stores it.                                                         *)
SessionToken ==
  /\ host.ws = "connecting" /\ sc.tokens > 0
  /\ LET token == honoured + 1
         h == [host EXCEPT !.ws = "connected", !.token = token]
     IN /\ host' = h /\ wk' = Forward(h) /\ honoured' = token
        /\ bg' = IF Chrome \/ ~bg.saved THEN bg ELSE [bg EXCEPT !.token = token]
  /\ sc' = [sc EXCEPT !.tokens = @ - 1]
  /\ UNCHANGED <<at, task, news, bridgeVars>>

(***************************************************************************)
(* The worker                                                              *)
(***************************************************************************)
(* One message: INIT and CONFIGURE_NETWORK set the network, calls join the *)
(* chain, the rest is done at once.  Nothing happens while it is blocked.  *)
WorkerMessage ==
  /\ waiting = None /\ wk.q # <<>>
  /\ LET m == Head(wk.q)
         w == [wk EXCEPT !.q = Tail(@)]
         Post(type, n, ok) == posted' = Append(posted, [type |-> type, n |-> n, ok |-> ok])
     IN \/ /\ m.type = "init"
           /\ wk' = [w EXCEPT !.url = m.url, !.token = m.token]
           /\ \E ok \in {TRUE, ~sc.breaks} : Post("init", 0, ok)
        \/ /\ m.type = "configure" /\ UNCHANGED posted
           /\ wk' = [w EXCEPT !.url = m.url, !.token = m.token]
        \/ /\ m.type = "call" /\ UNCHANGED posted
           /\ wk' = [w EXCEPT !.chain = Append(@, m)]
        \/ /\ m.type = "work" /\ wk' = w
           /\ \E ok \in BOOLEAN : Post("reply", m.c, ok)
  /\ UNCHANGED <<sc, at, task, bg, news, host, honoured>>
  /\ UNCHANGED <<asked, waiting, signal, buffer, signing, written, linker, answer, late>>

(* handleCallZome, when the calls before it are over: it needs the WASM.   *)
StartCall ==
  /\ waiting = None /\ wk.running = None /\ wk.chain # <<>>
  /\ LET m == Head(wk.chain)
         w == [wk EXCEPT !.chain = Tail(@), !.cache = IF m.wasm THEN @ \cup {DnaOf[m.c]} ELSE @]
     IN IF DnaOf[m.c] \in w.cache
        THEN wk' = [w EXCEPT !.running = m.c] /\ UNCHANGED posted
        ELSE wk' = w /\ posted' = Append(posted, [type |-> "reply", n |-> m.c, ok |-> FALSE])
  /\ UNCHANGED <<sc, at, task, bg, news, host, honoured>>
  /\ UNCHANGED <<asked, waiting, signal, buffer, signing, written, linker, answer, late>>

(* The running call asks for a signature or, if it knows a linker, for a   *)
(* record.                                                                 *)
Ask ==
  /\ wk.running # None /\ Len(asked) < sc.requests
  /\ \/ Chrome /\ Block("sign")
     \/ Chrome /\ wk.url /\ Block("fetch")
     \/ /\ ~Chrome /\ wk.url
        /\ \E reply \in Replies : Replied(reply, wk.token) /\ FetchDirect(reply)
  /\ UNCHANGED <<sc, at, task, bg, news, host, wk, honoured>>

Bridge ==
  /\ \/ Wake \/ WaitTimeout \/ HandleSignRequest \/ Raise
     \/ \E n \in signing, ok \in BOOLEAN : SignAnswered(n, ok)
  /\ UNCHANGED <<sc, at, task, bg, news, host, wk, honoured>>

EndCall ==
  /\ waiting = None /\ wk.running # None
  /\ wk' = [wk EXCEPT !.running = None]
  /\ \E ok \in BOOLEAN :
       posted' = Append(posted, [type |-> "reply", n |-> wk.running, ok |-> ok])
  /\ UNCHANGED <<sc, at, task, bg, news, host, honoured>>
  /\ UNCHANGED <<asked, waiting, signal, buffer, signing, written, linker, answer, late>>

(***************************************************************************)
(* The browser and the linker                                              *)
(***************************************************************************)
(* The background stops and starts again, its requests with it; on Firefox *)
(* so does the host.  restoreLinkerConfigFromStorage runs if a URL is      *)
(* stored.                                                                 *)
Restart ==
  /\ sc.restarts > 0 /\ sc' = [sc EXCEPT !.restarts = @ - 1]
  /\ at' = [c \in Callers |->
              IF sc.job[c] = "restore" /\ at[c] = "idle" /\ bg.saved
              THEN IF Chrome THEN "ensure" ELSE "send"
              ELSE IF at[c] \in Ended \cup {"idle"} THEN at[c] ELSE "gone"]
  /\ bg' = FreshBg(bg)
  /\ IF Chrome THEN HostStays ELSE HostGone([NoHost EXCEPT !.up = "up"])
  /\ UNCHANGED <<news, honoured>>

(* The browser closes the document.                                        *)
CloseDocument ==
  /\ Chrome /\ sc.closes > 0 /\ host.up # "none" /\ sc' = [sc EXCEPT !.closes = @ - 1]
  /\ at' = Moved({"host"}, "failed") /\ HostGone(NoHost)
  /\ UNCHANGED <<bg, news, honoured>>

(* The linker no longer accepts the token.                                 *)
Revoke ==
  /\ sc.tokens > 0 /\ Accepts(host.token) /\ honoured' = honoured + 1
  /\ sc' = [sc EXCEPT !.tokens = @ - 1]
  /\ UNCHANGED <<at, task, bg, news, host, wk, bridgeVars>>

Caller(c) ==
  \/ Ensure(c) \/ Recreate(c) \/ CreateReturns(c) \/ ReadyTimeout(c)
  \/ SendWork(c) \/ InitWorker(c) \/ SendConfigure(c) \/ SendLinker(c)
  \/ InitAwaited(c) \/ ContextRead(c)

MainThread == InitAnswer \/ Answered \/ Http401 \/ \E reply \in Replies : NetworkRequest(reply)
Worker == WorkerMessage \/ StartCall \/ EndCall

Next ==
  \/ \E c \in Callers : Start(c) \/ Caller(c) \/ WorkerTimeout(c)
  \/ DocumentLoaded \/ OffscreenReady \/ WorkerLoaded \/ SessionToken
  \/ MainThread \/ Worker \/ Ask \/ Bridge
  \/ Restart \/ CloseDocument \/ Revoke

Spec == Init /\ [][Next]_vars

(* Timers fire, the event loops of the background, the host and the worker *)
(* take their messages, a zome function returns; the browser and the       *)
(* linker need not do anything, but a linker asked for a session grants it.*)
FairSpec ==
  /\ Spec
  /\ \A c \in Callers : WF_vars(Caller(c))
  /\ WF_vars(DocumentLoaded) /\ WF_vars(OffscreenReady) /\ WF_vars(WorkerLoaded)
  /\ WF_vars(MainThread) /\ WF_vars(Worker) /\ WF_vars(Bridge) /\ WF_vars(SessionToken)

(***************************************************************************)
(* Properties                                                              *)
(***************************************************************************)
Calls == [type : {"call"}, c : Callers, wasm : BOOLEAN]
Orders ==
  Calls \cup [type : {"work"}, c : Callers]
        \cup [type : {"init", "configure"}, url : BOOLEAN, token : Nat]
Posts ==
  [type : {"request"}, n : Requests] \cup [type : {"http401"}, n : {0}]
    \cup [type : {"init"}, n : {0}, ok : BOOLEAN] \cup [type : {"reply"}, n : Callers, ok : BOOLEAN]

OnlyChrome == {"ensure", "wait", "join", "create", "readying"}
Places == Ended \cup OnlyChrome \cup {"idle", "send", "host"}
Stages == {"none", "init", "context", "worker"}
Host ==
  [up : {"none", "loading", "up"}, url : BOOLEAN, token : Nat,
   ws : {"none", "connecting", "connected", "off"},
   worker : {"off", "loading", "init", "ready", "broken"}, sent : SUBSET Dnas,
   refused : Nat \cup {None}]
Bg ==
  [ready : BOOLEAN, creating : {"no", "pending", "refused"}, configured : BOOLEAN,
   saved : BOOLEAN, token : Nat]
Wk ==
  [q : Seq(Orders), cache : SUBSET Dnas, url : BOOLEAN, token : Nat, chain : Seq(Calls),
   running : Callers \cup {None}]

TypeOK ==
  /\ BridgeTypeOK /\ posted \in Seq(Posts)
  /\ sc \in Scenario
  /\ at \in [Callers -> Places] /\ task \in [Callers -> Stages]
  /\ bg \in Bg /\ news \in BOOLEAN
  /\ host \in Host
  /\ wk \in Wk
  /\ honoured \in Nat

(* "Only send WASM on first call for this DNA - worker caches it": every   *)
(* call without its WASM, on the chain of calls or in the queue before it, *)
(* is behind one that brings it, so that no call fails with "No WASM       *)
(* available for DNA".                                                     *)
Brings(m, d) == m.type = "call" /\ m.wasm /\ DnaOf[m.c] = d
WasmPrecedes ==
  /\ \A i \in DOMAIN wk.chain :
       LET d == DnaOf[wk.chain[i].c]
       IN d \in wk.cache \/ \E j \in 1..i : Brings(wk.chain[j], d)
  /\ \A i \in DOMAIN wk.q : wk.q[i].type = "call" =>
       LET d == DnaOf[wk.q[i].c]
       IN \/ d \in wk.cache \/ \E j \in DOMAIN wk.chain : Brings(wk.chain[j], d)
          \/ \E j \in 1..i : Brings(wk.q[j], d)

(* Whenever URL and token change, before or while the worker starts or     *)
(* later, a ready worker that has taken its messages has the host's.       *)
ConfigReachesWorker ==
  host.worker = "ready" /\ wk.q = <<>> => wk.url = host.url /\ wk.token = host.token

(* Every request is answered, or fails, or ends with the background:       *)
(* whatever is closed, restarted or times out, nobody waits for ever.      *)
RequestsEnd == \A c \in Callers : at[c] # "idle" ~> at[c] \in Ended

(* After a 401 the host gets another token, unless the user disconnects,   *)
(* the host goes, or the linker issues no more.                            *)
TokenRecovers ==
  host.url /\ host.refused = host.token ~>
    (host.refused # host.token \/ sc.tokens = 0 \/ host.ws \in {"none", "off"})

(***************************************************************************)
(* The inductive invariants behind them                                    *)
(***************************************************************************)
(* What counts as sent is cached or on its way.                            *)
WasmInv ==
  /\ WasmPrecedes
  /\ \A d \in host.sent :
       \/ d \in wk.cache \/ \E j \in DOMAIN wk.chain : Brings(wk.chain[j], d)
       \/ \E j \in DOMAIN wk.q : Brings(wk.q[j], d)

IsSettings(m) == m.type \in {"init", "configure"}
Quiet == \A i \in DOMAIN wk.q : ~IsSettings(wk.q[i])

(* Only Chrome has a document to wait for; one that loads has no worker.   *)
HostInv ==
  /\ ~Chrome => host.up = "up" /\ \A c \in Callers : at[c] \notin OnlyChrome
  /\ host.up = "loading" => host.worker = "off"

(* INIT is sent once and answered once, and settings only once it is.      *)
InitOnce ==
  /\ \A i \in DOMAIN wk.q :
       /\ wk.q[i].type = "init" =>
            /\ host.worker = "init" /\ \A j \in DOMAIN wk.q : wk.q[j].type = "init" => j = i
            /\ \A j \in DOMAIN posted : posted[j].type # "init"
       /\ wk.q[i].type = "configure" => host.worker = "ready"
  /\ \A i \in DOMAIN posted : posted[i].type = "init" =>
       host.worker = "init" /\ \A j \in DOMAIN posted : posted[j].type = "init" => j = i

(* While the host has no settings the worker gets none; once it is ready,  *)
(* it has the host's or the last settings on their way are the host's.     *)
SettingsInv ==
  /\ host.worker \in {"off", "loading"} => Quiet /\ ~wk.url /\ wk.token = 0
  /\ host.worker = "init" /\ ~host.url /\ host.token = 0 =>
       /\ ~wk.url /\ wk.token = 0
       /\ \A i \in DOMAIN wk.q : IsSettings(wk.q[i]) => ~wk.q[i].url /\ wk.q[i].token = 0
  /\ host.worker = "ready" =>
       \/ Quiet /\ wk.url = host.url /\ wk.token = host.token
       \/ \E i \in DOMAIN wk.q :
            /\ wk.q[i] = Settings(host)
            /\ \A j \in DOMAIN wk.q : j > i => ~IsSettings(wk.q[j])

ConfigInv == HostInv /\ InitOnce /\ SettingsInv
=============================================================================
