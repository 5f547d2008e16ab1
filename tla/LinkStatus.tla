------------------------------ MODULE LinkStatus ------------------------------
(***************************************************************************)
(* What a page believes of the linker: the background's connectionStatus   *)
(* and its health checks, the ports that push it to the content scripts,   *)
(* the client's ConnectionMonitor, which falls back on polling when no     *)
(* push has come for a while, and its ReconnectionManager.  The status is  *)
(* reduced to the health of the HTTP endpoint, the WebSocket and the URL;  *)
(* the linker configuration's way through a restart is modelled with it.   *)
(***************************************************************************)
EXTENDS Naturals, Sequences

CONSTANTS Urls, NoUrl,     \* linker addresses a page may configure, and none
          MaxConfigures,   \* bound: LINKER_CONFIGURE requests
          MaxEvents,       \* bound: changes of the linker and the WebSocket,
                           \* restarts, reconnect()s, reported zome calls, ...
          Weight           \* ... and what each of these counts for

VARIABLES healthy,   \* addresses whose /health answers 200
          ws,        \* the WebSocket is connected (in the executor)
          wsEvents,  \* WS_STATE_CHANGE messages on their way
          conf,      \* background: linkerConfig, in memory ...
          stored,    \* ... and under hwc_linker_config
          executor,  \* the address the executor was last configured with
          restoring, \* restoreLinkerConfigFromStorage: its step and what it read
          status,    \* connectionStatus
          check,     \* checkLinkerHealth: its step and what it has learnt
          port,      \* the content script's port: open, and messages in it
          poll,      \* the client's getConnectionStatus: its step and answer
          mon,       \* ConnectionMonitor.state
          fresh,     \* a status came within PUSH_STALENESS_MS
          timer,     \* the monitor runs: interval and subscription
          rec,       \* ReconnectionManager
          manual,    \* calls of client.reconnect() under way
          leaving,   \* client.disconnect() awaits the background
          used       \* counts of configurations and events

background == <<conf, stored, executor, restoring, status, check>>
client == <<mon, fresh, timer, rec, manual, leaving>>
world == <<healthy, ws>>
vars == <<world, wsEvents, background, port, poll, client, used>>

Blank == [http |-> FALSE, ws |-> FALSE, url |-> NoUrl]
Idle == [at |-> "idle", http |-> FALSE, ws |-> FALSE]
Quiet == [at |-> "none", url |-> NoUrl]
NoPoll == [at |-> "none", answer |-> Blank]

Init ==
    /\ healthy \in SUBSET Urls /\ ws = FALSE /\ wsEvents = <<>>
    /\ conf = NoUrl /\ stored = NoUrl /\ executor = NoUrl
    /\ restoring = Quiet /\ status = Blank /\ check = Idle
    /\ port \in [open : BOOLEAN, sent : {<<>>}]
    /\ poll = NoPoll
    /\ mon = [status |-> "disconnected", http |-> FALSE, ws |-> FALSE]
    /\ fresh = FALSE /\ timer = FALSE
    /\ rec = [active |-> FALSE, cancelled |-> FALSE, delays |-> 0, tries |-> 0]
    /\ manual = 0 /\ leaving = "no"
    /\ used = [configures |-> 0, events |-> 0]

Event(kind) ==
    /\ used.events + Weight[kind] <= MaxEvents
    /\ used' = [used EXCEPT !.events = @ + Weight[kind]]

------------------------------------------------------------------------------
(* The world: addresses come and go, and so does the WebSocket, which tells
   the background; no connection without a configured executor. *)
LinkerFlips ==
    /\ Event("linker")
    /\ \E u \in Urls : healthy' = IF u \in healthy THEN healthy \ {u} ELSE healthy \cup {u}
    /\ UNCHANGED <<ws, wsEvents, background, port, poll, client>>

SocketFlips ==
    /\ executor # NoUrl
    /\ Event("socket")
    /\ ws' = ~ws /\ wsEvents' = Append(wsEvents, ~ws)
    /\ UNCHANGED <<healthy, background, port, poll, client>>

------------------------------------------------------------------------------
(* The background. *)

(* updateConnectionStatus: what changed is pushed to the port. *)
Update(new) ==
    /\ status' = new
    /\ port' = IF new # status /\ port.open THEN [port EXCEPT !.sent = Append(@, new)] ELSE port

(* checkLinkerHealth: the request, the executor's answer, the update.  Where
   getWebSocketState throws, what was cached before is kept. *)
CheckFetches ==
    /\ conf # NoUrl /\ check.at = "idle"
    /\ check' = [Idle EXCEPT !.at = "fetched", !.http = conf \in healthy]
    /\ UNCHANGED <<world, wsEvents, conf, stored, executor, restoring, status, port, poll, client, used>>

CheckReads ==
    /\ check.at = "fetched"
    /\ \/ check' = [check EXCEPT !.at = "read", !.ws = ws] /\ UNCHANGED used
       \/ check' = [check EXCEPT !.at = "read", !.ws = status.ws] /\ Event("throw")
    /\ UNCHANGED <<world, wsEvents, conf, stored, executor, restoring, status, port, poll, client>>

(* Mutant of CheckEnds: nothing to do if the WebSocket is as before. *)
CheckEndsEarly ==
    /\ check.at = "read"
    /\ IF check.ws = status.ws
       THEN UNCHANGED <<status, port>>
       ELSE Update([http |-> check.http, ws |-> check.ws, url |-> conf])
    /\ check' = Idle
    /\ UNCHANGED <<world, wsEvents, conf, stored, executor, restoring, poll, client, used>>

CheckEnds ==
    /\ check.at = "read"
    /\ Update([http |-> check.http, ws |-> check.ws, url |-> conf])
    /\ check' = Idle
    /\ UNCHANGED <<world, wsEvents, conf, stored, executor, restoring, poll, client, used>>

(* executor.onWebSocketStateChange. *)
WsStateChange ==
    /\ wsEvents # <<>>
    /\ wsEvents' = Tail(wsEvents)
    /\ Update([status EXCEPT !.ws = Head(wsEvents)])
    /\ UNCHANGED <<world, conf, stored, executor, restoring, check, poll, client, used>>

(* LINKER_CONFIGURE: memory and storage at once, then the executor. *)
Configure(u) ==
    /\ used.configures < MaxConfigures
    /\ used' = [used EXCEPT !.configures = @ + 1]
    /\ conf' = u /\ stored' = u /\ executor' = u
    /\ UNCHANGED <<world, wsEvents, restoring, status, check, port, poll, client>>

(* The service worker starts again: nothing in memory, the ports closed, the
   stored configuration asked for; the executor keeps its own. *)
Restart ==
    /\ Event("restart")
    /\ conf' = NoUrl /\ status' = Blank /\ check' = Idle
    /\ restoring' = [Quiet EXCEPT !.at = "asked"]
    /\ port' = [port EXCEPT !.open = FALSE]
    /\ poll' = IF poll.at = "asked" THEN NoPoll ELSE poll
    /\ UNCHANGED <<world, wsEvents, stored, executor, client>>

(* restoreLinkerConfigFromStorage: the storage answers, and what it answered
   is put in memory and in the executor, whose state is pushed. *)
RestoreReads ==
    /\ restoring.at = "asked"
    /\ restoring' = [at |-> "read", url |-> stored]
    /\ UNCHANGED <<world, wsEvents, conf, stored, executor, status, check, port, poll, client, used>>

RestoreApplies ==
    /\ restoring.at = "read"
    /\ restoring' = Quiet
    /\ IF restoring.url = NoUrl
       THEN UNCHANGED <<conf, executor, status, port>>
       ELSE /\ conf' = restoring.url /\ executor' = restoring.url
            /\ Update([status EXCEPT !.ws = ws, !.url = restoring.url])
    /\ UNCHANGED <<world, wsEvents, stored, check, poll, client, used>>

(* CONNECTION_STATUS_GET: the WebSocket is looked at first. *)
StatusGet ==
    /\ poll.at = "asked"
    /\ LET now == [status EXCEPT !.ws = ws]
       IN  Update(now) /\ poll' = [at |-> "answered", answer |-> now]
    /\ UNCHANGED <<world, wsEvents, conf, stored, executor, restoring, check, client, used>>

(* The content script opens its port, 500 ms after it lost one, and is sent
   the status at once. *)
PortOpens ==
    /\ ~port.open
    /\ port' = [open |-> TRUE, sent |-> Append(port.sent, status)]
    /\ UNCHANGED <<world, wsEvents, background, poll, client, used>>

------------------------------------------------------------------------------
(* The client. *)

Healthy(m, s) == [m EXCEPT !.status = s, !.http = TRUE]

(* setConnected *)
SetConnected == mon' = [status |-> "connected", http |-> TRUE, ws |-> TRUE]

(* ReconnectionManager.cancel: the last timer goes, an attempt that has been
   started does not. *)
Cancelled == [rec EXCEPT !.active = FALSE, !.cancelled = TRUE,
                         !.delays = IF @ > 0 THEN @ - 1 ELSE 0]
Reset == [rec EXCEPT !.active = FALSE, !.cancelled = FALSE,
                     !.delays = IF @ > 0 THEN @ - 1 ELSE 0]

(* reconnect: refused while one runs and after cancel; r is the manager and m
   the monitor when it is called. *)
Reconnect(r, m) ==
    IF r.active \/ r.cancelled
    THEN rec' = r /\ mon' = m
    ELSE /\ rec' = [r EXCEPT !.active = TRUE, !.delays = @ + 1]
         /\ mon' = [m EXCEPT !.status = "reconnecting"]

(* applyExtensionStatus: the status word only follows a change of health, and
   a loss of health emits connection:error, which starts a reconnection. *)
Apply(s) ==
    LET new == [mon EXCEPT !.http = s.http, !.ws = s.ws]
    IN  /\ fresh' = TRUE
        /\ \/ /\ mon.http /\ ~s.http
              /\ Reconnect(rec, [new EXCEPT !.status = "error"])
           \/ /\ ~mon.http /\ s.http
              /\ mon' = [new EXCEPT !.status = "connected"] /\ UNCHANGED rec
           \/ /\ mon.http = s.http
              /\ mon' = new /\ UNCHANGED rec

(* The end of initialize: setConnected, cancel, and start with its first poll. *)
StartMonitoring ==
    /\ ~timer /\ leaving = "no"
    /\ poll.at = "none"
    /\ SetConnected
    /\ rec' = Cancelled
    /\ timer' = TRUE /\ poll' = [NoPoll EXCEPT !.at = "asked"]
    /\ UNCHANGED <<world, wsEvents, background, port, fresh, manual, leaving, used>>

(* A pushed status reaches the page; it has an effect while subscribed. *)
Pushed ==
    /\ port.sent # <<>>
    /\ port' = [port EXCEPT !.sent = Tail(@)]
    /\ IF timer THEN Apply(Head(port.sent)) ELSE UNCHANGED <<mon, rec, fresh>>
    /\ UNCHANGED <<world, wsEvents, background, poll, timer, manual, leaving, used>>

Stale ==
    /\ fresh
    /\ fresh' = FALSE
    /\ UNCHANGED <<world, wsEvents, background, port, poll, mon, timer, rec, manual, leaving, used>>

(* checkHealth, of the monitor's interval. *)
CheckHealth ==
    /\ timer /\ ~fresh /\ poll.at = "none"
    /\ poll' = [NoPoll EXCEPT !.at = "asked"]
    /\ UNCHANGED <<world, wsEvents, background, port, client, used>>

(* The answer is applied whether or not the monitor has been stopped. *)
Polled ==
    /\ poll.at = "answered"
    /\ Apply(poll.answer)
    /\ poll' = NoPoll
    /\ UNCHANGED <<world, wsEvents, background, port, timer, manual, leaving, used>>

(* reportCallSuccess and reportCallFailure of a zome call's outcome. *)
CallReported ==
    /\ timer
    /\ Event("report")
    /\ \/ /\ mon' = IF mon.status = "connected" THEN mon ELSE Healthy(mon, "connected")
          /\ UNCHANGED rec
       \/ Reconnect(rec, [mon EXCEPT !.status = "error", !.http = FALSE])
    /\ UNCHANGED <<world, wsEvents, background, port, poll, fresh, timer, manual, leaving>>

(* The delay of an attempt is over: reconnectFn is called. *)
DelayEnds ==
    /\ rec.delays > 0
    /\ rec' = [rec EXCEPT !.delays = @ - 1, !.tries = @ + 1]
    /\ UNCHANGED <<world, wsEvents, background, port, poll, mon, fresh, timer, manual, leaving, used>>

(* doReconnect returns: the manager is reset and the monitor set to connected;
   or it throws, and the next attempt follows. *)
TryEnds ==
    /\ rec.tries > 0
    /\ \/ rec' = [Reset EXCEPT !.tries = @ - 1] /\ SetConnected
       \/ Reconnect([rec EXCEPT !.active = FALSE, !.tries = @ - 1], mon)
    /\ UNCHANGED <<world, wsEvents, background, port, poll, fresh, timer, manual, leaving, used>>

(* client.reconnect(): cancel, then doReconnect. *)
ManualReconnect ==
    /\ timer
    /\ Event("reconnect")
    /\ manual' = manual + 1
    /\ rec' = Cancelled
    /\ UNCHANGED <<world, wsEvents, background, port, poll, mon, fresh, timer, leaving>>

ManualEnds ==
    /\ manual > 0
    /\ manual' = manual - 1
    /\ \/ rec' = Reset /\ SetConnected
       \/ UNCHANGED <<rec, mon>>
    /\ UNCHANGED <<world, wsEvents, background, port, poll, fresh, timer, leaving, used>>

(* client.disconnect(): stop and cancel; setDisconnected once the background
   has answered. *)
Disconnect ==
    /\ timer
    /\ timer' = FALSE /\ rec' = Cancelled /\ leaving' = "asked"
    /\ UNCHANGED <<world, wsEvents, background, port, poll, mon, fresh, manual, used>>

Disconnected ==
    /\ leaving = "asked"
    /\ leaving' = "left"
    /\ mon' = [status |-> "disconnected", http |-> FALSE, ws |-> FALSE]
    /\ UNCHANGED <<world, wsEvents, background, port, poll, fresh, timer, rec, manual, used>>

------------------------------------------------------------------------------
Checks == CheckFetches \/ CheckReads \/ CheckEnds
Restores == RestoreReads \/ RestoreApplies

Next ==
    \/ LinkerFlips \/ SocketFlips \/ Checks \/ WsStateChange \/ Restart \/ Restores
    \/ (\E u \in Urls : Configure(u)) \/ StatusGet \/ PortOpens
    \/ StartMonitoring \/ Pushed \/ Stale \/ CheckHealth \/ Polled \/ CallReported
    \/ DelayEnds \/ TryEnds \/ ManualReconnect \/ ManualEnds \/ Disconnect \/ Disconnected

(* Intervals and timers fire, messages arrive and awaited calls return. *)
Fairness ==
    /\ WF_vars(Checks) /\ WF_vars(WsStateChange) /\ WF_vars(Restores)
    /\ WF_vars(StatusGet) /\ WF_vars(PortOpens) /\ WF_vars(Pushed)
    /\ WF_vars(Stale) /\ WF_vars(CheckHealth) /\ WF_vars(Polled)
    /\ WF_vars(DelayEnds) /\ WF_vars(TryEnds) /\ WF_vars(ManualEnds) /\ WF_vars(Disconnected)

Spec == Init /\ [][Next]_vars /\ Fairness

------------------------------------------------------------------------------
Agrees == mon.http = (conf \in healthy) /\ mon.ws = ws

(* A page whose monitor runs ends up believing what is the case, through lost
   ports, restarts and statuses that overtake each other, as long as its own
   reconnection has not been armed again. *)
SettlesWithLinker == <>[](timer /\ conf # NoUrl => Agrees) \/ <>(timer /\ ~rec.cancelled)

(* The same without the reservation: startMonitoring means to leave health to
   the extension (WebConductorAppClient.ts:594). *)
AlwaysSettles == <>[](timer /\ conf # NoUrl => Agrees)
==============================================================================
