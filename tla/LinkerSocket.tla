---------------------------- MODULE LinkerSocket ----------------------------
(***************************************************************************)
(* WebSocketNetworkService: the connection to the linker, authentication   *)
(* with one of the registered agents, and the registrations the linker     *)
(* needs to forward remote signals.  The linker and the network are        *)
(* external: a session per socket, messages in order while the socket      *)
(* lives, and a session that is forgotten when its socket ends.            *)
(*                                                                         *)
(* A registration is abstracted to its agent (one DNA).  Pings are left    *)
(* out but for what they are for: finding out that a socket is dead.       *)
(***************************************************************************)
EXTENDS Naturals, Sequences, FiniteSets

CONSTANTS
  Agents,
  Allowed,       \* agents the linker accepts
  AuthRequired,  \* does the linker challenge, or accept at once?
  MaxSockets,    \* bound: sockets ever created
  MaxLosses,     \* bound: connections lost, refused or silently dead
  MaxUser,       \* bound: requests of the user, of the HTTP layer, and repeated ones
  UserOps,       \* which of "disconnect", "reconnect", "reauth" they are
  SignFails,     \* may Lair refuse to sign?
  None

ASSUME AgentsAssumption == Allowed \subseteq Agents /\ None \notin Agents
ASSUME ModeAssumption == AuthRequired \in BOOLEAN /\ SignFails \in BOOLEAN
ASSUME UserAssumption == UserOps \subseteq {"disconnect", "reconnect", "reauth"}
ASSUME BoundsAssumption ==
  /\ MaxSockets \in Nat /\ MaxLosses \in Nat /\ MaxUser \in Nat
  /\ None \notin 1..MaxSockets

Sockets == 1..MaxSockets

VARIABLES
  client,   \* the service's fields
  signing,  \* challenges Lair is signing
  sock,     \* each socket: its readyState, and whether its handlers are set
  up, down, \* messages on the way to the linker and to the client
  sess,     \* the linker's session of each socket
  losses, user,
  upset     \* history: which of "crossed", "kept", "refused" has happened

vars == <<client, signing, sock, up, down, sess, losses, user, upset>>
bounds == <<losses, user, upset>>

NoSession == [pending |-> None, authed |-> FALSE, regs |-> {}]
Fresh == {s \in Sockets : sock[s].is = "unused"}
Live == {"connecting", "open", "dead"}
Tracked == client.regs \cup client.pend

(***************************************************************************)
(* Parts of the handlers.  A handler is a chain of these on the record     *)
(* w = [c, k, u, d, l] of the client, the sockets, both directions and the *)
(* linker's sessions; Apply assigns the result.                            *)
(***************************************************************************)
World == [c |-> client, k |-> sock, u |-> up, d |-> down, l |-> sess]
Apply(w) == client' = w.c /\ sock' = w.k /\ up' = w.u /\ down' = w.d /\ sess' = w.l

(* send: dropped unless the current socket is open; lost if it is dead.    *)
Sent(w, m) ==
  IF w.c.ws # None /\ w.k[w.c.ws].is = "open" THEN [w EXCEPT !.u[w.c.ws] = Append(@, m)] ELSE w

(* The socket's end: the linker forgets the session.                       *)
Ended(w, s) ==
  [w EXCEPT !.k[s] = [is |-> "closed", on |-> FALSE], !.u[s] = <<>>, !.d[s] = <<>>,
            !.l[s] = NoSession]

(* The definitions marked "bug:" are wrong variants of the one that follows*)
(* them; the specification does not use them.                              *)
(* bug: the socket is forgotten, not closed *)
CleanupKeepsSocket(w) ==
  [w EXCEPT !.c.timer = FALSE, !.c.ws = None, !.c.authed = FALSE, !.c.failed = {}]

Cleanup(w) ==
  LET v == IF w.c.ws = None THEN w ELSE Ended(w, w.c.ws)
  IN [v EXCEPT !.c.timer = FALSE, !.c.ws = None, !.c.authed = FALSE, !.c.failed = {}]

(* connect, on the socket s unless there is one.                           *)
Connected(w, s) ==
  IF w.c.ws # None THEN w
  ELSE [w EXCEPT !.c.intentional = FALSE, !.c.state = "connecting", !.c.ws = s,
                 !.k[s] = [is |-> "connecting", on |-> TRUE]]

Disconnected(w) ==
  [Cleanup(w) EXCEPT !.c.intentional = TRUE, !.c.state = "disconnected"]

Authenticating(w, a) ==
  Sent([w EXCEPT !.c.pendingAuth = a, !.c.state = "authenticating"],
       [type |-> "auth", agent |-> a])

(* tryAuthenticateNextAgent: any untried agent, or w when there is none.   *)
NextAuth(w, otherwise) ==
  LET untried == (w.c.pend \cup w.c.regs) \ w.c.failed
  IN IF untried = {} THEN {otherwise} ELSE {Authenticating(w, a) : a \in untried}

(* bug: registrations are not moved back *)
ClosedKeepsRegs(w) ==
  LET v == Cleanup(w)
  IN IF v.c.intentional THEN [v EXCEPT !.c.state = "disconnected"]
     ELSE [v EXCEPT !.c.state = "reconnecting", !.c.timer = TRUE]

(* bug: no reconnect is scheduled *)
ClosedForGood(w) ==
  LET v == [Cleanup(w) EXCEPT !.c.pend = @ \cup w.c.regs, !.c.regs = {}]
  IN [v EXCEPT !.c.state = "disconnected"]

(* handleClose and scheduleReconnect.                                      *)
Closed(w) ==
  LET v == [Cleanup(w) EXCEPT !.c.pend = @ \cup w.c.regs, !.c.regs = {}]
  IN IF v.c.intentional THEN [v EXCEPT !.c.state = "disconnected"]
     ELSE [v EXCEPT !.c.state = "reconnecting", !.c.timer = TRUE]

(***************************************************************************)
(* Socket events                                                           *)
(***************************************************************************)
Init ==
  /\ client = [ws |-> None, state |-> "disconnected", authed |-> FALSE, pendingAuth |-> None,
               failed |-> {}, regs |-> {}, pend |-> {}, timer |-> FALSE, intentional |-> FALSE]
  /\ signing = {}
  /\ sock = [s \in Sockets |-> [is |-> "unused", on |-> FALSE]]
  /\ up = [s \in Sockets |-> <<>>]
  /\ down = [s \in Sockets |-> <<>>]
  /\ sess = [s \in Sockets |-> NoSession]
  /\ losses = 0 /\ user = 0 /\ upset = {}

(* initializeWebSocketService connects.                                    *)
Start ==
  /\ \A s \in Sockets : sock[s].is = "unused"
  /\ \E s \in Fresh : (\A t \in Fresh : s <= t) /\ Apply(Connected(World, s))
  /\ UNCHANGED <<signing, bounds>>

(* onopen: handleOpen authenticates with an agent, if there is one.        *)
Open(s) ==
  /\ sock[s] = [is |-> "connecting", on |-> TRUE]
  /\ LET w == [World EXCEPT !.k[s].is = "open", !.c.failed = {}]
     IN \E v \in NextAuth(w, w) : Apply(v)
  /\ UNCHANGED <<signing, bounds>>

(* The connection is refused or lost; onclose fires.                       *)
Lose(s) ==
  /\ losses < MaxLosses
  /\ losses' = losses + 1
  /\ sock[s].is \in {"connecting", "open"}
  /\ Apply(IF sock[s].on THEN Closed(Ended(World, s)) ELSE Ended(World, s))
  /\ UNCHANGED <<signing, user, upset>>

(* The connection dies without a word.                                     *)
Die(s) ==
  /\ losses < MaxLosses
  /\ losses' = losses + 1
  /\ sock[s].is = "open"
  /\ sock' = [sock EXCEPT ![s].is = "dead"]
  /\ up' = [up EXCEPT ![s] = <<>>]
  /\ down' = [down EXCEPT ![s] = <<>>]
  /\ UNCHANGED <<client, signing, sess, user, upset>>

(* A ping of the current socket is not answered in time.                   *)
HeartbeatTimeout ==
  /\ client.ws # None
  /\ sock[client.ws].is = "dead"
  /\ Apply(Closed(World))
  /\ UNCHANGED <<signing, bounds>>

(* The timer drops whatever socket there is and connects.                  *)
ReconnectTimer ==
  /\ client.timer
  /\ \E s \in Fresh :
       /\ \A t \in Fresh : s <= t
       /\ Apply(Connected([World EXCEPT !.c.timer = FALSE, !.c.ws = None], s))
  /\ UNCHANGED <<signing, bounds>>

(***************************************************************************)
(* Messages of the linker                                                  *)
(***************************************************************************)
Incoming(s, type) ==
  sock[s] = [is |-> "open", on |-> TRUE] /\ down[s] # <<>> /\ Head(down[s]) = type
Taken(s) == [World EXCEPT !.d[s] = Tail(@)]

(* handleAuthChallenge up to the await of the signature.                   *)
AuthChallenge(s) ==
  /\ Incoming(s, "auth_challenge")
  /\ signing' = IF client.pendingAuth = None THEN signing
                ELSE signing \cup {[agent |-> client.pendingAuth, challenge |-> s]}
  /\ Apply(Taken(s))
  /\ UNCHANGED bounds

(* The signature goes to whatever socket there is by then; an empty one    *)
(* when Lair does not sign.                                                *)
Signed(j, sig) ==
  /\ j \in signing
  /\ signing' = signing \ {j}
  /\ Apply(Sent(World, [type |-> "auth_challenge_response", signature |-> sig]))
  /\ UNCHANGED bounds

SignFailed(j) == SignFails /\ Signed(j, None)

(* handleAuthOk, with processPendingRegistrations.                         *)
AuthOk(s) ==
  /\ Incoming(s, "auth_ok")
  /\ LET w == [Taken(s) EXCEPT !.c.authed = TRUE, !.c.pendingAuth = None, !.c.state = "connected"]
         v == IF w.c.pend = {} THEN w
              ELSE Sent(w, [type |-> "register", agents |-> w.c.pend])
     IN Apply([v EXCEPT !.c.regs = @ \cup w.c.pend, !.c.pend = {}])
  /\ UNCHANGED <<signing, bounds>>

(* An agent is refused on a session that had accepted one: the signature of*)
(* an earlier socket's challenge does that.                                *)
Refused(s) == upset' = upset \cup IF sess[s].authed THEN {"refused"} ELSE {}

(* bug: the other agents are not tried *)
AuthErrorGivesUp(s) ==
  /\ Incoming(s, "auth_error")
  /\ Apply([Taken(s) EXCEPT !.c.authed = FALSE, !.c.state = "connected", !.c.pendingAuth = None,
                            !.c.failed = @ \cup ({client.pendingAuth} \ {None})])
  /\ Refused(s)
  /\ UNCHANGED <<signing, losses, user>>

(* handleAuthError: the next agent, if any; else "connected", not authed.  *)
AuthError(s) ==
  /\ Incoming(s, "auth_error")
  /\ LET w == [Taken(s) EXCEPT !.c.authed = FALSE, !.c.pendingAuth = None,
                               !.c.failed = @ \cup ({client.pendingAuth} \ {None})]
         idle == [w EXCEPT !.c.state = "connected"]
     IN IF client.pendingAuth = None THEN Apply(idle)
        ELSE \E v \in NextAuth(w, idle) : Apply(v)
  /\ Refused(s)
  /\ UNCHANGED <<signing, losses, user>>

(***************************************************************************)
(* Requests of the offscreen document                                      *)
(***************************************************************************)
(* An agent already tracked is sent again, but neither queued nor counted  *)
(* again; bound: those repetitions.                                        *)
RegisterAgent(a) ==
  /\ IF a \in Tracked THEN user < MaxUser /\ user' = user + 1 ELSE UNCHANGED user
  /\ \/ /\ client.authed /\ client.state = "connected"
        /\ Apply(Sent([World EXCEPT !.c.regs = IF a \in Tracked THEN @ ELSE @ \cup {a}],
                      [type |-> "register", agents |-> {a}]))
     \/ /\ ~(client.authed /\ client.state = "connected")
        /\ LET w == [World EXCEPT !.c.pend = IF a \in Tracked THEN @ ELSE @ \cup {a}]
           IN IF /\ client.ws # None /\ sock[client.ws].is \in {"open", "dead"}
                 /\ ~client.authed /\ client.state # "authenticating"
              THEN Apply(Authenticating(w, a))
              ELSE Apply(w)
  /\ UNCHANGED <<signing, losses, upset>>

UnregisterAgent(a) ==
  /\ a \in Tracked
  /\ user < MaxUser
  /\ user' = user + 1
  /\ LET w == [World EXCEPT !.c.regs = @ \ {a}, !.c.pend = @ \ {a}]
     IN IF client.authed /\ client.state = "connected"
        THEN Apply(Sent(w, [type |-> "unregister", agents |-> {a}]))
        ELSE Apply(w)
  /\ UNCHANGED <<signing, losses, upset>>

UserOp(op) == op \in UserOps /\ user < MaxUser /\ user' = user + 1

(* disconnect leaves the registrations where they are, while the linker    *)
(* forgets them.                                                           *)
Keeps == upset' = upset \cup IF client.regs = {} THEN {} ELSE {"kept"}

(* LINKER_DISCONNECT                                                       *)
Disconnect ==
  /\ UserOp("disconnect")
  /\ Apply(Disconnected(World))
  /\ Keeps
  /\ UNCHANGED <<signing, losses>>

(* LINKER_RECONNECT, which does not look whether the timer is set.         *)
Reconnect ==
  /\ UserOp("reconnect")
  /\ \E s \in Fresh : (\A t \in Fresh : s <= t) /\ Apply(Connected(World, s))
  /\ upset' = upset \cup IF client.timer THEN {"crossed"} ELSE {}
  /\ UNCHANGED <<signing, losses>>

(* triggerReauth, after an HTTP request was answered with 401              *)
TriggerReauth ==
  /\ UserOp("reauth")
  /\ client.state \notin {"connecting", "authenticating", "reconnecting"}
  /\ \E s \in Fresh : (\A t \in Fresh : s <= t) /\ Apply(Connected(Disconnected(World), s))
  /\ Keeps
  /\ UNCHANGED <<signing, losses>>

(***************************************************************************)
(* The linker                                                              *)
(***************************************************************************)
Request(s, type) == sock[s].is = "open" /\ up[s] # <<>> /\ Head(up[s]).type = type

Answers(s, session, answer) ==
  /\ sess' = [sess EXCEPT ![s] = session]
  /\ up' = [up EXCEPT ![s] = Tail(@)]
  /\ down' = [down EXCEPT ![s] = @ \o answer]
  /\ UNCHANGED <<client, signing, sock, bounds>>

LinkerAuth(s) ==
  /\ Request(s, "auth")
  /\ IF AuthRequired
     THEN Answers(s, [sess[s] EXCEPT !.pending = Head(up[s]).agent], <<"auth_challenge">>)
     ELSE Answers(s, [sess[s] EXCEPT !.authed = TRUE], <<"auth_ok">>)

LinkerVerify(s) ==
  /\ Request(s, "auth_challenge_response")
  /\ LET valid == /\ Head(up[s]).signature = [agent |-> sess[s].pending, challenge |-> s]
                  /\ sess[s].pending \in Allowed
     IN Answers(s, [sess[s] EXCEPT !.pending = None, !.authed = @ \/ valid],
                IF valid THEN <<"auth_ok">> ELSE <<"auth_error">>)

LinkerRegister(s) ==
  /\ Request(s, "register")
  /\ Answers(s, [sess[s] EXCEPT !.regs = IF sess[s].authed THEN @ \cup Head(up[s]).agents ELSE @],
             <<>>)

LinkerUnregister(s) ==
  /\ Request(s, "unregister")
  /\ Answers(s, [sess[s] EXCEPT !.regs = @ \ Head(up[s]).agents], <<>>)

(***************************************************************************)
(* The specification                                                       *)
(***************************************************************************)
Linker(s) == LinkerAuth(s) \/ LinkerVerify(s) \/ LinkerRegister(s) \/ LinkerUnregister(s)
Receive(s) == AuthChallenge(s) \/ AuthOk(s) \/ AuthError(s)
Timers == HeartbeatTimeout \/ ReconnectTimer

Next ==
  \/ Start
  \/ \E s \in Sockets : Open(s) \/ Lose(s) \/ Die(s) \/ Receive(s) \/ Linker(s)
  \/ Timers
  \/ \E j \in signing : Signed(j, j) \/ SignFailed(j)
  \/ \E a \in Agents : RegisterAgent(a) \/ UnregisterAgent(a)
  \/ Disconnect \/ Reconnect \/ TriggerReauth

Spec == Init /\ [][Next]_vars

(* Timers fire, Lair answers, and the network and the linker go on with a  *)
(* socket that is neither lost nor dead; losses are bounded.               *)
Fairness ==
  /\ WF_vars(Start) /\ WF_vars(Timers)
  /\ \A s \in Sockets : WF_vars(Open(s)) /\ WF_vars(Receive(s)) /\ WF_vars(Linker(s))
  /\ WF_vars(\E j \in signing : Signed(j, j))

FairSpec == Spec /\ Fairness

(***************************************************************************)
(* Properties                                                              *)
(***************************************************************************)
Messages ==
  [type : {"auth"}, agent : Agents]
    \cup [type : {"auth_challenge_response"},
          signature : [agent : Agents, challenge : Sockets] \cup {None}]
    \cup [type : {"register", "unregister"}, agents : SUBSET Agents]

(* The variables have their types, and no agent is tracked twice: it is    *)
(* either pending or registered.                                           *)
TypeOK ==
  /\ client \in
       [ws : Sockets \cup {None},
        state : {"disconnected", "connecting", "authenticating", "connected", "reconnecting"},
        authed : BOOLEAN, pendingAuth : Agents \cup {None}, failed : SUBSET Agents,
        regs : SUBSET Agents, pend : SUBSET Agents, timer : BOOLEAN, intentional : BOOLEAN]
  /\ client.regs \cap client.pend = {}
  /\ signing \subseteq [agent : Agents, challenge : Sockets]
  /\ sock \in [Sockets -> [is : {"unused", "closed"} \cup Live, on : BOOLEAN]]
  /\ up \in [Sockets -> Seq(Messages)]
  /\ down \in [Sockets -> Seq({"auth_challenge", "auth_ok", "auth_error"})]
  /\ sess \in [Sockets -> [pending : Agents \cup {None}, authed : BOOLEAN, regs : SUBSET Agents]]
  /\ losses \in 0..MaxLosses /\ user \in 0..MaxUser
  /\ upset \subseteq {"crossed", "kept", "refused"}

(* "Registrations are preserved and will be re-sent on reconnect"          *)
(* (offscreen/index.ts:861): when the client is connected and nothing is   *)
(* on its way to the linker, the linker forwards signals for exactly the   *)
(* agents the client counts as registered.                                 *)
RegisteredKnown ==
  client.authed /\ sock[client.ws].is = "open" /\ up[client.ws] = <<>>
    => sess[client.ws].regs = client.regs

(* isConnected tells the truth: the session of the current socket, and no  *)
(* earlier one, was authenticated.                                         *)
AuthedTruth == client.authed => client.ws # None /\ sess[client.ws].authed

(* No socket but the current one lives on, with a linker session of its own*)
(* and handlers that act on the service's fields.                          *)
SingleSocket == \A s \in Sockets : sock[s].is \in Live => s = client.ws

(* "should not reconnect after intentional disconnect"                     *)
(* (websocket-service.test.ts:390): after LINKER_DISCONNECT nothing is left*)
(* that would open a socket or change the state.                           *)
StaysDisconnected ==
  client.intentional => client.ws = None /\ ~client.timer /\ client.state = "disconnected"

SocketAgrees == SingleSocket /\ AuthedTruth /\ StaysDisconnected

(* What the client tells of its connection is true until a reconnect by    *)
(* hand has met an armed timer, and what it takes for registered the linker*)
(* knows until that, a disconnect with registrations or a late refusal.    *)
(* Each of the three does upset it: MCProgress_beyond.                     *)
SocketTruthful ==
  /\ "crossed" \notin upset => SocketAgrees
  /\ upset = {} => RegisteredKnown

Reached(a) == client.ws # None /\ a \in sess[client.ws].regs

(* An attempt to authenticate ends, on the same connection, with success  *)
(* or only after every agent tracked by then was tried on it               *)
(* (websocket-service.ts:537), however agents come and go meanwhile.       *)
OthersTried ==
  [][client.pendingAuth # None /\ client'.pendingAuth = None
     /\ client.ws # None /\ client'.ws = client.ws
     => client'.authed \/ client'.regs \cup client'.pend \subseteq client'.failed]_vars

(* "try the next one" (websocket-service.ts:169): an acceptable agent that *)
(* stays tracked gets registered with the linker, although other agents are*)
(* refused and connections are refused, lost or silently dead, unless the  *)
(* user disconnects.                                                       *)
EventuallyRegistered ==
  \A a \in Allowed :
    a \in Tracked ~> a \notin Tracked \/ Reached(a) \/ client.intentional

(* "Move registrations back to pending so they get re-sent on reconnect"   *)
(* (websocket-service.ts:484): an acceptable agent that lost its session   *)
(* gets registered again.                                                  *)
ResentAfterLoss ==
  \A a \in Allowed :
    client.state = "reconnecting" /\ a \in Tracked ~> a \notin Tracked \/ Reached(a)
=============================================================================
