------------------------- MODULE LinkerSocketProofs -------------------------
(***************************************************************************)
(* LinkerSocket for any agents, sockets, losses and requests: what the     *)
(* client tells of its connection is true, and what it takes for           *)
(* registered the linker knows (SocketTruthful); an attempt to             *)
(* authenticate tries every agent (OthersTried).                           *)
(***************************************************************************)
EXTENDS LinkerSocket, SequenceTheorems, TLAPS

(***************************************************************************)
(* Types                                                                   *)
(***************************************************************************)
Client ==
  [ws : Sockets \cup {None},
   state : {"disconnected", "connecting", "authenticating", "connected", "reconnecting"},
   authed : BOOLEAN, pendingAuth : Agents \cup {None}, failed : SUBSET Agents,
   regs : SUBSET Agents, pend : SUBSET Agents, timer : BOOLEAN, intentional : BOOLEAN]
Socket == [is : {"unused", "closed"} \cup Live, on : BOOLEAN]
SessionRecord == [pending : Agents \cup {None}, authed : BOOLEAN, regs : SUBSET Agents]
Replies == {"auth_challenge", "auth_ok", "auth_error"}

Worlds ==
  [c : Client, k : [Sockets -> Socket], u : [Sockets -> Seq(Messages)],
   d : [Sockets -> Seq(Replies)], l : [Sockets -> SessionRecord]]

(* No agent is tracked twice.                                              *)
Once(w) == w.c.regs \cap w.c.pend = {}

LEMMA TypeIsWorld ==
  TypeOK <=> /\ World \in Worlds /\ Once(World)
             /\ signing \subseteq [agent : Agents, challenge : Sockets]
             /\ losses \in 0..MaxLosses /\ user \in 0..MaxUser
             /\ upset \subseteq {"crossed", "kept", "refused"}
  BY DEF TypeOK, World, Worlds, Once, Client, Socket, SessionRecord, Replies

(* What Apply assigns is the next world.                                   *)
LEMMA Applied ==
  ASSUME NEW w \in Worlds, Apply(w)
  PROVE  World' = w
  BY DEF Worlds, Apply, World

LEMMA NoneIsNoSocket == None \notin Sockets /\ None \notin Agents
  BY BoundsAssumption, AgentsAssumption DEF Sockets

(***************************************************************************)
(* What each part of a handler does to a world.                            *)
(***************************************************************************)
LEMMA WorldParts ==
  ASSUME NEW w \in Worlds
  PROVE  /\ w.c \in Client /\ w.k \in [Sockets -> Socket] /\ w.u \in [Sockets -> Seq(Messages)]
         /\ w.d \in [Sockets -> Seq(Replies)] /\ w.l \in [Sockets -> SessionRecord]
         /\ w = [c |-> w.c, k |-> w.k, u |-> w.u, d |-> w.d, l |-> w.l]
  BY DEF Worlds

LEMMA SentWorld ==
  ASSUME NEW w \in Worlds, NEW m \in Messages
  PROVE  /\ Sent(w, m) \in Worlds
         /\ Sent(w, m).c = w.c /\ Sent(w, m).k = w.k /\ Sent(w, m).d = w.d /\ Sent(w, m).l = w.l
         /\ \A s \in Sockets :
              Sent(w, m).u[s] = IF s = w.c.ws /\ w.k[s].is = "open" THEN Append(w.u[s], m) ELSE w.u[s]
<1>1. CASE w.c.ws # None /\ w.k[w.c.ws].is = "open"
  <2>1. w.c.ws \in Sockets
    BY <1>1 DEF Worlds, Client
  <2>. DEFINE u == [w.u EXCEPT ![w.c.ws] = Append(w.u[w.c.ws], m)]
  <2>2. u \in [Sockets -> Seq(Messages)]
    BY <2>1, WorldParts
  <2>3. Sent(w, m) = [w EXCEPT !.u = u]
    BY <1>1 DEF Sent
  <2>4. Sent(w, m) = [c |-> w.c, k |-> w.k, u |-> u, d |-> w.d, l |-> w.l]
    BY <2>3, WorldParts
  <2>5. \A s \in Sockets : u[s] = IF s = w.c.ws THEN Append(w.u[s], m) ELSE w.u[s]
    BY <2>1, WorldParts
  <2>. HIDE DEF u
  <2>6. /\ Sent(w, m) \in Worlds
        /\ Sent(w, m).c = w.c /\ Sent(w, m).k = w.k /\ Sent(w, m).u = u /\ Sent(w, m).d = w.d /\ Sent(w, m).l = w.l
    BY <2>2, <2>4, WorldParts DEF Worlds
  <2>. QED BY <1>1, <2>5, <2>6
<1>2. CASE ~(w.c.ws # None /\ w.k[w.c.ws].is = "open")
  BY <1>2, NoneIsNoSocket DEF Sent
<1>. QED BY <1>1, <1>2

LEMMA EndedWorld ==
  ASSUME NEW w \in Worlds, NEW s \in Sockets
  PROVE  /\ Ended(w, s) \in Worlds
         /\ Ended(w, s).c = w.c
         /\ Ended(w, s).k = [w.k EXCEPT ![s] = [is |-> "closed", on |-> FALSE]]
         /\ Ended(w, s).u = [w.u EXCEPT ![s] = <<>>]
         /\ Ended(w, s).d = [w.d EXCEPT ![s] = <<>>]
         /\ Ended(w, s).l = [w.l EXCEPT ![s] = NoSession]
<1>. DEFINE k == [w.k EXCEPT ![s] = [is |-> "closed", on |-> FALSE]]
            u == [w.u EXCEPT ![s] = <<>>]
            d == [w.d EXCEPT ![s] = <<>>]
            l == [w.l EXCEPT ![s] = NoSession]
<1>1. Ended(w, s) = [w EXCEPT !.k = k, !.u = u, !.d = d, !.l = l]
  BY DEF Ended
<1>2. [is |-> "closed", on |-> FALSE] \in Socket /\ NoSession \in SessionRecord
  BY DEF Socket, NoSession, SessionRecord
<1>3. k \in [Sockets -> Socket] /\ l \in [Sockets -> SessionRecord]
  BY <1>2, WorldParts
<1>4. u \in [Sockets -> Seq(Messages)] /\ d \in [Sockets -> Seq(Replies)]
  BY WorldParts
<1>. HIDE DEF k, u, d, l
<1>5. Ended(w, s) \in Worlds
  BY <1>1, <1>3, <1>4 DEF Worlds
<1>6. /\ Ended(w, s).c = w.c /\ Ended(w, s).k = k /\ Ended(w, s).u = u /\ Ended(w, s).d = d /\ Ended(w, s).l = l
  BY <1>1 DEF Worlds
<1>. QED BY <1>5, <1>6 DEF k, u, d, l

Idle(c) == [c EXCEPT !.timer = FALSE, !.ws = None, !.authed = FALSE, !.failed = {}]

LEMMA CleanupWorld ==
  ASSUME NEW w \in Worlds
  PROVE  /\ Cleanup(w) \in Worlds
         /\ Cleanup(w).c = Idle(w.c) /\ Idle(w.c) \in Client
         /\ \A s \in Sockets :
              IF s = w.c.ws
              THEN /\ Cleanup(w).k[s] = [is |-> "closed", on |-> FALSE]
                   /\ Cleanup(w).u[s] = <<>> /\ Cleanup(w).d[s] = <<>> /\ Cleanup(w).l[s] = NoSession
              ELSE /\ Cleanup(w).k[s] = w.k[s]
                   /\ Cleanup(w).u[s] = w.u[s] /\ Cleanup(w).d[s] = w.d[s] /\ Cleanup(w).l[s] = w.l[s]
<1>. DEFINE v == IF w.c.ws = None THEN w ELSE Ended(w, w.c.ws)
<1>1. /\ v \in Worlds /\ v.c = w.c
      /\ \A s \in Sockets :
           IF s = w.c.ws
           THEN /\ v.k[s] = [is |-> "closed", on |-> FALSE]
                /\ v.u[s] = <<>> /\ v.d[s] = <<>> /\ v.l[s] = NoSession
           ELSE v.k[s] = w.k[s] /\ v.u[s] = w.u[s] /\ v.d[s] = w.d[s] /\ v.l[s] = w.l[s]
  <2>1. CASE w.c.ws = None
    BY <2>1, NoneIsNoSocket
  <2>2. CASE w.c.ws # None
    <3>1. w.c.ws \in Sockets
      BY <2>2 DEF Worlds, Client
    <3>2. /\ w.k \in [Sockets -> Socket] /\ w.u \in [Sockets -> Seq(Messages)]
          /\ w.d \in [Sockets -> Seq(Replies)] /\ w.l \in [Sockets -> SessionRecord]
      BY WorldParts
    <3>3. v = Ended(w, w.c.ws)
      BY <2>2
    <3>4. /\ Ended(w, w.c.ws) \in Worlds
          /\ Ended(w, w.c.ws).c = w.c
          /\ Ended(w, w.c.ws).k = [w.k EXCEPT ![w.c.ws] = [is |-> "closed", on |-> FALSE]]
          /\ Ended(w, w.c.ws).u = [w.u EXCEPT ![w.c.ws] = <<>>]
          /\ Ended(w, w.c.ws).d = [w.d EXCEPT ![w.c.ws] = <<>>]
          /\ Ended(w, w.c.ws).l = [w.l EXCEPT ![w.c.ws] = NoSession]
      BY <3>1, EndedWorld
    <3>. HIDE DEF v
    <3>. QED BY <3>1, <3>2, <3>3, <3>4
  <2>. QED BY <2>1, <2>2
<1>2. Idle(w.c) \in Client
  BY DEF Idle, Client, Worlds
<1>3. Cleanup(w) = [v EXCEPT !.c.timer = FALSE, !.c.ws = None, !.c.authed = FALSE, !.c.failed = {}]
  BY DEF Cleanup
<1>. HIDE DEF v
<1>4. Cleanup(w) = [v EXCEPT !.c = Idle(v.c)]
  BY <1>1, <1>3 DEF Idle, Worlds, Client
<1>5. Cleanup(w) = [c |-> Idle(w.c), k |-> v.k, u |-> v.u, d |-> v.d, l |-> v.l]
  <2>1. v = [c |-> v.c, k |-> v.k, u |-> v.u, d |-> v.d, l |-> v.l]
    BY <1>1, WorldParts
  <2>. QED BY <1>1, <1>4, <2>1
<1>6. /\ Cleanup(w) \in Worlds
      /\ Cleanup(w).c = Idle(w.c) /\ Cleanup(w).k = v.k /\ Cleanup(w).u = v.u /\ Cleanup(w).d = v.d /\ Cleanup(w).l = v.l
  BY <1>1, <1>2, <1>5, WorldParts DEF Worlds
<1>. QED BY <1>1, <1>2, <1>6

LEMMA ConnectedWorld ==
  ASSUME NEW w \in Worlds, NEW s \in Sockets
  PROVE  /\ Connected(w, s) \in Worlds
         /\ w.c.ws # None => Connected(w, s) = w
         /\ w.c.ws = None =>
              /\ Connected(w, s).c = [w.c EXCEPT !.intentional = FALSE, !.state = "connecting", !.ws = s]
              /\ Connected(w, s).k = [w.k EXCEPT ![s] = [is |-> "connecting", on |-> TRUE]]
              /\ Connected(w, s).u = w.u /\ Connected(w, s).d = w.d /\ Connected(w, s).l = w.l
<1>1. CASE w.c.ws # None
  BY <1>1 DEF Connected
<1>2. CASE w.c.ws = None
  <2>. DEFINE c == [w.c EXCEPT !.intentional = FALSE, !.state = "connecting", !.ws = s]
              k == [w.k EXCEPT ![s] = [is |-> "connecting", on |-> TRUE]]
  <2>1. Connected(w, s) = [w EXCEPT !.c = c, !.k = k]
    BY <1>2 DEF Connected
  <2>2. c \in Client
    BY WorldParts DEF Client
  <2>3. [is |-> "connecting", on |-> TRUE] \in Socket
    BY DEF Socket, Live
  <2>4. k \in [Sockets -> Socket]
    BY <2>3, WorldParts
  <2>. HIDE DEF c, k
  <2>5. Connected(w, s) \in Worlds
    BY <2>1, <2>2, <2>4 DEF Worlds
  <2>6. /\ Connected(w, s).c = c /\ Connected(w, s).k = k
        /\ Connected(w, s).u = w.u /\ Connected(w, s).d = w.d /\ Connected(w, s).l = w.l
    BY <2>1 DEF Worlds
  <2>. QED BY <1>2, <2>5, <2>6 DEF c, k
<1>. QED BY <1>1, <1>2

LEMMA ConnectedOnce ==
  ASSUME NEW w \in Worlds, NEW s \in Sockets, Once(w)
  PROVE  Once(Connected(w, s))
<1>1. CASE w.c.ws # None
  BY <1>1, ConnectedWorld
<1>2. CASE w.c.ws = None
  <2>1. Connected(w, s).c = [w.c EXCEPT !.intentional = FALSE, !.state = "connecting", !.ws = s] /\ w.c \in Client
    BY <1>2, ConnectedWorld, WorldParts
  <2>2. Connected(w, s).c.regs = w.c.regs /\ Connected(w, s).c.pend = w.c.pend
    BY <2>1 DEF Client
  <2>. QED BY <2>2 DEF Once
<1>. QED BY <1>1, <1>2

(* A handler that only changes the service's fields.                       *)
LEMMA ClientWorld ==
  ASSUME NEW w \in Worlds, NEW c \in Client
  PROVE  /\ [w EXCEPT !.c = c] \in Worlds
         /\ [w EXCEPT !.c = c].c = c /\ [w EXCEPT !.c = c].k = w.k /\ [w EXCEPT !.c = c].u = w.u
         /\ [w EXCEPT !.c = c].d = w.d /\ [w EXCEPT !.c = c].l = w.l
  BY DEF Worlds

LEMMA DisconnectedWorld ==
  ASSUME NEW w \in Worlds
  PROVE  /\ Disconnected(w) \in Worlds
         /\ Disconnected(w).c = [Idle(w.c) EXCEPT !.intentional = TRUE, !.state = "disconnected"]
         /\ Disconnected(w).k = Cleanup(w).k /\ Disconnected(w).u = Cleanup(w).u
         /\ Disconnected(w).d = Cleanup(w).d /\ Disconnected(w).l = Cleanup(w).l
<1>. DEFINE c == [Idle(w.c) EXCEPT !.intentional = TRUE, !.state = "disconnected"]
<1>1. Cleanup(w) \in Worlds /\ Cleanup(w).c = Idle(w.c) /\ Idle(w.c) \in Client
  BY CleanupWorld
<1>2. Disconnected(w) = [Cleanup(w) EXCEPT !.c = c]
  BY <1>1 DEF Disconnected
<1>3. c \in Client
  BY <1>1 DEF Client
<1>. HIDE DEF c
<1>4. /\ Disconnected(w) \in Worlds /\ Disconnected(w).c = c
      /\ Disconnected(w).k = Cleanup(w).k /\ Disconnected(w).u = Cleanup(w).u
      /\ Disconnected(w).d = Cleanup(w).d /\ Disconnected(w).l = Cleanup(w).l
  BY <1>1, <1>2, <1>3, ClientWorld
<1>. QED BY <1>4 DEF c

(* The fields after handleClose.                                           *)
AfterClose(c) ==
  [Idle(c) EXCEPT !.pend = @ \cup c.regs, !.regs = {}, !.timer = ~c.intentional,
                  !.state = IF c.intentional THEN "disconnected" ELSE "reconnecting"]

LEMMA ClosedWorld ==
  ASSUME NEW w \in Worlds
  PROVE  /\ Closed(w) \in Worlds
         /\ Closed(w).c = AfterClose(w.c)
         /\ Closed(w).k = Cleanup(w).k /\ Closed(w).u = Cleanup(w).u
         /\ Closed(w).d = Cleanup(w).d /\ Closed(w).l = Cleanup(w).l
<1>1. Cleanup(w) \in Worlds /\ Cleanup(w).c = Idle(w.c) /\ Idle(w.c) \in Client /\ w.c \in Client
  BY CleanupWorld, WorldParts
<1>. DEFINE b == [Idle(w.c) EXCEPT !.pend = @ \cup w.c.regs, !.regs = {}]
<1>2. [Cleanup(w) EXCEPT !.c.pend = @ \cup w.c.regs, !.c.regs = {}] = [Cleanup(w) EXCEPT !.c = b]
  BY <1>1
<1>3. b \in Client /\ b.intentional = w.c.intentional
  BY <1>1 DEF Client, Idle
<1>4. AfterClose(w.c) \in Client
  BY <1>1 DEF Client, AfterClose, Idle
<1>5. AfterClose(w.c) = IF w.c.intentional THEN [b EXCEPT !.state = "disconnected"]
                        ELSE [b EXCEPT !.state = "reconnecting", !.timer = TRUE]
  <2>1. CASE w.c.intentional
    BY <1>1, <2>1 DEF AfterClose, Client, Idle
  <2>2. CASE ~w.c.intentional
    BY <1>1, <2>2 DEF AfterClose, Client, Idle
  <2>. QED BY <2>1, <2>2
<1>6. [Cleanup(w) EXCEPT !.c = b] \in Worlds /\ [Cleanup(w) EXCEPT !.c = b].c = b
  BY <1>1, <1>3, ClientWorld
<1>. HIDE DEF b
<1>7. Closed(w) = [Cleanup(w) EXCEPT !.c = AfterClose(w.c)]
  <2>1. CASE w.c.intentional
    <3>1. Closed(w) = [[Cleanup(w) EXCEPT !.c = b] EXCEPT !.c.state = "disconnected"]
      BY <1>2, <1>3, <1>6, <2>1 DEF Closed
    <3>. QED BY <1>1, <1>5, <1>6, <2>1, <3>1 DEF Worlds
  <2>2. CASE ~w.c.intentional
    <3>1. Closed(w) = [[Cleanup(w) EXCEPT !.c = b] EXCEPT !.c.state = "reconnecting", !.c.timer = TRUE]
      BY <1>2, <1>3, <1>6, <2>2 DEF Closed
    <3>. QED BY <1>1, <1>5, <1>6, <2>2, <3>1 DEF Worlds
  <2>. QED BY <2>1, <2>2
<1>. QED BY <1>1, <1>4, <1>7, ClientWorld

Trying(c, a) == [c EXCEPT !.pendingAuth = a, !.state = "authenticating"]
Auth(a) == [type |-> "auth", agent |-> a]

LEMMA AuthenticatingWorld ==
  ASSUME NEW w \in Worlds, NEW a \in Agents
  PROVE  /\ Auth(a) \in Messages /\ Trying(w.c, a) \in Client
         /\ [w EXCEPT !.c = Trying(w.c, a)] \in Worlds
         /\ Authenticating(w, a) = Sent([w EXCEPT !.c = Trying(w.c, a)], Auth(a))
<1>1. Auth(a) \in Messages
  BY DEF Messages, Auth
<1>2. Trying(w.c, a) \in Client
  BY WorldParts DEF Trying, Client
<1>3. Authenticating(w, a) = Sent([w EXCEPT !.c = Trying(w.c, a)], Auth(a))
  BY DEF Authenticating, Trying, Auth
<1>. QED BY <1>1, <1>2, <1>3, ClientWorld

(***************************************************************************)
(* The invariant                                                           *)
(***************************************************************************)
(* What the service's fields, the sockets and the sessions have to do with *)
(* one another, unless a reconnect by hand has met an armed timer: the     *)
(* current socket is the only one that lives; a timer is only armed without*)
(* a socket; who is authenticated waits for no registration; auth_ok is    *)
(* only on its way from a session that was accepted;                       *)
(* a socket that was never open has neither messages nor a session.        *)
Sound(w) ==
  /\ \A s \in Sockets : w.k[s].is \in Live => s = w.c.ws /\ w.k[s].on
  /\ w.c.ws # None => w.k[w.c.ws].is \in Live
  /\ w.c.timer => w.c.ws = None /\ \E s \in Sockets : w.k[s].is # "unused"
  /\ w.c.authed => /\ w.c.ws # None /\ w.l[w.c.ws].authed
                    /\ w.c.state = "connected" /\ w.c.pend = {}
  /\ \A s \in Sockets : \A i \in DOMAIN w.d[s] : w.d[s][i] = "auth_ok" => w.l[s].authed
  /\ \A s \in Sockets : w.k[s].is \notin {"open", "dead"} =>
       w.u[s] = <<>> /\ w.d[s] = <<>> /\ w.l[s] = NoSession
  /\ w.c.intentional => w.c.ws = None /\ ~w.c.timer /\ w.c.state = "disconnected"

(* The agents a message is about.                                          *)
About(m) == IF m.type \in {"register", "unregister"} THEN m.agents ELSE {}
Last(q, i, a) == a \in About(q[i]) /\ \A j \in DOMAIN q : j > i => a \notin About(q[j])

(* When the messages of q have reached a linker that knows base, it knows  *)
(* regs: the last message about an agent decides.                          *)
Agree(q, base, regs) ==
  \A a \in Agents :
    /\ \A i \in DOMAIN q : Last(q, i, a) => (q[i].type = "register" <=> a \in regs)
    /\ (\A i \in DOMAIN q : a \notin About(q[i])) => (a \in base <=> a \in regs)

(* What the client counts as registered, before and after auth_ok, unless  *)
(* one of the three upsets has happened.                                   *)
Known(w) ==
  /\ ~w.c.authed => w.c.regs = {}
  /\ ~w.c.authed /\ w.c.ws # None =>
       w.l[w.c.ws].regs = {} /\ \A i \in DOMAIN w.u[w.c.ws] : About(w.u[w.c.ws][i]) = {}
  /\ w.c.authed /\ w.c.ws # None /\ w.k[w.c.ws].is = "open" => Agree(w.u[w.c.ws], w.l[w.c.ws].regs, w.c.regs)

Inv ==
  /\ TypeOK
  /\ "crossed" \notin upset => Sound(World)
  /\ upset = {} => Known(World)

(***************************************************************************)
(* Messages that are added and taken.                                      *)
(***************************************************************************)
LEMMA AppendIndex ==
  ASSUME NEW S, NEW q \in Seq(S), NEW m \in S
  PROVE  /\ DOMAIN Append(q, m) = DOMAIN q \cup {Len(q) + 1}
         /\ Append(q, m)[Len(q) + 1] = m
         /\ \A i \in DOMAIN q : Append(q, m)[i] = q[i] /\ i < Len(q) + 1 /\ i \in Nat
  OBVIOUS

LEMMA TailIndex ==
  ASSUME NEW S, NEW q \in Seq(S), q # <<>>
  PROVE  /\ Head(q) = q[1] /\ 1 \in DOMAIN q /\ Tail(q) \in Seq(S)
         /\ \A i \in DOMAIN Tail(q) : i \in Nat /\ i + 1 \in DOMAIN q /\ Tail(q)[i] = q[i + 1]
         /\ \A i \in DOMAIN q : i \in Nat /\ (i # 1 => i - 1 \in DOMAIN Tail(q) /\ Tail(q)[i - 1] = q[i])
  OBVIOUS

(* A message about nobody, a registration, its withdrawal.                 *)
LEMMA AgreeAppend ==
  ASSUME NEW q \in Seq(Messages), NEW m \in Messages, NEW base, NEW regs, NEW after,
         Agree(q, base, regs),
         \A a \in Agents : IF a \in About(m) THEN m.type = "register" <=> a \in after
                           ELSE a \in regs <=> a \in after
  PROVE  Agree(Append(q, m), base, after)
<1>. DEFINE n == Append(q, m)
<1>1. /\ DOMAIN n = DOMAIN q \cup {Len(q) + 1} /\ n[Len(q) + 1] = m
      /\ \A i \in DOMAIN q : n[i] = q[i] /\ i < Len(q) + 1 /\ i \in Nat
  BY AppendIndex
<1>2. Len(q) \in Nat
  OBVIOUS
<1>. SUFFICES ASSUME NEW a \in Agents
              PROVE  /\ \A i \in DOMAIN n : Last(n, i, a) => (n[i].type = "register" <=> a \in after)
                     /\ (\A i \in DOMAIN n : a \notin About(n[i])) => (a \in base <=> a \in after)
  BY DEF Agree
<1>. HIDE DEF n
<1>3. ASSUME NEW i \in DOMAIN n, Last(n, i, a) PROVE n[i].type = "register" <=> a \in after
  <2>1. CASE i = Len(q) + 1
    BY <1>1, <1>3, <2>1 DEF Last
  <2>2. CASE i # Len(q) + 1
    <3>1. i \in DOMAIN q /\ n[i] = q[i] /\ i < Len(q) + 1
      BY <1>1, <2>2
    <3>2. a \notin About(m)
      BY <1>1, <1>2, <1>3, <3>1 DEF Last
    <3>3. Last(q, i, a)
      BY <1>1, <1>3, <3>1 DEF Last
    <3>. QED BY <3>1, <3>2, <3>3 DEF Agree
  <2>. QED BY <2>1, <2>2
<1>4. ASSUME \A i \in DOMAIN n : a \notin About(n[i]) PROVE a \in base <=> a \in after
  <2>1. a \notin About(m) /\ \A i \in DOMAIN q : a \notin About(q[i])
    BY <1>1, <1>4
  <2>. QED BY <2>1 DEF Agree
<1>. QED BY <1>3, <1>4

LEMMA AgreeTail ==
  ASSUME NEW q \in Seq(Messages), q # <<>>, NEW base, NEW regs, NEW next,
         Agree(q, base, regs),
         \A a \in Agents : IF a \in About(Head(q)) THEN Head(q).type = "register" <=> a \in next
                           ELSE a \in base <=> a \in next
  PROVE  Agree(Tail(q), next, regs)
<1>. DEFINE n == Tail(q)
<1>1. /\ Head(q) = q[1] /\ 1 \in DOMAIN q
      /\ \A i \in DOMAIN n : i \in Nat /\ i + 1 \in DOMAIN q /\ n[i] = q[i + 1]
      /\ \A i \in DOMAIN q : i \in Nat /\ (i # 1 => i - 1 \in DOMAIN n /\ n[i - 1] = q[i])
  BY TailIndex
<1>. SUFFICES ASSUME NEW a \in Agents
              PROVE  /\ \A i \in DOMAIN n : Last(n, i, a) => (n[i].type = "register" <=> a \in regs)
                     /\ (\A i \in DOMAIN n : a \notin About(n[i])) => (a \in next <=> a \in regs)
  BY DEF Agree
<1>. HIDE DEF n
<1>2. ASSUME NEW i \in DOMAIN n, Last(n, i, a) PROVE n[i].type = "register" <=> a \in regs
  <2>1. i + 1 \in DOMAIN q /\ q[i + 1] = n[i] /\ i \in Nat
    BY <1>1
  <2>2. ASSUME NEW j \in DOMAIN q, j > i + 1 PROVE a \notin About(q[j])
    <3>1. j - 1 \in DOMAIN n /\ n[j - 1] = q[j] /\ j - 1 > i
      BY <1>1, <2>1, <2>2
    <3>. QED BY <1>2, <3>1 DEF Last
  <2>3. Last(q, i + 1, a)
    BY <1>2, <2>1, <2>2 DEF Last
  <2>. QED BY <2>1, <2>3 DEF Agree
<1>3. ASSUME \A i \in DOMAIN n : a \notin About(n[i]) PROVE a \in next <=> a \in regs
  <2>1. ASSUME NEW j \in DOMAIN q, j # 1 PROVE a \notin About(q[j])
    BY <1>1, <1>3, <2>1
  <2>2. CASE a \in About(Head(q))
    <3>1. Last(q, 1, a)
      BY <1>1, <2>1, <2>2 DEF Last
    <3>. QED BY <1>1, <2>2, <3>1 DEF Agree
  <2>3. CASE a \notin About(Head(q))
    <3>1. \A j \in DOMAIN q : a \notin About(q[j])
      BY <1>1, <2>1, <2>3
    <3>. QED BY <2>3, <3>1 DEF Agree
  <2>. QED BY <2>2, <2>3
<1>. QED BY <1>2, <1>3

(* Nothing on the way to a linker that knows nobody.                       *)
LEMMA AgreeQuiet ==
  ASSUME NEW q, \A i \in DOMAIN q : About(q[i]) = {}
  PROVE  Agree(q, {}, {})
  BY DEF Agree, Last

(***************************************************************************)
(* What each part of a handler keeps.                                      *)
(***************************************************************************)
LEMMA SentSound ==
  ASSUME NEW w \in Worlds, NEW m \in Messages, Sound(w)
  PROVE  Sound(Sent(w, m))
<1>. DEFINE v == Sent(w, m)
<1>1. /\ v.c = w.c /\ v.k = w.k /\ v.d = w.d /\ v.l = w.l
      /\ \A s \in Sockets : w.k[s].is # "open" => v.u[s] = w.u[s]
  BY SentWorld
<1>. HIDE DEF v
<1>2. Sound(v)
  BY <1>1 DEF Sound
<1>. QED BY <1>2 DEF v

(* A message that is about no registration.                                *)
LEMMA SentKnown ==
  ASSUME NEW w \in Worlds, NEW m \in Messages, Known(w), About(m) = {}
  PROVE  Known(Sent(w, m))
<1>. DEFINE v == Sent(w, m)
<1>1. /\ v.c = w.c /\ v.k = w.k /\ v.d = w.d /\ v.l = w.l
      /\ \A s \in Sockets : v.u[s] = w.u[s] \/ v.u[s] = Append(w.u[s], m)
  BY SentWorld
<1>. HIDE DEF v
<1>2. w.c.ws # None => w.c.ws \in Sockets /\ w.u[w.c.ws] \in Seq(Messages)
  BY WorldParts DEF Client
<1>3. ~v.c.authed /\ v.c.ws # None => \A i \in DOMAIN v.u[v.c.ws] : About(v.u[v.c.ws][i]) = {}
  <2>. SUFFICES ASSUME ~w.c.authed, w.c.ws # None
                PROVE  \A i \in DOMAIN v.u[w.c.ws] : About(v.u[w.c.ws][i]) = {}
    BY <1>1
  <2>. DEFINE q == w.u[w.c.ws]
  <2>1. q \in Seq(Messages) /\ (v.u[w.c.ws] = q \/ v.u[w.c.ws] = Append(q, m))
    BY <1>1, <1>2
  <2>2. \A i \in DOMAIN q : About(q[i]) = {}
    BY DEF Known
  <2>. HIDE DEF q
  <2>3. \A i \in DOMAIN Append(q, m) : About(Append(q, m)[i]) = {}
    BY <2>1, <2>2, AppendIndex
  <2>. QED BY <2>1, <2>2, <2>3
<1>4. v.c.authed /\ v.k[v.c.ws].is = "open" /\ v.c.ws # None => Agree(v.u[v.c.ws], v.l[v.c.ws].regs, v.c.regs)
  <2>. SUFFICES ASSUME w.c.authed, w.c.ws # None, w.k[w.c.ws].is = "open"
                PROVE  Agree(v.u[w.c.ws], w.l[w.c.ws].regs, w.c.regs)
    BY <1>1
  <2>1. Agree(w.u[w.c.ws], w.l[w.c.ws].regs, w.c.regs)
    BY DEF Known
  <2>2. Agree(Append(w.u[w.c.ws], m), w.l[w.c.ws].regs, w.c.regs)
    BY <1>2, <2>1, AgreeAppend
  <2>. QED BY <1>1, <1>2, <2>1, <2>2
<1>5. Known(v)
  BY <1>1, <1>3, <1>4 DEF Known
<1>. QED BY <1>5 DEF v

LEMMA CleanupSound ==
  ASSUME NEW w \in Worlds, Sound(w)
  PROVE  Sound(Cleanup(w)) /\ \A s \in Sockets : Cleanup(w).k[s].is \notin Live
<1>. DEFINE v == Cleanup(w)
<1>1. /\ v.c = Idle(w.c) /\ w.c \in Client
      /\ \A s \in Sockets :
           IF s = w.c.ws
           THEN /\ v.k[s] = [is |-> "closed", on |-> FALSE]
                /\ v.u[s] = <<>> /\ v.d[s] = <<>> /\ v.l[s] = NoSession
           ELSE v.k[s] = w.k[s] /\ v.u[s] = w.u[s] /\ v.d[s] = w.d[s] /\ v.l[s] = w.l[s]
  BY CleanupWorld, WorldParts
<1>. HIDE DEF v
<1>2. /\ v.c.ws = None /\ ~v.c.timer /\ ~v.c.authed /\ v.c.intentional = w.c.intentional /\ v.c.state = w.c.state
  BY <1>1 DEF Idle, Client
<1>3. \A s \in Sockets : v.k[s].is \notin Live
  BY <1>1 DEF Sound, Live
<1>4. /\ \A s \in Sockets : \A i \in DOMAIN v.d[s] : v.d[s][i] = "auth_ok" => v.l[s].authed
      /\ \A s \in Sockets : v.k[s].is \notin {"open", "dead"} => v.u[s] = <<>> /\ v.d[s] = <<>> /\ v.l[s] = NoSession
  <2>. SUFFICES ASSUME NEW s \in Sockets
                PROVE  /\ \A i \in DOMAIN v.d[s] : v.d[s][i] = "auth_ok" => v.l[s].authed
                       /\ v.k[s].is \notin {"open", "dead"} => v.u[s] = <<>> /\ v.d[s] = <<>> /\ v.l[s] = NoSession
    OBVIOUS
  <2>1. CASE s = w.c.ws
    BY <1>1, <2>1
  <2>2. CASE s # w.c.ws
    BY <1>1, <2>2 DEF Sound
  <2>. QED BY <2>1, <2>2
<1>5. Sound(v)
  BY <1>2, <1>3, <1>4 DEF Sound
<1>. QED BY <1>3, <1>5 DEF v

(* Connecting where no timer is armed, on a socket that was never used.    *)
LEMMA ConnectedSound ==
  ASSUME NEW w \in Worlds, NEW s \in Sockets, Sound(w), w.k[s].is = "unused", ~w.c.timer
  PROVE  Sound(Connected(w, s))
<1>. DEFINE v == Connected(w, s)
<1>1. CASE w.c.ws # None
  BY <1>1, ConnectedWorld
<1>2. CASE w.c.ws = None
  <2>1. /\ v.c = [w.c EXCEPT !.intentional = FALSE, !.state = "connecting", !.ws = s]
        /\ v.k = [w.k EXCEPT ![s] = [is |-> "connecting", on |-> TRUE]]
        /\ v.u = w.u /\ v.d = w.d /\ v.l = w.l /\ w.c \in Client /\ w.k \in [Sockets -> Socket]
    BY <1>2, ConnectedWorld, WorldParts
  <2>. HIDE DEF v
  <2>2. v.c.ws = s /\ v.c.authed = w.c.authed /\ v.c.timer = w.c.timer /\ ~v.c.intentional /\ v.c.pend = w.c.pend
    BY <2>1 DEF Client
  <2>3. ~w.c.authed /\ \A t \in Sockets : w.k[t].is \notin Live
    BY <1>2, NoneIsNoSocket DEF Sound
  <2>4. \A t \in Sockets : v.k[t] = IF t = s THEN [is |-> "connecting", on |-> TRUE] ELSE w.k[t]
    BY <2>1
  <2>5. Sound(v)
    BY <2>1, <2>2, <2>3, <2>4 DEF Sound, Live
  <2>. QED BY <2>5 DEF v
<1>. QED BY <1>1, <1>2

LEMMA ConnectedKnown ==
  ASSUME NEW w \in Worlds, NEW s \in Sockets, Sound(w), Known(w), w.k[s].is = "unused"
  PROVE  Known(Connected(w, s))
<1>. DEFINE v == Connected(w, s)
<1>1. CASE w.c.ws # None
  BY <1>1, ConnectedWorld
<1>2. CASE w.c.ws = None
  <2>1. /\ v.c = [w.c EXCEPT !.intentional = FALSE, !.state = "connecting", !.ws = s]
        /\ v.u = w.u /\ v.l = w.l /\ w.c \in Client
    BY <1>2, ConnectedWorld, WorldParts
  <2>. HIDE DEF v
  <2>2. v.c.ws = s /\ ~v.c.authed /\ v.c.regs = {}
    BY <1>2, <2>1 DEF Client, Sound, Known
  <2>3. v.u[s] = <<>> /\ v.l[s] = NoSession
    BY <2>1 DEF Sound
  <2>4. Known(v)
    BY <2>2, <2>3 DEF Known, NoSession
  <2>. QED BY <2>4 DEF v
<1>. QED BY <1>1, <1>2

LEMMA DisconnectedSound ==
  ASSUME NEW w \in Worlds, Sound(w)
  PROVE  /\ Sound(Disconnected(w)) /\ ~Disconnected(w).c.timer /\ Disconnected(w).c.ws = None
         /\ Disconnected(w).c.regs = w.c.regs
         /\ w.c.regs = {} => Known(Disconnected(w))
         /\ \A s \in Sockets : w.k[s].is = "unused" /\ s # w.c.ws => Disconnected(w).k[s].is = "unused"
<1>. DEFINE v == Disconnected(w)  b == Cleanup(w)
<1>1. /\ v.c = [Idle(w.c) EXCEPT !.intentional = TRUE, !.state = "disconnected"]
      /\ v.k = b.k /\ v.u = b.u /\ v.d = b.d /\ v.l = b.l /\ w.c \in Client /\ b.c = Idle(w.c)
  BY DisconnectedWorld, CleanupWorld, WorldParts
<1>2. Sound(b) /\ \A s \in Sockets : b.k[s].is \notin Live
  BY CleanupSound
<1>3. \A s \in Sockets : s # w.c.ws => b.k[s] = w.k[s]
  BY CleanupWorld
<1>. HIDE DEF v, b
<1>4. v.c.ws = None /\ ~v.c.timer /\ ~v.c.authed /\ v.c.state = "disconnected" /\ v.c.regs = w.c.regs
  BY <1>1 DEF Idle, Client
<1>5. Sound(v)
  BY <1>1, <1>2, <1>4 DEF Sound
<1>6. w.c.regs = {} => Known(v)
  BY <1>4 DEF Known
<1>. QED BY <1>1, <1>3, <1>4, <1>5, <1>6 DEF v

LEMMA ClosedSound ==
  ASSUME NEW w \in Worlds, Sound(w), w.c.ws # None
  PROVE  Sound(Closed(w)) /\ Known(Closed(w)) /\ (Once(w) => Once(Closed(w)))
<1>. DEFINE v == Closed(w)  b == Cleanup(w)
<1>1. /\ v.c = AfterClose(w.c)
      /\ v.k = b.k /\ v.u = b.u /\ v.d = b.d /\ v.l = b.l /\ w.c \in Client
  BY ClosedWorld, WorldParts
<1>2. Sound(b) /\ \A s \in Sockets : b.k[s].is \notin Live
  BY CleanupSound
<1>3. w.c.ws \in Sockets /\ b.k[w.c.ws].is = "closed"
  BY <1>1, CleanupWorld DEF Client
<1>. HIDE DEF v, b
<1>4. /\ v.c.ws = None /\ ~v.c.authed /\ v.c.regs = {}
      /\ v.c.intentional => ~v.c.timer /\ v.c.state = "disconnected"
  BY <1>1 DEF AfterClose, Idle, Client
<1>5. \E s \in Sockets : v.k[s].is # "unused"
  BY <1>1, <1>3
<1>6. /\ \A s \in Sockets : \A i \in DOMAIN v.d[s] : v.d[s][i] = "auth_ok" => v.l[s].authed
      /\ \A s \in Sockets : v.k[s].is \notin {"open", "dead"} => v.u[s] = <<>> /\ v.d[s] = <<>> /\ v.l[s] = NoSession
  BY <1>1, <1>2 DEF Sound
<1>7. \A s \in Sockets : v.k[s].is \notin Live
  BY <1>1, <1>2
<1>8. Sound(v)
  BY <1>4, <1>5, <1>6, <1>7 DEF Sound
<1>9. Known(v) /\ Once(v)
  BY <1>4 DEF Known, Once
<1>. QED BY <1>8, <1>9 DEF v

(* The event of a socket that was closed already: cleanup closes it again. *)
LEMMA ClosedTwice ==
  ASSUME NEW w \in Worlds, w.c.ws # None
  PROVE  Closed(Ended(w, w.c.ws)) = Closed(w)
<1>1. w.c.ws \in Sockets
  BY WorldParts DEF Client
<1>. DEFINE e == Ended(w, w.c.ws)
<1>2. e \in Worlds /\ e.c = w.c
  BY <1>1, EndedWorld
<1>3. Ended(e, w.c.ws) = e
  <2>1. /\ e.k = [w.k EXCEPT ![w.c.ws] = [is |-> "closed", on |-> FALSE]]
        /\ e.u = [w.u EXCEPT ![w.c.ws] = <<>>] /\ e.d = [w.d EXCEPT ![w.c.ws] = <<>>]
        /\ e.l = [w.l EXCEPT ![w.c.ws] = NoSession]
    BY <1>1, EndedWorld
  <2>2. /\ Ended(e, w.c.ws) \in Worlds /\ Ended(e, w.c.ws).c = e.c
        /\ Ended(e, w.c.ws).k = [e.k EXCEPT ![w.c.ws] = [is |-> "closed", on |-> FALSE]]
        /\ Ended(e, w.c.ws).u = [e.u EXCEPT ![w.c.ws] = <<>>] /\ Ended(e, w.c.ws).d = [e.d EXCEPT ![w.c.ws] = <<>>]
        /\ Ended(e, w.c.ws).l = [e.l EXCEPT ![w.c.ws] = NoSession]
    BY <1>1, <1>2, EndedWorld
  <2>. HIDE DEF e
  <2>3. Ended(e, w.c.ws).k = e.k
    BY <1>1, <2>1, <2>2, WorldParts
  <2>4. Ended(e, w.c.ws).u = e.u
    BY <1>1, <2>1, <2>2, WorldParts
  <2>5. Ended(e, w.c.ws).d = e.d
    BY <1>1, <2>1, <2>2, WorldParts
  <2>6. Ended(e, w.c.ws).l = e.l
    BY <1>1, <2>1, <2>2, WorldParts
  <2>. QED BY <1>2, <2>2, <2>3, <2>4, <2>5, <2>6, WorldParts
<1>4. Cleanup(e) = Cleanup(w)
  BY <1>2, <1>3 DEF Cleanup
<1>. HIDE DEF e
<1>5. Closed(e) = Closed(w)
  BY <1>2, <1>4 DEF Closed
<1>. QED BY <1>5 DEF e

(* tryAuthenticateNextAgent and registerAgent, on a socket not yet in use. *)
LEMMA AuthenticatingSound ==
  ASSUME NEW w \in Worlds, NEW a \in Agents
  PROVE  /\ Authenticating(w, a) \in Worlds
         /\ Authenticating(w, a).c = Trying(w.c, a) /\ Trying(w.c, a).regs = w.c.regs /\ Trying(w.c, a).pend = w.c.pend
         /\ Sound(w) /\ ~w.c.authed /\ w.c.ws # None => Sound(Authenticating(w, a))
         /\ Sound(w) /\ Known(w) /\ ~w.c.authed /\ w.c.ws # None => Known(Authenticating(w, a))
<1>. DEFINE v == [w EXCEPT !.c = Trying(w.c, a)]
<1>1. /\ v \in Worlds /\ Auth(a) \in Messages /\ Authenticating(w, a) = Sent(v, Auth(a))
      /\ v.c = Trying(w.c, a) /\ v.k = w.k /\ v.u = w.u /\ v.d = w.d /\ v.l = w.l /\ w.c \in Client
  BY AuthenticatingWorld, ClientWorld, WorldParts
<1>. HIDE DEF v
<1>2. /\ v.c.ws = w.c.ws /\ v.c.authed = w.c.authed /\ v.c.timer = w.c.timer /\ v.c.intentional = w.c.intentional
      /\ v.c.regs = w.c.regs /\ v.c.pend = w.c.pend
  BY <1>1 DEF Trying, Client
<1>3. Sound(w) /\ ~w.c.authed /\ w.c.ws # None => Sound(v)
  BY <1>1, <1>2 DEF Sound
<1>4. Known(w) => Known(v)
  BY <1>1, <1>2 DEF Known
<1>5. About(Auth(a)) = {}
  BY DEF About, Auth
<1>. QED BY <1>1, <1>2, <1>3, <1>4, <1>5, SentWorld, SentSound, SentKnown

(***************************************************************************)
(* The actions.                                                            *)
(***************************************************************************)
LEMMA WorldInv ==
  ASSUME Inv
  PROVE  /\ World \in Worlds /\ Once(World) /\ NoSession \in SessionRecord
         /\ World.c = client /\ World.k = sock /\ World.u = up /\ World.d = down /\ World.l = sess
         /\ "crossed" \notin upset => Sound(World)
         /\ upset = {} => Known(World)
  BY TypeIsWorld DEF Inv, World, NoSession, SessionRecord

(* What an action that applies w has to show.                              *)
LEMMA Shown ==
  ASSUME NEW w \in Worlds, Apply(w), Once(w),
         signing' \subseteq [agent : Agents, challenge : Sockets],
         losses' \in 0..MaxLosses, user' \in 0..MaxUser, upset' \subseteq {"crossed", "kept", "refused"},
         "crossed" \notin upset' => Sound(w),
         upset' = {} => Known(w)
  PROVE  Inv'
<1>1. World' = w
  BY Applied
<1>2. TypeOK'
  BY WorldParts DEF Apply, TypeOK, Once, Client, Socket, SessionRecord, Replies
<1>. QED BY <1>1, <1>2 DEF Inv

LEMMA FreshSocket ==
  ASSUME Inv, NEW s \in Fresh
  PROVE  s \in Sockets /\ sock[s].is = "unused"
  BY DEF Fresh

LEMMA StartStep == ASSUME Inv, Start PROVE Inv'
<1>1. PICK s \in Fresh : Apply(Connected(World, s))
  BY DEF Start
<1>2. s \in Sockets /\ World.k[s].is = "unused" /\ UNCHANGED <<signing, losses, user, upset>>
  BY <1>1, WorldInv, FreshSocket DEF Start, bounds
<1>3. Sound(World) => ~World.c.timer
  BY WorldInv DEF Sound, Start
<1>4. Connected(World, s) \in Worlds /\ Once(Connected(World, s))
  BY <1>2, WorldInv, ConnectedWorld, ConnectedOnce
<1>5. "crossed" \notin upset => Sound(Connected(World, s))
  BY <1>2, <1>3, WorldInv, ConnectedSound
<1>6. upset = {} => Known(Connected(World, s))
  BY <1>2, <1>3, WorldInv, ConnectedKnown
<1>. QED BY <1>1, <1>2, <1>4, <1>5, <1>6, Shown DEF Inv, TypeOK

(* handleOpen: with what is left to try, or without.                       *)
LEMMA OpenStep == ASSUME Inv, NEW s \in Sockets, Open(s) PROVE Inv'
<1>. DEFINE c == [client EXCEPT !.failed = {}]
            w == [World EXCEPT !.k[s].is = "open", !.c.failed = {}]
            k == [sock EXCEPT ![s] = [is |-> "open", on |-> TRUE]]
<1>1. World \in Worlds /\ client \in Client /\ sock \in [Sockets -> Socket]
  BY WorldInv, WorldParts
<1>2. c \in Client /\ [is |-> "open", on |-> TRUE] \in Socket
  BY <1>1 DEF Client, Socket, Live
<1>3. k \in [Sockets -> Socket]
  BY <1>1, <1>2
<1>4. w = [World EXCEPT !.k = k, !.c = c]
  <2>1. [sock EXCEPT ![s].is = "open"] = k
    <3>1. [sock[s] EXCEPT !.is = "open"] = [is |-> "open", on |-> TRUE]
      <4>. DEFINE r == [sock[s] EXCEPT !.is = "open"]
      <4>1. sock[s] \in Socket /\ sock[s].on
        <5>1. sock[s] = [is |-> "connecting", on |-> TRUE]
          BY DEF Open
        <5>2. sock[s] \in Socket
          BY <1>1
        <5>3. sock[s].on = [is |-> "connecting", on |-> TRUE].on
          BY <5>1
        <5>4. [is |-> "connecting", on |-> TRUE].on
          OBVIOUS
        <5>. QED BY <5>2, <5>3, <5>4
      <4>2. r \in Socket /\ r.is = "open" /\ r.on = TRUE
        BY <4>1 DEF Socket, Live
      <4>. HIDE DEF r
      <4>3. r = [is |-> r.is, on |-> r.on]
        BY <4>2 DEF Socket
      <4>4. r = [is |-> "open", on |-> TRUE]
        BY <4>2, <4>3
      <4>. QED BY <4>4 DEF r
    <3>2. [sock EXCEPT ![s].is = "open"] = [sock EXCEPT ![s] = [sock[s] EXCEPT !.is = "open"]]
      BY <1>1
    <3>. QED BY <3>1, <3>2
  <2>2. w = [World EXCEPT !.k = [sock EXCEPT ![s].is = "open"], !.c = c]
    BY DEF World
  <2>. QED BY <2>1, <2>2
<1>5. /\ w \in Worlds /\ w.c = c /\ w.k = k /\ w.u = up /\ w.d = down /\ w.l = sess
  <2>. HIDE DEF c, k, w
  <2>. QED BY <1>1, <1>2, <1>3, <1>4, WorldInv DEF Worlds
<1>6. PICK v \in NextAuth(w, w) : Apply(v)
  BY DEF Open
<1>7. UNCHANGED <<signing, losses, user, upset>> /\ sock[s] = [is |-> "connecting", on |-> TRUE]
  BY DEF Open, bounds
<1>8. /\ c.ws = client.ws /\ c.authed = client.authed /\ c.timer = client.timer /\ c.state = client.state
      /\ c.intentional = client.intentional /\ c.regs = client.regs /\ c.pend = client.pend
  BY <1>1 DEF Client
<1>. HIDE DEF c, w, k
<1>9. ASSUME Sound(World)
      PROVE  Sound(w) /\ ~w.c.authed /\ w.c.ws # None /\ (Known(World) => Known(w))
  <2>1. client.ws = s /\ ~client.authed /\ sess[s] = NoSession
    <3>1. client.ws = s
      BY <1>7, <1>9, WorldInv DEF Sound, Live
    <3>2. sess[s] = NoSession
      BY <1>7, <1>9, WorldInv DEF Sound
    <3>3. ~client.authed
      BY <1>9, <3>1, <3>2, WorldInv DEF Sound, NoSession
    <3>. QED BY <3>1, <3>2, <3>3
  <2>2. \A t \in Sockets : k[t] = IF t = s THEN [is |-> "open", on |-> TRUE] ELSE sock[t]
    BY <1>1 DEF k
  <2>3. down[s] = <<>>
    BY <1>7, <1>9, WorldInv DEF Sound
  <2>4. Sound(w)
    BY <1>5, <1>7, <1>8, <1>9, <2>1, <2>2, <2>3, WorldInv, NoneIsNoSocket DEF Sound, Live
  <2>5. Known(World) => Known(w)
    BY <1>5, <1>8, <2>1, WorldInv DEF Known
  <2>. QED BY <1>5, <1>8, <2>1, <2>4, <2>5, NoneIsNoSocket
<1>10. v = w \/ \E a \in Agents : v = Authenticating(w, a)
  BY <1>1, <1>5, <1>6, <1>8 DEF NextAuth, Client
<1>11. v \in Worlds /\ Once(v) /\ ("crossed" \notin upset => Sound(v)) /\ (upset = {} => Known(v))
  <2>1. CASE v = w
    BY <1>5, <1>8, <1>9, <2>1, WorldInv DEF Once
  <2>2. ASSUME NEW a \in Agents, v = Authenticating(w, a) PROVE  v \in Worlds /\ Once(v) /\ ("crossed" \notin upset => Sound(v)) /\ (upset = {} => Known(v))
    BY <1>5, <1>8, <1>9, <2>2, WorldInv, AuthenticatingSound DEF Once
  <2>. QED BY <1>10, <2>1, <2>2
<1>. QED BY <1>6, <1>7, <1>11, Shown DEF Inv, TypeOK

(* However the fields were: nothing is registered after handleClose.       *)
LEMMA ClosedOnce ==
  ASSUME NEW w \in Worlds
  PROVE  Once(Closed(w))
<1>1. Closed(w).c = AfterClose(w.c) /\ w.c \in Client
  BY ClosedWorld, WorldParts
<1>2. Closed(w).c.regs = {}
  BY <1>1 DEF AfterClose, Idle, Client
<1>. QED BY <1>2 DEF Once

LEMMA LoseStep == ASSUME Inv, NEW s \in Sockets, Lose(s) PROVE Inv'
<1>. DEFINE e == Ended(World, s)
<1>1. /\ UNCHANGED <<signing, user, upset>> /\ losses' \in 0..MaxLosses
      /\ sock[s].is \in {"connecting", "open"}
      /\ Apply(IF sock[s].on THEN Closed(e) ELSE e)
  <2>1. losses' \in 0..MaxLosses
    BY BoundsAssumption DEF Lose, Inv, TypeOK
  <2>. QED BY <2>1 DEF Lose
<1>2. World \in Worlds /\ e \in Worlds /\ e.c = client /\ Once(e)
  BY WorldInv, EndedWorld DEF Once
<1>3. Sound(World) => s = client.ws /\ sock[s].on /\ client.ws # None
  BY <1>1, WorldInv, NoneIsNoSocket DEF Sound, Live
<1>4. CASE sock[s].on
  <2>1. Closed(e) \in Worlds /\ Once(Closed(e)) /\ Apply(Closed(e))
    BY <1>1, <1>2, <1>4, ClosedWorld, ClosedOnce
  <2>2. Sound(World) => Sound(Closed(e)) /\ Known(Closed(e))
    BY <1>2, <1>3, WorldInv, ClosedTwice, ClosedSound
  <2>. HIDE DEF e
  <2>. QED BY <1>1, <2>1, <2>2, WorldInv, Shown DEF Inv, TypeOK
<1>5. CASE ~sock[s].on
  <2>. HIDE DEF e
  <2>. QED BY <1>1, <1>2, <1>3, <1>5, WorldInv, Shown DEF Inv, TypeOK
<1>. QED BY <1>4, <1>5

LEMMA DieStep == ASSUME Inv, NEW s \in Sockets, Die(s) PROVE Inv'
<1>. DEFINE k == [sock EXCEPT ![s].is = "dead"]
            u == [up EXCEPT ![s] = <<>>]
            d == [down EXCEPT ![s] = <<>>]
            w == [c |-> client, k |-> k, u |-> u, d |-> d, l |-> sess]
<1>1. /\ client \in Client /\ sock \in [Sockets -> Socket] /\ up \in [Sockets -> Seq(Messages)]
      /\ down \in [Sockets -> Seq(Replies)] /\ sess \in [Sockets -> SessionRecord]
  BY WorldInv, WorldParts
<1>2. /\ UNCHANGED <<signing, user, upset>> /\ losses' \in 0..MaxLosses /\ sock[s].is = "open" /\ Apply(w)
  <2>1. losses' \in 0..MaxLosses
    BY BoundsAssumption DEF Die, Inv, TypeOK
  <2>. QED BY <2>1 DEF Die, Apply
<1>3. [sock[s] EXCEPT !.is = "dead"] \in Socket
  BY <1>1 DEF Socket, Live
<1>4. k \in [Sockets -> Socket] /\ u \in [Sockets -> Seq(Messages)] /\ d \in [Sockets -> Seq(Replies)]
  BY <1>1, <1>3
<1>5. \A t \in Sockets : /\ k[t].is = (IF t = s THEN "dead" ELSE sock[t].is) /\ k[t].on = sock[t].on
                         /\ u[t] = (IF t = s THEN <<>> ELSE up[t]) /\ d[t] = (IF t = s THEN <<>> ELSE down[t])
  BY <1>1 DEF Socket
<1>. HIDE DEF k, u, d
<1>6. w \in Worlds /\ Once(w)
  BY <1>1, <1>4, WorldInv DEF Worlds, Once
<1>7. Sound(World) => Sound(w)
  BY <1>2, <1>5, WorldInv DEF Sound, Live
<1>8. Known(World) => Known(w)
  <2>. SUFFICES ASSUME Known(World) PROVE Known(w)
    OBVIOUS
  <2>1. client.ws # None => client.ws \in Sockets
    BY <1>1 DEF Client
  <2>2. CASE client.ws = s
    BY <1>5, <2>2, WorldInv DEF Known
  <2>3. CASE client.ws # s
    BY <1>5, <2>1, <2>3, WorldInv DEF Known
  <2>. QED BY <2>2, <2>3
<1>. HIDE DEF w
<1>. QED BY <1>2, <1>6, <1>7, <1>8, WorldInv, Shown DEF Inv, TypeOK

LEMMA HeartbeatStep == ASSUME Inv, HeartbeatTimeout PROVE Inv'
<1>1. Apply(Closed(World)) /\ client.ws # None /\ UNCHANGED <<signing, losses, user, upset>>
  BY DEF HeartbeatTimeout, bounds
<1>2. Closed(World) \in Worlds /\ Once(Closed(World))
  BY WorldInv, ClosedWorld, ClosedOnce
<1>3. Sound(World) => Sound(Closed(World)) /\ Known(Closed(World))
  BY <1>1, WorldInv, ClosedSound
<1>. QED BY <1>1, <1>2, <1>3, WorldInv, Shown DEF Inv, TypeOK

LEMMA ReconnectTimerStep == ASSUME Inv, ReconnectTimer PROVE Inv'
<1>. DEFINE c == [client EXCEPT !.timer = FALSE, !.ws = None]
            w == [World EXCEPT !.c.timer = FALSE, !.c.ws = None]
<1>1. World \in Worlds /\ client \in Client
  BY WorldInv, WorldParts
<1>2. c \in Client
  BY <1>1 DEF Client
<1>3. w = [World EXCEPT !.c = c]
  BY DEF World
<1>4. PICK s \in Fresh : Apply(Connected(w, s))
  BY DEF ReconnectTimer
<1>5. client.timer /\ UNCHANGED <<signing, losses, user, upset>> /\ s \in Sockets /\ sock[s].is = "unused"
  BY FreshSocket DEF ReconnectTimer, bounds
<1>6. /\ c.ws = None /\ ~c.timer /\ c.authed = client.authed /\ c.state = client.state
      /\ c.intentional = client.intentional /\ c.regs = client.regs /\ c.pend = client.pend
  BY <1>1 DEF Client
<1>. HIDE DEF c, w
<1>7. w \in Worlds /\ w.c = c /\ w.k = sock /\ w.u = up /\ w.d = down /\ w.l = sess
  BY <1>1, <1>2, <1>3, WorldInv, ClientWorld
<1>8. Connected(w, s) \in Worlds /\ Once(Connected(w, s))
  <2>1. Once(w)
    BY <1>6, <1>7, WorldInv DEF Once
  <2>. QED BY <1>5, <1>7, <2>1, ConnectedWorld, ConnectedOnce
<1>9. Sound(World) => Sound(w)
  BY <1>5, <1>6, <1>7, WorldInv DEF Sound
<1>10. Sound(World) /\ Known(World) => Known(w)
  BY <1>5, <1>6, <1>7, WorldInv DEF Sound, Known
<1>11. "crossed" \notin upset => Sound(Connected(w, s))
  BY <1>5, <1>6, <1>7, <1>9, WorldInv, ConnectedSound
<1>12. upset = {} => Known(Connected(w, s))
  BY <1>5, <1>7, <1>9, <1>10, WorldInv, ConnectedKnown
<1>. QED BY <1>4, <1>5, <1>8, <1>11, <1>12, WorldInv, Shown DEF Inv, TypeOK

(* A message of the linker is taken.                                       *)
LEMMA TakenWorld ==
  ASSUME Inv, NEW s \in Sockets, NEW type, Incoming(s, type)
  PROVE  /\ Taken(s) \in Worlds /\ Once(Taken(s)) /\ sock[s].is = "open"
         /\ Taken(s).c = client /\ Taken(s).k = sock /\ Taken(s).u = up /\ Taken(s).l = sess
         /\ Sound(World) => /\ Sound(Taken(s)) /\ s = client.ws /\ client.ws # None
                            /\ type = "auth_ok" => sess[s].authed
         /\ Known(World) => Known(Taken(s))
<1>. DEFINE d == [down EXCEPT ![s] = Tail(down[s])]
            w == Taken(s)
<1>1. down \in [Sockets -> Seq(Replies)] /\ World \in Worlds /\ sock[s] = [is |-> "open", on |-> TRUE]
  BY WorldInv, WorldParts DEF Incoming
<1>2. /\ Head(down[s]) = down[s][1] /\ 1 \in DOMAIN down[s] /\ down[s][1] = type
      /\ Tail(down[s]) \in Seq(Replies)
      /\ \A i \in DOMAIN Tail(down[s]) : i + 1 \in DOMAIN down[s] /\ Tail(down[s])[i] = down[s][i + 1]
  BY <1>1, TailIndex DEF Incoming
<1>3. d \in [Sockets -> Seq(Replies)]
  BY <1>1, <1>2
<1>4. w = [World EXCEPT !.d = d]
  BY DEF Taken, World
<1>5. \A t \in Sockets : d[t] = IF t = s THEN Tail(down[s]) ELSE down[t]
  BY <1>1
<1>. HIDE DEF w, d
<1>6. w \in Worlds /\ w.c = client /\ w.k = sock /\ w.u = up /\ w.d = d /\ w.l = sess
  BY <1>1, <1>3, <1>4, WorldInv DEF Worlds
<1>7. Known(World) => Known(w)
  BY <1>6, WorldInv DEF Known
<1>8. ASSUME Sound(World)
      PROVE  Sound(w) /\ s = client.ws /\ client.ws # None /\ (type = "auth_ok" => sess[s].authed)
  <2>1. s = client.ws /\ client.ws # None
    BY <1>1, <1>8, WorldInv, NoneIsNoSocket DEF Sound, Live
  <2>2. \A i \in DOMAIN down[s] : down[s][i] = "auth_ok" => sess[s].authed
    BY <1>8, WorldInv DEF Sound
  <2>3. ASSUME NEW t \in Sockets, NEW i \in DOMAIN d[t], d[t][i] = "auth_ok" PROVE sess[t].authed
    <3>1. CASE t = s
      <4>1. i \in DOMAIN Tail(down[s]) /\ Tail(down[s])[i] = "auth_ok"
        BY <1>5, <2>3, <3>1
      <4>2. i + 1 \in DOMAIN down[s] /\ down[s][i + 1] = "auth_ok"
        BY <1>2, <4>1
      <4>. QED BY <2>2, <3>1, <4>2
    <3>2. CASE t # s
      BY <1>5, <1>8, <2>3, <3>2, WorldInv DEF Sound
    <3>. QED BY <3>1, <3>2
  <2>4. \A t \in Sockets : sock[t].is \notin {"open", "dead"} => d[t] = <<>>
    BY <1>1, <1>5, <1>8, WorldInv DEF Sound
  <2>5. Sound(w)
    BY <1>6, <1>8, <2>3, <2>4, WorldInv DEF Sound
  <2>. QED BY <1>2, <2>1, <2>2, <2>5
<1>9. Once(w)
  BY <1>6, WorldInv DEF Once
<1>. QED BY <1>1, <1>6, <1>7, <1>8, <1>9 DEF w

LEMMA AuthChallengeStep == ASSUME Inv, NEW s \in Sockets, AuthChallenge(s) PROVE Inv'
<1>1. Incoming(s, "auth_challenge") /\ Apply(Taken(s)) /\ UNCHANGED <<losses, user, upset>>
  BY DEF AuthChallenge, bounds
<1>2. signing' \subseteq [agent : Agents, challenge : Sockets]
  BY WorldInv, WorldParts DEF AuthChallenge, Client, Inv, TypeOK
<1>. QED BY <1>1, <1>2, TakenWorld, WorldInv, Shown DEF Inv, TypeOK

Response(sig) == [type |-> "auth_challenge_response", signature |-> sig]

LEMMA SignedStep ==
  ASSUME Inv, NEW j \in signing, NEW sig \in {j, None}, Signed(j, sig)
  PROVE  Inv'
<1>1. /\ Apply(Sent(World, Response(sig))) /\ UNCHANGED <<losses, user, upset>>
      /\ signing' \subseteq [agent : Agents, challenge : Sockets]
  BY DEF Signed, bounds, Response, Inv, TypeOK
<1>2. Response(sig) \in Messages /\ About(Response(sig)) = {}
  BY DEF Response, Messages, About, Inv, TypeOK
<1>3. Sent(World, Response(sig)) \in Worlds /\ Once(Sent(World, Response(sig)))
  BY <1>2, WorldInv, SentWorld DEF Once
<1>4. /\ Sound(World) => Sound(Sent(World, Response(sig)))
      /\ Known(World) => Known(Sent(World, Response(sig)))
  BY <1>2, WorldInv, SentSound, SentKnown
<1>. QED BY <1>1, <1>3, <1>4, WorldInv, Shown DEF Inv, TypeOK

Register(agents) == [type |-> "register", agents |-> agents]
Unregister(agents) == [type |-> "unregister", agents |-> agents]

LEMMA Registering ==
  ASSUME NEW agents \in SUBSET Agents
  PROVE  /\ Register(agents) \in Messages /\ About(Register(agents)) = agents
         /\ Unregister(agents) \in Messages /\ About(Unregister(agents)) = agents
         /\ Register(agents).type = "register" /\ Unregister(agents).type = "unregister"
  BY DEF Register, Unregister, Messages, About

(* handleAuthOk: what waited is sent and counted as registered.            *)
LEMMA AuthOkStep == ASSUME Inv, NEW s \in Sockets, AuthOk(s) PROVE Inv'
<1>. DEFINE b == Taken(s)
            p == client.pend
            c1 == [client EXCEPT !.authed = TRUE, !.pendingAuth = None, !.state = "connected"]
            c2 == [c1 EXCEPT !.regs = @ \cup p, !.pend = {}]
            w == [b EXCEPT !.c = c1]
            v == IF p = {} THEN w ELSE Sent(w, Register(p))
            n == [v EXCEPT !.c = c2]
<1>1. /\ Incoming(s, "auth_ok") /\ UNCHANGED <<signing, losses, user, upset>>
  BY DEF AuthOk, bounds
<1>2. /\ b \in Worlds /\ sock[s].is = "open" /\ b.c = client /\ b.k = sock /\ b.u = up /\ b.l = sess
      /\ Sound(World) => Sound(b) /\ s = client.ws /\ client.ws # None /\ sess[s].authed
  BY <1>1, TakenWorld
<1>3. client \in Client /\ p \in SUBSET Agents /\ up \in [Sockets -> Seq(Messages)]
  BY WorldInv, WorldParts DEF Client
<1>4. /\ c1 \in Client /\ c1.ws = client.ws /\ c2 \in Client
      /\ c2.ws = client.ws /\ c2.authed /\ c2.state = "connected" /\ c2.timer = client.timer
      /\ c2.intentional = client.intentional /\ c2.regs = client.regs \cup p /\ c2.pend = {}
  BY <1>3 DEF Client
<1>5. Apply(n)
  <2>1. [b EXCEPT !.c.authed = TRUE, !.c.pendingAuth = None, !.c.state = "connected"] = w
    BY <1>2
  <2>2. w.c = c1 /\ c1.pend = p
    BY <1>2, <1>3, <1>4, ClientWorld DEF Client
  <2>3. v.c = c1
    <3>1. w \in Worlds
      BY <1>2, <1>4, ClientWorld
    <3>. HIDE DEF w, c1, p
    <3>. QED BY <1>3, <2>2, <3>1, SentWorld, Registering
  <2>4. [v EXCEPT !.c.regs = @ \cup w.c.pend, !.c.pend = {}] = n
    <3>1. w.c.pend = p
      BY <2>2
    <3>. HIDE DEF v, w, p, c1
    <3>. QED BY <2>3, <3>1
  <2>5. AuthOk(s) => Apply([v EXCEPT !.c.regs = @ \cup w.c.pend, !.c.pend = {}])
    <3>. DEFINE w2 == [b EXCEPT !.c.authed = TRUE, !.c.pendingAuth = None, !.c.state = "connected"]
    <3>1. AuthOk(s) => Apply([(IF w2.c.pend = {} THEN w2 ELSE Sent(w2, Register(w2.c.pend))) EXCEPT !.c.regs = @ \cup w2.c.pend, !.c.pend = {}])
      BY DEF AuthOk, Register
    <3>2. w2 = w
      BY <2>1
    <3>. HIDE DEF w2, b, w, c1, p
    <3>. QED BY <2>2, <3>1, <3>2
  <2>. QED BY <2>4, <2>5
<1>6. w \in Worlds /\ w.c = c1 /\ w.k = sock /\ w.u = up /\ w.d = b.d /\ w.l = sess
  <2>. HIDE DEF b, c1, w
  <2>. QED BY <1>2, <1>4, ClientWorld DEF w
<1>7. /\ v \in Worlds /\ v.k = sock /\ v.d = b.d /\ v.l = sess
      /\ \A t \in Sockets : v.u[t] = IF p # {} /\ t = client.ws /\ sock[t].is = "open"
                                     THEN Append(up[t], Register(p)) ELSE up[t]
  <2>. HIDE DEF b, w, c1, p
  <2>1. CASE p = {}
    BY <1>6, <2>1
  <2>2. CASE p # {}
    BY <1>3, <1>4, <1>6, <2>2, Registering, SentWorld
  <2>. QED BY <2>1, <2>2
<1>. HIDE DEF b, p, c1, c2, w, v
<1>8. n \in Worlds /\ n.c = c2 /\ n.k = sock /\ n.u = v.u /\ n.d = b.d /\ n.l = sess
  BY <1>4, <1>7, ClientWorld
<1>. HIDE DEF n
<1>9. Once(n)
  BY <1>4, <1>8 DEF Once
<1>10. Sound(World) => Sound(n)
  <2>. SUFFICES ASSUME Sound(World) PROVE Sound(n)
    OBVIOUS
  <2>1. Sound(b) /\ s = client.ws /\ client.ws # None /\ sess[s].authed
    BY <1>2
  <2>2. \A t \in Sockets : sock[t].is # "open" => n.u[t] = up[t]
    BY <1>7, <1>8
  <2>. QED BY <1>2, <1>4, <1>8, <2>1, <2>2 DEF Sound
<1>11. Sound(World) /\ Known(World) => Known(n)
  <2>. SUFFICES ASSUME Sound(World), Known(World) PROVE Known(n)
    OBVIOUS
  <2>1. s = client.ws /\ client.ws # None /\ sock[s].is = "open" /\ up[s] \in Seq(Messages)
    BY <1>2, <1>3
  <2>2. Agree(up[s], sess[s].regs, client.regs)
    <3>1. CASE client.authed
      BY <2>1, <3>1, WorldInv DEF Known
    <3>2. CASE ~client.authed
      BY <2>1, <3>2, WorldInv, AgreeQuiet DEF Known
    <3>. QED BY <3>1, <3>2
  <2>3. Agree(n.u[s], sess[s].regs, c2.regs)
    <3>1. CASE p = {}
      BY <1>4, <1>7, <1>8, <2>2, <3>1
    <3>2. CASE p # {}
      <4>1. n.u[s] = Append(up[s], Register(p))
        BY <1>7, <1>8, <2>1, <3>2
      <4>. QED BY <1>3, <1>4, <2>1, <2>2, <4>1, Registering, AgreeAppend
    <3>. QED BY <3>1, <3>2
  <2>. QED BY <1>4, <1>8, <2>1, <2>3 DEF Known
<1>. QED BY <1>1, <1>5, <1>8, <1>9, <1>10, <1>11, WorldInv, Shown DEF Inv, TypeOK

(* handleAuthError: on the current session, which had accepted nobody, or  *)
(* late ("refused").                                                       *)
LEMMA AuthErrorStep == ASSUME Inv, NEW s \in Sockets, AuthError(s) PROVE Inv'
<1>. DEFINE b == Taken(s)
            f == client.failed \cup ({client.pendingAuth} \ {None})
            c1 == [client EXCEPT !.authed = FALSE, !.pendingAuth = None, !.failed = f]
            c2 == [c1 EXCEPT !.state = "connected"]
            w == [b EXCEPT !.c = c1]
            n == [b EXCEPT !.c = c2]
<1>1. Incoming(s, "auth_error") /\ Refused(s) /\ UNCHANGED <<signing, losses, user>>
  BY DEF AuthError
<1>2. /\ b \in Worlds /\ sock[s].is = "open" /\ b.c = client /\ b.k = sock /\ b.u = up /\ b.l = sess
      /\ Sound(World) => Sound(b) /\ s = client.ws /\ client.ws # None
      /\ Known(World) => Known(b)
  BY <1>1, TakenWorld
<1>3. client \in Client
  BY WorldInv, WorldParts
<1>4. f \in SUBSET Agents
  BY <1>3 DEF Client
<1>. HIDE DEF f
<1>5. /\ c1 \in Client /\ c1.ws = client.ws /\ ~c1.authed /\ c1.timer = client.timer /\ c1.state = client.state
      /\ c1.intentional = client.intentional /\ c1.regs = client.regs /\ c1.pend = client.pend
      /\ c2 \in Client /\ c2.ws = client.ws /\ ~c2.authed /\ c2.timer = client.timer
      /\ c2.intentional = client.intentional /\ c2.regs = client.regs /\ c2.pend = client.pend
  BY <1>3, <1>4 DEF Client
<1>6. w = [b EXCEPT !.c.authed = FALSE, !.c.pendingAuth = None,
                    !.c.failed = @ \cup ({client.pendingAuth} \ {None})]
  BY <1>2 DEF f
<1>7. n = [w EXCEPT !.c.state = "connected"]
  <2>. HIDE DEF b
  <2>. QED BY <1>2 DEF Worlds
<1>8. /\ Apply(n) \/ \E v \in NextAuth(w, n) : Apply(v)
  <2>. DEFINE w2 == [b EXCEPT !.c.authed = FALSE, !.c.pendingAuth = None,
                              !.c.failed = @ \cup ({client.pendingAuth} \ {None})]
              n2 == [w2 EXCEPT !.c.state = "connected"]
  <2>1. Apply(n2) \/ \E v \in NextAuth(w2, n2) : Apply(v)
    BY DEF AuthError
  <2>2. w2 = w /\ n2 = n
    BY <1>6, <1>7
  <2>. HIDE DEF w2, n2, w, n
  <2>. QED BY <2>1, <2>2
<1>. HIDE DEF b, c1, c2
<1>9. /\ w \in Worlds /\ w.c = c1 /\ w.k = sock /\ w.u = up /\ w.d = b.d /\ w.l = sess
      /\ n \in Worlds /\ n.c = c2 /\ n.k = sock /\ n.u = up /\ n.d = b.d /\ n.l = sess
  BY <1>2, <1>5, ClientWorld
<1>. HIDE DEF w, n
<1>10. Once(w) /\ Once(n)
  BY <1>5, <1>9, WorldInv DEF Once
<1>11. Sound(World) => Sound(w) /\ Sound(n)
  <2>. SUFFICES ASSUME Sound(World) PROVE Sound(w) /\ Sound(n)
    OBVIOUS
  <2>1. Sound(b) /\ client.ws # None
    BY <1>2
  <2>2. ~client.intentional
    BY <2>1, WorldInv DEF Sound
  <2>. QED BY <1>2, <1>5, <1>9, <2>1, <2>2 DEF Sound
<1>12. upset' = {} => upset = {} /\ ~sess[s].authed
  BY <1>1 DEF Refused
<1>13. Sound(World) /\ Known(World) /\ ~sess[s].authed => Known(w) /\ Known(n)
  <2>. SUFFICES ASSUME Sound(World), Known(World), ~sess[s].authed PROVE Known(w) /\ Known(n)
    OBVIOUS
  <2>1. ~client.authed
    BY <1>2, WorldInv DEF Sound
  <2>. QED BY <1>5, <1>9, <2>1, WorldInv DEF Known
<1>14. PICK v \in {n} \cup {Authenticating(w, a) : a \in Agents} : Apply(v)
  <2>1. NextAuth(w, n) \subseteq {n} \cup {Authenticating(w, a) : a \in Agents}
    BY <1>3, <1>5, <1>9 DEF NextAuth, Client
  <2>. QED BY <1>8, <2>1
<1>15. /\ v \in Worlds /\ Once(v) /\ (Sound(World) => Sound(v))
       /\ (Sound(World) /\ Known(World) /\ ~sess[s].authed => Known(v))
  <2>1. CASE v = n
    BY <1>9, <1>10, <1>11, <1>13, <2>1
  <2>2. ASSUME NEW a \in Agents, v = Authenticating(w, a)
        PROVE  /\ v \in Worlds /\ Once(v) /\ (Sound(World) => Sound(v))
               /\ (Sound(World) /\ Known(World) /\ ~sess[s].authed => Known(v))
    BY <1>2, <1>5, <1>9, <1>10, <1>11, <1>13, <2>2, AuthenticatingSound DEF Once
  <2>. QED BY <2>1, <2>2
<1>16. "crossed" \notin upset' => "crossed" \notin upset
  BY <1>1 DEF Refused
<1>17. upset' \subseteq {"crossed", "kept", "refused"}
  BY <1>1 DEF Refused, Inv, TypeOK
<1>. QED BY <1>1, <1>12, <1>14, <1>15, <1>16, <1>17, WorldInv, Shown DEF Inv, TypeOK

LEMMA RegisterStep == ASSUME Inv, NEW a \in Agents, RegisterAgent(a) PROVE Inv'
<1>. DEFINE c1 == [client EXCEPT !.regs = IF a \in Tracked THEN @ ELSE @ \cup {a}]
            c2 == [client EXCEPT !.pend = IF a \in Tracked THEN @ ELSE @ \cup {a}]
            v == [World EXCEPT !.c = c1]
            w == [World EXCEPT !.c = c2]
            m == Register({a})
<1>1. World \in Worlds /\ client \in Client /\ m \in Messages /\ About(m) = {a} /\ m.type = "register"
  BY WorldInv, WorldParts, Registering
<1>2. UNCHANGED <<signing, losses, upset>> /\ user' \in 0..MaxUser
  <2>1. user' \in 0..MaxUser
    BY BoundsAssumption DEF RegisterAgent, Inv, TypeOK
  <2>. QED BY <2>1 DEF RegisterAgent
<1>3. /\ c1 \in Client /\ c1.ws = client.ws /\ c1.authed = client.authed /\ c1.timer = client.timer
      /\ c1.state = client.state /\ c1.intentional = client.intentional /\ c1.pend = client.pend
      /\ c1.regs = (IF a \in Tracked THEN client.regs ELSE client.regs \cup {a})
  BY <1>1 DEF Client
<1>4. /\ c2 \in Client /\ c2.ws = client.ws /\ c2.authed = client.authed /\ c2.timer = client.timer
      /\ c2.state = client.state /\ c2.intentional = client.intentional /\ c2.regs = client.regs
      /\ c2.pend = (IF a \in Tracked THEN client.pend ELSE client.pend \cup {a})
  BY <1>1 DEF Client
<1>5. \/ client.authed /\ client.state = "connected" /\ Apply(Sent(v, m))
      \/ /\ ~(client.authed /\ client.state = "connected")
         /\ \/ client.ws # None /\ ~client.authed /\ Apply(Authenticating(w, a))
            \/ Apply(w)
  <2>1. /\ v = [World EXCEPT !.c.regs = IF a \in Tracked THEN @ ELSE @ \cup {a}]
        /\ w = [World EXCEPT !.c.pend = IF a \in Tracked THEN @ ELSE @ \cup {a}]
    BY DEF World
  <2>. DEFINE v2 == [World EXCEPT !.c.regs = IF a \in Tracked THEN @ ELSE @ \cup {a}]
              w2 == [World EXCEPT !.c.pend = IF a \in Tracked THEN @ ELSE @ \cup {a}]
  <2>2. \/ client.authed /\ client.state = "connected" /\ Apply(Sent(v2, m))
        \/ /\ ~(client.authed /\ client.state = "connected")
           /\ \/ client.ws # None /\ ~client.authed /\ Apply(Authenticating(w2, a))
              \/ Apply(w2)
    BY DEF RegisterAgent, Register
  <2>3. v2 = v /\ w2 = w
    BY <2>1
  <2>. HIDE DEF v, w, v2, w2
  <2>. QED BY <2>2, <2>3
<1>. HIDE DEF c1, c2, m
<1>6. /\ v \in Worlds /\ v.c = c1 /\ v.k = sock /\ v.u = up /\ v.d = down /\ v.l = sess
      /\ w \in Worlds /\ w.c = c2 /\ w.k = sock /\ w.u = up /\ w.d = down /\ w.l = sess
  BY <1>1, <1>3, <1>4, WorldInv, ClientWorld
<1>. HIDE DEF v, w
<1>7. Once(v) /\ Once(w)
  BY <1>3, <1>4, <1>6, WorldInv DEF Once, Tracked
<1>8. CASE client.authed /\ client.state = "connected"
  <2>. DEFINE n == Sent(v, m)
  <2>1. /\ Apply(n) /\ n \in Worlds /\ n.c = c1 /\ n.k = sock /\ n.l = sess
        /\ \A s \in Sockets : n.u[s] = IF s = client.ws /\ sock[s].is = "open" THEN Append(up[s], m) ELSE up[s]
    BY <1>1, <1>3, <1>5, <1>6, <1>8, SentWorld
  <2>2. Sound(World) => Sound(v)
    BY <1>3, <1>6, WorldInv DEF Sound
  <2>3. Sound(World) => Sound(n)
    BY <1>1, <1>6, <2>2, SentSound
  <2>. HIDE DEF n
  <2>4. Sound(World) /\ Known(World) => Known(n)
    <3>. SUFFICES ASSUME Sound(World), Known(World) PROVE Known(n)
      OBVIOUS
    <3>1. client.ws \in Sockets /\ client.pend = {} /\ up[client.ws] \in Seq(Messages)
      BY <1>1, <1>8, WorldInv, WorldParts DEF Sound, Client
    <3>2. a \in c1.regs /\ \A b \in Agents : b # a => (b \in client.regs <=> b \in c1.regs)
      BY <1>3, <3>1 DEF Tracked
    <3>3. ASSUME sock[client.ws].is = "open"
          PROVE  Agree(n.u[client.ws], sess[client.ws].regs, c1.regs)
      <4>1. Agree(up[client.ws], sess[client.ws].regs, client.regs)
        BY <1>8, <3>1, <3>3, WorldInv, NoneIsNoSocket DEF Known
      <4>2. n.u[client.ws] = Append(up[client.ws], m)
        BY <2>1, <3>1, <3>3
      <4>. QED BY <1>1, <3>1, <3>2, <4>1, <4>2, AgreeAppend
    <3>. QED BY <1>3, <1>8, <2>1, <3>3 DEF Known
  <2>5. Once(n)
    BY <1>6, <1>7, <2>1 DEF Once
  <2>. QED BY <1>2, <2>1, <2>3, <2>4, <2>5, WorldInv, Shown DEF Inv, TypeOK
<1>9. CASE ~(client.authed /\ client.state = "connected")
  <2>1. Sound(World) => ~client.authed
    BY <1>9, WorldInv DEF Sound
  <2>2. Sound(World) => Sound(w)
    BY <1>4, <1>6, <2>1, WorldInv DEF Sound
  <2>3. Known(World) => Known(w)
    BY <1>4, <1>6, WorldInv DEF Known
  <2>4. CASE Apply(w)
    BY <1>2, <1>6, <1>7, <2>2, <2>3, <2>4, WorldInv, Shown DEF Inv, TypeOK
  <2>5. CASE client.ws # None /\ ~client.authed /\ Apply(Authenticating(w, a))
    <3>1. /\ Authenticating(w, a) \in Worlds /\ Once(Authenticating(w, a))
          /\ Sound(w) => Sound(Authenticating(w, a))
          /\ Sound(w) /\ Known(w) => Known(Authenticating(w, a))
      BY <1>4, <1>6, <1>7, <2>5, AuthenticatingSound DEF Once
    <3>. QED BY <1>2, <2>2, <2>3, <2>5, <3>1, WorldInv, Shown DEF Inv, TypeOK
  <2>. QED BY <1>5, <1>9, <2>4, <2>5
<1>. QED BY <1>8, <1>9

LEMMA UnregisterStep == ASSUME Inv, NEW a \in Agents, UnregisterAgent(a) PROVE Inv'
<1>. DEFINE c == [client EXCEPT !.regs = @ \ {a}, !.pend = @ \ {a}]
            w == [World EXCEPT !.c = c]
            m == Unregister({a})
<1>1. World \in Worlds /\ client \in Client /\ m \in Messages /\ About(m) = {a} /\ m.type = "unregister"
  BY WorldInv, WorldParts, Registering DEF Unregister
<1>2. UNCHANGED <<signing, losses, upset>> /\ user' \in 0..MaxUser
  <2>1. user' \in 0..MaxUser
    BY BoundsAssumption DEF UnregisterAgent, Inv, TypeOK
  <2>. QED BY <2>1 DEF UnregisterAgent
<1>3. /\ c \in Client /\ c.ws = client.ws /\ c.authed = client.authed /\ c.timer = client.timer
      /\ c.state = client.state /\ c.intentional = client.intentional /\ c.pend = client.pend \ {a}
      /\ c.regs = client.regs \ {a}
  BY <1>1 DEF Client
<1>4. IF client.authed /\ client.state = "connected" THEN Apply(Sent(w, m)) ELSE Apply(w)
  <2>. DEFINE w2 == [World EXCEPT !.c.regs = @ \ {a}, !.c.pend = @ \ {a}]
  <2>1. w2 = w
    BY DEF World
  <2>2. IF client.authed /\ client.state = "connected" THEN Apply(Sent(w2, m)) ELSE Apply(w2)
    BY DEF UnregisterAgent, Unregister
  <2>. HIDE DEF w, w2
  <2>. QED BY <2>1, <2>2
<1>. HIDE DEF c, m
<1>5. w \in Worlds /\ w.c = c /\ w.k = sock /\ w.u = up /\ w.d = down /\ w.l = sess
  BY <1>1, <1>3, WorldInv, ClientWorld
<1>. HIDE DEF w
<1>6. Once(w)
  BY <1>3, <1>5, WorldInv DEF Once
<1>7. Sound(World) => Sound(w)
  BY <1>3, <1>5, WorldInv DEF Sound
<1>8. CASE client.authed /\ client.state = "connected"
  <2>. DEFINE n == Sent(w, m)
  <2>1. /\ Apply(n) /\ n \in Worlds /\ n.c = c /\ n.k = sock /\ n.l = sess
        /\ \A s \in Sockets : n.u[s] = IF s = client.ws /\ sock[s].is = "open" THEN Append(up[s], m) ELSE up[s]
    BY <1>1, <1>3, <1>4, <1>5, <1>8, SentWorld
  <2>2. Sound(World) => Sound(n)
    BY <1>1, <1>5, <1>7, SentSound
  <2>. HIDE DEF n
  <2>3. Sound(World) /\ Known(World) => Known(n)
    <3>. SUFFICES ASSUME Sound(World), Known(World) PROVE Known(n)
      OBVIOUS
    <3>1. client.ws \in Sockets /\ up[client.ws] \in Seq(Messages)
      BY <1>1, <1>8, WorldInv, WorldParts DEF Sound, Client
    <3>2. ASSUME sock[client.ws].is = "open"
          PROVE  Agree(n.u[client.ws], sess[client.ws].regs, c.regs)
      <4>1. Agree(up[client.ws], sess[client.ws].regs, client.regs)
        BY <1>8, <3>1, <3>2, WorldInv, NoneIsNoSocket DEF Known
      <4>2. n.u[client.ws] = Append(up[client.ws], m)
        BY <2>1, <3>1, <3>2
      <4>. QED BY <1>1, <1>3, <3>1, <4>1, <4>2, AgreeAppend
    <3>. QED BY <1>3, <1>8, <2>1, <3>2 DEF Known
  <2>4. Once(n)
    BY <1>5, <1>6, <2>1 DEF Once
  <2>. QED BY <1>2, <2>1, <2>2, <2>3, <2>4, WorldInv, Shown DEF Inv, TypeOK
<1>9. CASE ~(client.authed /\ client.state = "connected")
  <2>1. Sound(World) /\ Known(World) => Known(w)
    BY <1>3, <1>5, <1>9, WorldInv DEF Sound, Known
  <2>. QED BY <1>2, <1>4, <1>5, <1>6, <1>7, <1>9, <2>1, WorldInv, Shown DEF Inv, TypeOK
<1>. QED BY <1>8, <1>9

(* Closing and opening by hand.                                            *)
LEMMA DisconnectedOnce ==
  ASSUME NEW w \in Worlds, Once(w)
  PROVE  Once(Disconnected(w))
<1>1. Disconnected(w).c = [Idle(w.c) EXCEPT !.intentional = TRUE, !.state = "disconnected"] /\ w.c \in Client
  BY DisconnectedWorld, WorldParts
<1>2. Disconnected(w).c.regs = w.c.regs /\ Disconnected(w).c.pend = w.c.pend
  BY <1>1 DEF Idle, Client
<1>. QED BY <1>2 DEF Once

LEMMA UserTypes ==
  ASSUME Inv, NEW op, UserOp(op)
  PROVE  user' \in 0..MaxUser
  BY BoundsAssumption DEF UserOp, Inv, TypeOK

LEMMA DisconnectStep == ASSUME Inv, Disconnect PROVE Inv'
<1>1. Apply(Disconnected(World)) /\ UNCHANGED <<signing, losses>> /\ user' \in 0..MaxUser
  BY UserTypes DEF Disconnect
<1>2. /\ upset' \subseteq {"crossed", "kept", "refused"}
      /\ "crossed" \notin upset' => "crossed" \notin upset
      /\ upset' = {} => upset = {} /\ client.regs = {}
  BY DEF Disconnect, Keeps, Inv, TypeOK
<1>3. Disconnected(World) \in Worlds /\ Once(Disconnected(World))
  BY WorldInv, DisconnectedWorld, DisconnectedOnce
<1>4. Sound(World) => Sound(Disconnected(World)) /\ (client.regs = {} => Known(Disconnected(World)))
  BY WorldInv, DisconnectedSound
<1>. QED BY <1>1, <1>2, <1>3, <1>4, WorldInv, Shown DEF Inv, TypeOK

LEMMA ReconnectStep == ASSUME Inv, Reconnect PROVE Inv'
<1>1. PICK s \in Fresh : Apply(Connected(World, s))
  BY DEF Reconnect
<1>2. UNCHANGED <<signing, losses>> /\ user' \in 0..MaxUser
  BY UserTypes DEF Reconnect
<1>3. /\ upset' \subseteq {"crossed", "kept", "refused"}
      /\ "crossed" \notin upset' => "crossed" \notin upset /\ ~client.timer
      /\ upset' = {} => upset = {}
  BY DEF Reconnect, Inv, TypeOK
<1>4. s \in Sockets /\ sock[s].is = "unused"
  BY FreshSocket
<1>5. Connected(World, s) \in Worlds /\ Once(Connected(World, s))
  BY <1>4, WorldInv, ConnectedWorld, ConnectedOnce
<1>6. /\ Sound(World) /\ ~client.timer => Sound(Connected(World, s))
      /\ Sound(World) /\ Known(World) => Known(Connected(World, s))
  BY <1>4, WorldInv, ConnectedSound, ConnectedKnown
<1>. QED BY <1>1, <1>2, <1>3, <1>5, <1>6, WorldInv, Shown DEF Inv, TypeOK

LEMMA ReauthStep == ASSUME Inv, TriggerReauth PROVE Inv'
<1>. DEFINE b == Disconnected(World)
<1>1. PICK s \in Fresh : Apply(Connected(b, s))
  BY DEF TriggerReauth
<1>2. UNCHANGED <<signing, losses>> /\ user' \in 0..MaxUser
  BY UserTypes DEF TriggerReauth
<1>3. /\ upset' \subseteq {"crossed", "kept", "refused"}
      /\ "crossed" \notin upset' => "crossed" \notin upset
      /\ upset' = {} => upset = {} /\ client.regs = {}
  BY DEF TriggerReauth, Keeps, Inv, TypeOK
<1>4. s \in Sockets /\ sock[s].is = "unused"
  BY FreshSocket
<1>5. b \in Worlds /\ Once(b)
  BY WorldInv, DisconnectedWorld, DisconnectedOnce
<1>6. Sound(World) => /\ Sound(b) /\ ~b.c.timer /\ b.k[s].is = "unused"
                      /\ client.regs = {} => Known(b)
  <2>1. Sound(World) => s # client.ws
    BY <1>4, WorldInv, NoneIsNoSocket DEF Sound, Live
  <2>. QED BY <1>4, <2>1, WorldInv, DisconnectedSound
<1>. HIDE DEF b
<1>7. Connected(b, s) \in Worlds /\ Once(Connected(b, s))
  BY <1>4, <1>5, ConnectedWorld, ConnectedOnce
<1>8. Sound(World) => /\ Sound(Connected(b, s))
                      /\ client.regs = {} => Known(Connected(b, s))
  BY <1>4, <1>5, <1>6, ConnectedSound, ConnectedKnown
<1>. QED BY <1>1, <1>2, <1>3, <1>7, <1>8, WorldInv, Shown DEF Inv, TypeOK

(* The linker takes a message of an open socket and answers.               *)
LEMMA AnswersStep ==
  ASSUME Inv, NEW s \in Sockets, sock[s].is = "open", up[s] # <<>>,
         NEW session \in SessionRecord, NEW answer \in Seq(Replies), Answers(s, session, answer),
         sess[s].authed => session.authed,
         \A i \in DOMAIN answer : answer[i] = "auth_ok" => session.authed,
         \A a \in Agents : IF a \in About(Head(up[s]))
                           THEN sess[s].authed => (Head(up[s]).type = "register" <=> a \in session.regs)
                           ELSE a \in sess[s].regs <=> a \in session.regs
  PROVE  Inv'
<1>. DEFINE u == [up EXCEPT ![s] = Tail(up[s])]
            d == [down EXCEPT ![s] = down[s] \o answer]
            l == [sess EXCEPT ![s] = session]
            w == [c |-> client, k |-> sock, u |-> u, d |-> d, l |-> l]
<1>1. /\ client \in Client /\ sock \in [Sockets -> Socket] /\ up \in [Sockets -> Seq(Messages)]
      /\ down \in [Sockets -> Seq(Replies)] /\ sess \in [Sockets -> SessionRecord]
  BY WorldInv, WorldParts
<1>2. Apply(w) /\ UNCHANGED <<signing, losses, user, upset>>
  BY DEF Answers, Apply, bounds
<1>3. /\ Tail(up[s]) \in Seq(Messages)
      /\ \A i \in DOMAIN Tail(up[s]) : i + 1 \in DOMAIN up[s] /\ Tail(up[s])[i] = up[s][i + 1]
      /\ 1 \in DOMAIN up[s] /\ Head(up[s]) = up[s][1]
  BY <1>1, TailIndex
<1>4. /\ down[s] \o answer \in Seq(Replies)
      /\ \A i \in DOMAIN (down[s] \o answer) :
           \/ i \in DOMAIN down[s] /\ (down[s] \o answer)[i] = down[s][i]
           \/ \E j \in DOMAIN answer : (down[s] \o answer)[i] = answer[j]
  <2>1. down[s] \in Seq(Replies)
    BY <1>1
  <2>2. /\ down[s] \o answer \in Seq(Replies)
        /\ Len(down[s] \o answer) = Len(down[s]) + Len(answer)
        /\ \A i \in 1 .. Len(down[s]) + Len(answer) :
             (down[s] \o answer)[i] = IF i <= Len(down[s]) THEN down[s][i] ELSE answer[i - Len(down[s])]
    BY <2>1, ConcatProperties
  <2>3. ASSUME NEW i \in DOMAIN (down[s] \o answer), i > Len(down[s])
        PROVE  i - Len(down[s]) \in DOMAIN answer /\ (down[s] \o answer)[i] = answer[i - Len(down[s])]
    BY <2>1, <2>2, <2>3
  <2>4. ASSUME NEW i \in DOMAIN (down[s] \o answer), i <= Len(down[s])
        PROVE  i \in DOMAIN down[s] /\ (down[s] \o answer)[i] = down[s][i]
    BY <2>1, <2>2, <2>4
  <2>5. \A i \in DOMAIN (down[s] \o answer) : i > Len(down[s]) \/ i <= Len(down[s])
    BY <2>1, <2>2
  <2>. QED BY <2>2, <2>3, <2>4, <2>5
<1>5. u \in [Sockets -> Seq(Messages)] /\ d \in [Sockets -> Seq(Replies)] /\ l \in [Sockets -> SessionRecord]
  BY <1>1, <1>3, <1>4
<1>6. \A t \in Sockets : /\ u[t] = (IF t = s THEN Tail(up[s]) ELSE up[t])
                         /\ d[t] = (IF t = s THEN down[s] \o answer ELSE down[t])
                         /\ l[t] = (IF t = s THEN session ELSE sess[t])
  BY <1>1
<1>. HIDE DEF u, d, l
<1>7. w \in Worlds /\ Once(w)
  BY <1>1, <1>5, WorldInv DEF Worlds, Once
<1>8. ASSUME Sound(World) PROVE Sound(w)
  <2>1. ASSUME NEW t \in Sockets, NEW i \in DOMAIN d[t], d[t][i] = "auth_ok" PROVE l[t].authed
    <3>1. CASE t = s
      <4>1. i \in DOMAIN (down[s] \o answer) /\ (down[s] \o answer)[i] = "auth_ok"
        BY <1>6, <2>1, <3>1
      <4>2. CASE i \in DOMAIN down[s] /\ (down[s] \o answer)[i] = down[s][i]
        BY <1>6, <1>8, <3>1, <4>1, <4>2, WorldInv DEF Sound
      <4>3. CASE \E j \in DOMAIN answer : (down[s] \o answer)[i] = answer[j]
        BY <1>6, <3>1, <4>1, <4>3
      <4>. QED BY <1>4, <4>1, <4>2, <4>3
    <3>2. CASE t # s
      BY <1>6, <1>8, <2>1, <3>2, WorldInv DEF Sound
    <3>. QED BY <3>1, <3>2
  <2>2. \A t \in Sockets : sock[t].is \notin {"open", "dead"} => u[t] = <<>> /\ d[t] = <<>> /\ l[t] = NoSession
    BY <1>6, <1>8, WorldInv DEF Sound
  <2>3. client.authed => client.ws # None /\ client.ws \in Sockets /\ l[client.ws].authed
    <3>1. client.authed => client.ws # None /\ client.ws \in Sockets /\ sess[client.ws].authed
      BY <1>1, <1>8, WorldInv DEF Sound, Client
    <3>. QED BY <1>6, <3>1
  <2>. QED BY <1>8, <2>1, <2>2, <2>3, WorldInv DEF Sound
<1>9. ASSUME Sound(World), Known(World) PROVE Known(w)
  <2>1. s = client.ws /\ client.ws # None
    BY <1>9, WorldInv, NoneIsNoSocket DEF Sound, Live
  <2>2. u[s] = Tail(up[s]) /\ l[s] = session
    BY <1>6
  <2>3. CASE ~client.authed
    <3>1. /\ client.regs = {} /\ sess[s].regs = {} /\ \A i \in DOMAIN up[s] : About(up[s][i]) = {}
      BY <1>9, <2>1, <2>3, WorldInv DEF Known
    <3>2. \A i \in DOMAIN u[s] : About(u[s][i]) = {}
      BY <1>3, <2>2, <3>1
    <3>3. session.regs = {}
      BY <1>3, <3>1 DEF SessionRecord
    <3>. QED BY <2>1, <2>2, <2>3, <3>1, <3>2, <3>3 DEF Known
  <2>4. CASE client.authed
    <3>1. Agree(up[s], sess[s].regs, client.regs) /\ sess[s].authed
      BY <1>9, <2>1, <2>4, WorldInv DEF Known, Sound
    <3>2. Agree(Tail(up[s]), session.regs, client.regs)
      BY <1>1, <3>1, AgreeTail
    <3>. QED BY <2>1, <2>2, <2>4, <3>2 DEF Known
  <2>. QED BY <2>3, <2>4
<1>. HIDE DEF w
<1>. QED BY <1>2, <1>7, <1>8, <1>9, WorldInv, Shown DEF Inv, TypeOK

LEMMA LinkerStep == ASSUME Inv, NEW s \in Sockets, Linker(s) PROVE Inv'
<1>1. /\ sess \in [Sockets -> SessionRecord] /\ sess[s] \in SessionRecord
      /\ sess[s].pending \in Agents \cup {None} /\ sess[s].regs \in SUBSET Agents
  BY WorldInv, WorldParts DEF SessionRecord
<1>2. sock[s].is = "open" /\ up[s] # <<>>
  BY DEF Linker, LinkerAuth, LinkerVerify, LinkerRegister, LinkerUnregister, Request
<1>3. Head(up[s]) \in Messages
  <2>1. up[s] \in Seq(Messages)
    BY WorldInv, WorldParts
  <2>. QED BY <1>2, <2>1
<1>4. <<>> \in Seq(Replies) /\ DOMAIN <<>> = {} /\ \A r \in Replies : <<r>> \in Seq(Replies) /\ DOMAIN <<r>> = {1} /\ <<r>>[1] = r
  OBVIOUS
<1>5. {"auth_challenge", "auth_ok", "auth_error"} \subseteq Replies
  BY DEF Replies
<1>6. CASE LinkerAuth(s)
  <2>1. Head(up[s]).agent \in Agents /\ About(Head(up[s])) = {}
    BY <1>3, <1>6 DEF LinkerAuth, Request, Messages, About
  <2>. DEFINE asked == [sess[s] EXCEPT !.pending = Head(up[s]).agent]
              taken == [sess[s] EXCEPT !.authed = TRUE]
  <2>2. /\ asked \in SessionRecord /\ asked.authed = sess[s].authed /\ asked.regs = sess[s].regs
        /\ taken \in SessionRecord /\ taken.authed /\ taken.regs = sess[s].regs
    BY <1>1, <2>1 DEF SessionRecord
  <2>3. Answers(s, asked, <<"auth_challenge">>) \/ Answers(s, taken, <<"auth_ok">>)
    BY <1>6 DEF LinkerAuth
  <2>. HIDE DEF asked, taken
  <2>4. CASE Answers(s, asked, <<"auth_challenge">>)
    <3>1. <<"auth_challenge">> \in Seq(Replies) /\ \A i \in DOMAIN <<"auth_challenge">> : <<"auth_challenge">>[i] # "auth_ok"
      BY <1>4, <1>5
    <3>. QED BY <1>2, <2>1, <2>2, <2>4, <3>1, AnswersStep
  <2>5. CASE Answers(s, taken, <<"auth_ok">>)
    BY <1>2, <1>4, <1>5, <2>1, <2>2, <2>5, AnswersStep
  <2>. QED BY <2>3, <2>4, <2>5
<1>7. CASE LinkerVerify(s)
  <2>1. About(Head(up[s])) = {}
    BY <1>7 DEF LinkerVerify, Request, About
  <2>. DEFINE valid == /\ Head(up[s]).signature = [agent |-> sess[s].pending, challenge |-> s]
                       /\ sess[s].pending \in Allowed
              next == [sess[s] EXCEPT !.pending = None, !.authed = @ \/ valid]
              answer == IF valid THEN <<"auth_ok">> ELSE <<"auth_error">>
  <2>2. Answers(s, next, answer)
    BY <1>7 DEF LinkerVerify
  <2>3. (answer = <<"auth_ok">> /\ valid) \/ answer = <<"auth_error">>
    OBVIOUS
  <2>. HIDE DEF valid
  <2>4. /\ next \in SessionRecord /\ (next.authed <=> sess[s].authed \/ valid) /\ next.regs = sess[s].regs
    BY <1>1 DEF SessionRecord
  <2>. HIDE DEF next, answer
  <2>5. answer \in Seq(Replies) /\ \A i \in DOMAIN answer : answer[i] = "auth_ok" => next.authed
    <3>1. CASE answer = <<"auth_ok">> /\ valid
      BY <1>4, <1>5, <2>4, <3>1
    <3>2. CASE answer = <<"auth_error">>
      BY <1>4, <1>5, <3>2
    <3>. QED BY <2>3, <3>1, <3>2
  <2>6. \A a \in Agents : IF a \in About(Head(up[s]))
                           THEN sess[s].authed => (Head(up[s]).type = "register" <=> a \in next.regs)
                           ELSE a \in sess[s].regs <=> a \in next.regs
    BY <2>1, <2>4
  <2>7. sess[s].authed => next.authed
    BY <2>4
  <2>. QED BY <1>2, <2>2, <2>4, <2>5, <2>6, <2>7, AnswersStep
<1>8. CASE LinkerRegister(s)
  <2>1. /\ Head(up[s]).agents \in SUBSET Agents /\ About(Head(up[s])) = Head(up[s]).agents
        /\ Head(up[s]).type = "register"
    BY <1>3, <1>8 DEF LinkerRegister, Request, Messages, About
  <2>. DEFINE next == [sess[s] EXCEPT !.regs = IF sess[s].authed THEN @ \cup Head(up[s]).agents ELSE @]
  <2>2. Answers(s, next, <<>>)
    BY <1>8 DEF LinkerRegister
  <2>3. /\ next \in SessionRecord /\ next.authed = sess[s].authed
        /\ next.regs = IF sess[s].authed THEN sess[s].regs \cup Head(up[s]).agents ELSE sess[s].regs
    BY <1>1, <2>1 DEF SessionRecord
  <2>. HIDE DEF next
  <2>4. \A a \in Agents : IF a \in About(Head(up[s]))
                           THEN sess[s].authed => (Head(up[s]).type = "register" <=> a \in next.regs)
                           ELSE a \in sess[s].regs <=> a \in next.regs
    BY <2>1, <2>3
  <2>5. \A i \in DOMAIN <<>> : <<>>[i] = "auth_ok" => next.authed
    BY <1>4
  <2>. QED BY <1>2, <1>4, <2>2, <2>3, <2>4, <2>5, AnswersStep
<1>9. CASE LinkerUnregister(s)
  <2>1. /\ Head(up[s]).agents \in SUBSET Agents /\ About(Head(up[s])) = Head(up[s]).agents
        /\ Head(up[s]).type = "unregister"
    BY <1>3, <1>9 DEF LinkerUnregister, Request, Messages, About
  <2>. DEFINE next == [sess[s] EXCEPT !.regs = @ \ Head(up[s]).agents]
  <2>2. Answers(s, next, <<>>)
    BY <1>9 DEF LinkerUnregister
  <2>3. next \in SessionRecord /\ next.authed = sess[s].authed /\ next.regs = sess[s].regs \ Head(up[s]).agents
    BY <1>1, <2>1 DEF SessionRecord
  <2>. HIDE DEF next
  <2>4. \A a \in Agents : IF a \in About(Head(up[s]))
                           THEN sess[s].authed => (Head(up[s]).type = "register" <=> a \in next.regs)
                           ELSE a \in sess[s].regs <=> a \in next.regs
    BY <2>1, <2>3
  <2>5. \A i \in DOMAIN <<>> : <<>>[i] = "auth_ok" => next.authed
    BY <1>4
  <2>. QED BY <1>2, <1>4, <2>2, <2>3, <2>4, <2>5, AnswersStep
<1>. QED BY <1>6, <1>7, <1>8, <1>9 DEF Linker

LEMMA InitInv == Init => Inv
<1>. SUFFICES ASSUME Init PROVE Inv
  OBVIOUS
<1>1. /\ client = [ws |-> None, state |-> "disconnected", authed |-> FALSE, pendingAuth |-> None,
                   failed |-> {}, regs |-> {}, pend |-> {}, timer |-> FALSE, intentional |-> FALSE]
      /\ signing = {} /\ losses = 0 /\ user = 0 /\ upset = {}
  BY DEF Init
<1>2. /\ sock = [s \in Sockets |-> [is |-> "unused", on |-> FALSE]]
      /\ up = [s \in Sockets |-> <<>>] /\ down = [s \in Sockets |-> <<>>]
      /\ sess = [s \in Sockets |-> NoSession]
  BY DEF Init
<1>3. client \in Client /\ client.regs \cap client.pend = {}
  BY <1>1 DEF Client
<1>4. /\ sock \in [Sockets -> Socket] /\ sess \in [Sockets -> SessionRecord]
      /\ up \in [Sockets -> Seq(Messages)] /\ down \in [Sockets -> Seq(Replies)]
  <2>1. [is |-> "unused", on |-> FALSE] \in Socket /\ NoSession \in SessionRecord
    BY DEF Socket, Live, SessionRecord, NoSession
  <2>. QED BY <1>2, <2>1
<1>5. TypeOK
  BY <1>1, <1>3, <1>4, BoundsAssumption DEF TypeOK, Client, Socket, SessionRecord, Replies
<1>6. /\ World.c = client /\ World.k = sock /\ World.u = up /\ World.d = down /\ World.l = sess
      /\ client.ws = None /\ ~client.authed /\ ~client.timer /\ ~client.intentional /\ client.regs = {}
  BY <1>1 DEF World
<1>7. Sound(World)
  BY <1>2, <1>6 DEF Sound, Live
<1>8. Known(World)
  BY <1>6 DEF Known
<1>. QED BY <1>5, <1>7, <1>8 DEF Inv

LEMMA NextInv == Inv /\ [Next]_vars => Inv'
<1>. SUFFICES ASSUME Inv, [Next]_vars PROVE Inv'
  OBVIOUS
<1>1. CASE UNCHANGED vars
  <2>1. World' = World /\ TypeOK'
    BY <1>1 DEF vars, World, Inv, TypeOK
  <2>. QED BY <1>1, <2>1 DEF vars, Inv
<1>2. CASE Start
  BY <1>2, StartStep
<1>3. ASSUME NEW s \in Sockets, Open(s) \/ Lose(s) \/ Die(s) \/ Receive(s) \/ Linker(s) PROVE Inv'
  BY <1>3, OpenStep, LoseStep, DieStep, AuthChallengeStep, AuthOkStep, AuthErrorStep, LinkerStep DEF Receive
<1>4. CASE Timers
  BY <1>4, HeartbeatStep, ReconnectTimerStep DEF Timers
<1>5. ASSUME NEW j \in signing, Signed(j, j) \/ SignFailed(j) PROVE Inv'
  BY <1>5, SignedStep DEF SignFailed
<1>6. ASSUME NEW a \in Agents, RegisterAgent(a) \/ UnregisterAgent(a) PROVE Inv'
  BY <1>6, RegisterStep, UnregisterStep
<1>7. CASE Disconnect \/ Reconnect \/ TriggerReauth
  BY <1>7, DisconnectStep, ReconnectStep, ReauthStep
<1>. QED BY <1>1, <1>2, <1>3, <1>4, <1>5, <1>6, <1>7 DEF Next

(***************************************************************************)
(* The theorems                                                            *)
(***************************************************************************)
(* The inductive invariant: one socket that lives, and messages under way  *)
(* that, once they arrive, make the linker know whom the client counts as  *)
(* registered (websocket-service.ts:306 to 353, 480 to 527, 825).          *)
THEOREM Invariance == Spec => []Inv
  BY InitInv, NextInv, PTL DEF Spec

(* The variables have their types and no agent is tracked twice, whatever  *)
(* the client, the linker and the network do (websocket-service.ts).       *)
THEOREM TypeCorrect == Spec => []TypeOK
<1>1. Inv => TypeOK
  BY DEF Inv
<1>. QED BY <1>1, Invariance, PTL

(* What the client tells of its connection is true, and what it takes for  *)
(* registered the linker knows, until one of the named requests upsets it, *)
(* for any number of agents, sockets, losses and requests                  *)
(* (websocket-service.ts:260, 475 and 560).                                *)
THEOREM SocketIsTruthful == Spec => []SocketTruthful
<1>1. Inv => SocketTruthful
  <2>. SUFFICES ASSUME Inv PROVE SocketTruthful
    OBVIOUS
  <2>1. Sound(World) => SocketAgrees
    BY WorldInv DEF Sound, SocketAgrees, SingleSocket, AuthedTruth, StaysDisconnected
  <2>2. ASSUME upset = {} PROVE RegisteredKnown
    <3>. SUFFICES ASSUME client.authed, sock[client.ws].is = "open", up[client.ws] = <<>>
                  PROVE  sess[client.ws].regs = client.regs
      BY DEF RegisteredKnown
    <3>1. client.ws # None /\ Sound(World) /\ Known(World)
      BY <2>2, WorldInv DEF Sound
    <3>2. Agree(<<>>, sess[client.ws].regs, client.regs)
      BY <3>1, WorldInv DEF Known
    <3>3. \A a \in Agents : a \in sess[client.ws].regs <=> a \in client.regs
      BY <3>2 DEF Agree
    <3>4. sess[client.ws].regs \in SUBSET Agents /\ client.regs \in SUBSET Agents
      <4>1. client \in Client /\ sess \in [Sockets -> SessionRecord]
        BY WorldInv, WorldParts
      <4>. QED BY <3>1, <4>1 DEF Client, SessionRecord
    <3>. QED BY <3>3, <3>4
  <2>. QED BY <2>1, <2>2, WorldInv DEF SocketTruthful
<1>. QED BY <1>1, Invariance, PTL

(***************************************************************************)
(* OthersTried: only the two answers end an attempt.                       *)
(***************************************************************************)
LEMMA NextAuthTries ==
  ASSUME NEW w \in Worlds, NEW o, NEW v \in NextAuth(w, o)
  PROVE  \/ v = o /\ w.c.pend \cup w.c.regs \subseteq w.c.failed
         \/ v \in Worlds /\ v.c.pendingAuth # None
<1>1. CASE (w.c.pend \cup w.c.regs) \ w.c.failed = {}
  BY <1>1 DEF NextAuth
<1>2. CASE (w.c.pend \cup w.c.regs) \ w.c.failed # {}
  <2>1. PICK a \in Agents : v = Authenticating(w, a)
    BY <1>2, WorldParts DEF NextAuth, Client
  <2>2. v \in Worlds /\ v.c = Trying(w.c, a)
    BY <2>1, AuthenticatingSound
  <2>3. Trying(w.c, a).pendingAuth = a
    BY WorldParts DEF Trying, Client
  <2>. QED BY <2>2, <2>3, NoneIsNoSocket
<1>. QED BY <1>1, <1>2

(* None of the other steps ends an attempt.                                *)
Attempting(w) == client.pendingAuth # None => w.c.pendingAuth # None

LEMMA PartsAttempt ==
  ASSUME NEW w \in Worlds, Attempting(w)
  PROVE  /\ \A s \in Sockets : Attempting(Connected(w, s)) /\ Attempting(Ended(w, s))
         /\ Attempting(Disconnected(w)) /\ Attempting(Closed(w))
         /\ \A m \in Messages : Attempting(Sent(w, m))
         /\ \A a \in Agents : Attempting(Authenticating(w, a))
<1>1. w.c \in Client
  BY WorldParts
<1>2. \A s \in Sockets : Attempting(Connected(w, s)) /\ Attempting(Ended(w, s))
  <2>. SUFFICES ASSUME NEW s \in Sockets PROVE Attempting(Connected(w, s)) /\ Attempting(Ended(w, s))
    OBVIOUS
  <2>1. \/ Connected(w, s) = w
        \/ Connected(w, s).c = [w.c EXCEPT !.intentional = FALSE, !.state = "connecting", !.ws = s]
    BY ConnectedWorld
  <2>2. Connected(w, s).c.pendingAuth = w.c.pendingAuth
    BY <1>1, <2>1 DEF Client
  <2>3. Ended(w, s).c = w.c
    BY EndedWorld
  <2>. QED BY <2>2, <2>3 DEF Attempting
<1>3. Attempting(Disconnected(w)) /\ Attempting(Closed(w))
  <2>1. /\ Disconnected(w).c = [Idle(w.c) EXCEPT !.intentional = TRUE, !.state = "disconnected"]
        /\ Closed(w).c = AfterClose(w.c)
    BY DisconnectedWorld, ClosedWorld
  <2>2. Disconnected(w).c.pendingAuth = w.c.pendingAuth /\ Closed(w).c.pendingAuth = w.c.pendingAuth
    BY <1>1, <2>1 DEF Idle, AfterClose, Client
  <2>. QED BY <2>2 DEF Attempting
<1>4. \A m \in Messages : Attempting(Sent(w, m))
  BY SentWorld DEF Attempting
<1>5. \A a \in Agents : Attempting(Authenticating(w, a))
  <2>. SUFFICES ASSUME NEW a \in Agents PROVE Attempting(Authenticating(w, a))
    OBVIOUS
  <2>1. Authenticating(w, a).c = Trying(w.c, a) /\ Trying(w.c, a).pendingAuth = a
    BY <1>1, AuthenticatingSound DEF Trying, Client
  <2>. QED BY <2>1, NoneIsNoSocket DEF Attempting
<1>. QED BY <1>2, <1>3, <1>4, <1>5

LEMMA OtherStepsAttempt ==
  ASSUME TypeOK, [Next]_vars, client.pendingAuth # None, client'.pendingAuth = None
  PROVE  \E s \in Sockets : AuthOk(s) \/ AuthError(s)
<1>1. World \in Worlds /\ World.c = client /\ client \in Client /\ Attempting(World)
  BY TypeIsWorld, WorldParts DEF World, Attempting
<1>2. \A w \in Worlds : Attempting(w) /\ Apply(w) => FALSE
  BY DEF Attempting, Apply
<1>3. \A s \in Fresh : s \in Sockets
  BY DEF Fresh
<1>4. ~UNCHANGED client
  OBVIOUS
<1>5. ~Start
  BY <1>1, <1>2, <1>3, PartsAttempt, ConnectedWorld DEF Start
<1>6. ASSUME NEW s \in Sockets, Open(s) PROVE FALSE
  <2>. DEFINE c == [client EXCEPT !.failed = {}]
              k == [sock EXCEPT ![s].is = "open"]
              w == [World EXCEPT !.k[s].is = "open", !.c.failed = {}]
  <2>1. w = [World EXCEPT !.k = k, !.c = c]
    BY DEF World
  <2>2. c \in Client /\ c.pendingAuth = client.pendingAuth
    BY <1>1 DEF Client
  <2>3. k \in [Sockets -> Socket]
    <3>1. sock \in [Sockets -> Socket]
      BY <1>1, WorldParts DEF World
    <3>2. [sock[s] EXCEPT !.is = "open"] \in Socket
      BY <3>1 DEF Socket, Live
    <3>. QED BY <3>1, <3>2
  <2>4. w \in Worlds /\ w.c = c
    <3>. HIDE DEF c, k, w
    <3>. QED BY <1>1, <2>1, <2>2, <2>3 DEF Worlds
  <2>5. PICK v \in NextAuth(w, w) : Apply(v)
    BY <1>6 DEF Open
  <2>. HIDE DEF w, c
  <2>6. v \in Worlds /\ v.c.pendingAuth # None
    BY <2>2, <2>4, <2>5, NextAuthTries
  <2>. QED BY <1>2, <2>5, <2>6 DEF Attempting
<1>7. ASSUME NEW s \in Sockets, Lose(s) PROVE FALSE
  <2>1. PICK w \in Worlds : Attempting(w) /\ Apply(w)
    <3>1. Ended(World, s) \in Worlds /\ Attempting(Ended(World, s))
      BY <1>1, EndedWorld, PartsAttempt
    <3>2. Closed(Ended(World, s)) \in Worlds /\ Attempting(Closed(Ended(World, s)))
      BY <3>1, ClosedWorld, PartsAttempt
    <3>. QED BY <1>7, <3>1, <3>2 DEF Lose
  <2>. QED BY <1>2, <2>1
<1>8. ASSUME NEW s \in Sockets, Die(s) \/ Linker(s) PROVE FALSE
  BY <1>4, <1>8 DEF Die, Linker, LinkerAuth, LinkerVerify, LinkerRegister, LinkerUnregister, Answers
<1>9. ~HeartbeatTimeout
  BY <1>1, <1>2, PartsAttempt, ClosedWorld DEF HeartbeatTimeout
<1>10. ~ReconnectTimer
  <2>. DEFINE c == [client EXCEPT !.timer = FALSE, !.ws = None]
              w == [World EXCEPT !.c.timer = FALSE, !.c.ws = None]
  <2>1. w = [World EXCEPT !.c = c]
    BY DEF World
  <2>2. c \in Client /\ c.pendingAuth = client.pendingAuth
    BY <1>1 DEF Client
  <2>. HIDE DEF c, w
  <2>3. w \in Worlds /\ Attempting(w)
    BY <1>1, <2>1, <2>2, ClientWorld DEF Attempting
  <2>4. ReconnectTimer => \E s \in Sockets : Apply(Connected(w, s))
    BY <1>3 DEF ReconnectTimer, w
  <2>. QED BY <1>2, <2>3, <2>4, PartsAttempt, ConnectedWorld
<1>11. ASSUME NEW s \in Sockets, AuthChallenge(s) PROVE FALSE
  <2>1. Apply(Taken(s)) /\ Taken(s).c = client
    BY <1>11 DEF AuthChallenge, Taken, World
  <2>. QED BY <1>4, <2>1 DEF Apply
<1>12. ASSUME NEW j \in signing, Signed(j, j) \/ SignFailed(j) PROVE FALSE
  <2>1. PICK sig \in {j, None} : Apply(Sent(World, Response(sig)))
    BY <1>12 DEF Signed, SignFailed, Response
  <2>2. Response(sig) \in Messages
    BY DEF Response, Messages, TypeOK
  <2>. QED BY <1>1, <1>2, <2>1, <2>2, PartsAttempt, SentWorld
<1>13. ASSUME NEW a \in Agents, RegisterAgent(a) PROVE FALSE
  <2>. DEFINE c1 == [client EXCEPT !.regs = IF a \in Tracked THEN @ ELSE @ \cup {a}]
              c2 == [client EXCEPT !.pend = IF a \in Tracked THEN @ ELSE @ \cup {a}]
              v == [World EXCEPT !.c.regs = IF a \in Tracked THEN @ ELSE @ \cup {a}]
              w == [World EXCEPT !.c.pend = IF a \in Tracked THEN @ ELSE @ \cup {a}]
  <2>1. v = [World EXCEPT !.c = c1] /\ w = [World EXCEPT !.c = c2]
    BY DEF World
  <2>2. c1 \in Client /\ c2 \in Client /\ c1.pendingAuth = client.pendingAuth /\ c2.pendingAuth = client.pendingAuth
    BY <1>1 DEF Client
  <2>3. Apply(Sent(v, Register({a}))) \/ Apply(Authenticating(w, a)) \/ Apply(w)
    BY <1>13 DEF RegisterAgent, Register
  <2>. HIDE DEF c1, c2, v, w
  <2>4. v \in Worlds /\ w \in Worlds /\ Attempting(v) /\ Attempting(w)
    BY <1>1, <2>1, <2>2, ClientWorld DEF Attempting
  <2>5. Register({a}) \in Messages
    BY Registering
  <2>. QED BY <1>2, <2>3, <2>4, <2>5, PartsAttempt, SentWorld, AuthenticatingSound
<1>14. ASSUME NEW a \in Agents, UnregisterAgent(a) PROVE FALSE
  <2>. DEFINE c == [client EXCEPT !.regs = @ \ {a}, !.pend = @ \ {a}]
              w == [World EXCEPT !.c.regs = @ \ {a}, !.c.pend = @ \ {a}]
  <2>1. w = [World EXCEPT !.c = c]
    BY DEF World
  <2>2. c \in Client /\ c.pendingAuth = client.pendingAuth
    BY <1>1 DEF Client
  <2>3. Apply(Sent(w, Unregister({a}))) \/ Apply(w)
    BY <1>14 DEF UnregisterAgent, Unregister
  <2>. HIDE DEF c, w
  <2>4. w \in Worlds /\ Attempting(w)
    BY <1>1, <2>1, <2>2, ClientWorld DEF Attempting
  <2>5. Unregister({a}) \in Messages
    BY Registering
  <2>. QED BY <1>2, <2>3, <2>4, <2>5, PartsAttempt, SentWorld
<1>15. ~Disconnect /\ ~Reconnect
  BY <1>1, <1>2, <1>3, PartsAttempt, DisconnectedWorld, ConnectedWorld DEF Disconnect, Reconnect
<1>16. ~TriggerReauth
  <2>. DEFINE b == Disconnected(World)
  <2>1. b \in Worlds /\ Attempting(b)
    BY <1>1, PartsAttempt, DisconnectedWorld
  <2>2. TriggerReauth => \E s \in Sockets : Apply(Connected(b, s))
    BY <1>3 DEF TriggerReauth
  <2>. HIDE DEF b
  <2>. QED BY <1>2, <2>1, <2>2, PartsAttempt, ConnectedWorld
<1>. QED BY <1>4, <1>5, <1>6, <1>7, <1>8, <1>9, <1>10, <1>11, <1>12, <1>13, <1>14, <1>15, <1>16
         DEF Next, Receive, Timers, vars

LEMMA AttemptEnds ==
  ASSUME TypeOK, [Next]_vars, client.pendingAuth # None, client'.pendingAuth = None
  PROVE  client'.authed \/ client'.regs \cup client'.pend \subseteq client'.failed
<1>1. World \in Worlds /\ client \in Client
  BY TypeIsWorld, WorldParts DEF World
<1>2. PICK s \in Sockets : AuthOk(s) \/ AuthError(s)
  BY OtherStepsAttempt
<1>. DEFINE b == Taken(s)
<1>3. b \in Worlds /\ b.c = client
  <2>. DEFINE d == [down EXCEPT ![s] = Tail(down[s])]
  <2>1. down[s] # <<>> /\ down \in [Sockets -> Seq(Replies)]
    BY <1>1, <1>2, WorldParts DEF AuthOk, AuthError, Incoming, World
  <2>2. d \in [Sockets -> Seq(Replies)]
    BY <2>1, TailIndex
  <2>3. b = [World EXCEPT !.d = d]
    BY DEF Taken, World
  <2>. HIDE DEF b, d
  <2>. QED BY <1>1, <2>2, <2>3 DEF Worlds, World
<1>4. CASE AuthOk(s)
  <2>. DEFINE c == [client EXCEPT !.authed = TRUE, !.pendingAuth = None, !.state = "connected"]
              w == [b EXCEPT !.c.authed = TRUE, !.c.pendingAuth = None, !.c.state = "connected"]
              v == IF w.c.pend = {} THEN w ELSE Sent(w, Register(w.c.pend))
              e == [v.c EXCEPT !.regs = @ \cup w.c.pend, !.pend = {}]
              n == [v EXCEPT !.c.regs = @ \cup w.c.pend, !.c.pend = {}]
  <2>1. w = [b EXCEPT !.c = c]
    BY <1>3
  <2>2. c \in Client /\ c.authed /\ c.pend \in SUBSET Agents
    BY <1>1 DEF Client
  <2>3. Apply(n) /\ n = [v EXCEPT !.c = e]
    <3>1. Apply(n)
      BY <1>4 DEF AuthOk, Register
    <3>. HIDE DEF b, c, w, v
    <3>. QED BY <3>1
  <2>. HIDE DEF b, c, w, n
  <2>4. w \in Worlds /\ w.c = c
    BY <1>3, <2>1, <2>2, ClientWorld
  <2>5. v \in Worlds /\ v.c = c
    BY <2>2, <2>4, Registering, SentWorld
  <2>. HIDE DEF v
  <2>6. e \in Client /\ e.authed
    BY <2>2, <2>4, <2>5 DEF Client
  <2>. HIDE DEF e
  <2>7. n.c = e
    BY <2>3, <2>5, <2>6, ClientWorld
  <2>. QED BY <2>3, <2>6, <2>7 DEF Apply
<1>5. CASE AuthError(s)
  <2>. DEFINE f == client.failed \cup ({client.pendingAuth} \ {None})
              c1 == [client EXCEPT !.authed = FALSE, !.pendingAuth = None, !.failed = f]
              c2 == [c1 EXCEPT !.state = "connected"]
              w == [b EXCEPT !.c.authed = FALSE, !.c.pendingAuth = None,
                             !.c.failed = @ \cup ({client.pendingAuth} \ {None})]
              n == [w EXCEPT !.c.state = "connected"]
  <2>1. w = [b EXCEPT !.c = c1]
    BY <1>3
  <2>2. f \in SUBSET Agents
    BY <1>1 DEF Client
  <2>3. PICK v \in NextAuth(w, n) : Apply(v)
    BY <1>5 DEF AuthError
  <2>. HIDE DEF b, f, w
  <2>4. /\ c1 \in Client /\ c2 \in Client
        /\ c2.regs = c1.regs /\ c2.pend = c1.pend /\ c2.failed = c1.failed
    BY <1>1, <2>2 DEF Client
  <2>. HIDE DEF c1
  <2>5. w \in Worlds /\ w.c = c1
    BY <1>3, <2>1, <2>4, ClientWorld
  <2>6. n = [w EXCEPT !.c = c2]
    BY <2>5
  <2>. HIDE DEF c2, n
  <2>7. n.c = c2
    BY <2>4, <2>5, <2>6, ClientWorld
  <2>. QED BY <2>3, <2>4, <2>5, <2>7, NextAuthTries DEF Apply
<1>. QED BY <1>2, <1>4, <1>5

(* An attempt to authenticate ends with success or after every agent       *)
(* tracked by then was tried, in every step of every behaviour             *)
(* (websocket-service.ts:537).                                             *)
THEOREM EveryAgentTried == Spec => OthersTried
<1>1. TypeOK /\ [Next]_vars =>
        [client.pendingAuth # None /\ client'.pendingAuth = None
         /\ client.ws # None /\ client'.ws = client.ws
         => client'.authed \/ client'.regs \cup client'.pend \subseteq client'.failed]_vars
  BY AttemptEnds
<1>. QED BY <1>1, TypeCorrect, PTL DEF Spec, OthersTried
=============================================================================
