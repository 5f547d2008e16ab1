----------------------- MODULE ExecutorLifecycleProofs -----------------------
(***************************************************************************)
(* For any callers, DNAs and scenarios of ExecutorLifecycle: no call runs  *)
(* without its WASM, settings reach the worker, and every blocking request *)
(* is given its own answer.                                                *)
(***************************************************************************)
EXTENDS ExecutorLifecycle, SequenceTheorems, TLAPS

(***************************************************************************)
(* Queues                                                                  *)
(***************************************************************************)

(* An order put behind a queue leaves what was there.                      *)
LEMMA AppendFacts ==
  ASSUME NEW S, NEW s \in Seq(S), NEW e \in S
  PROVE  /\ Append(s, e) \in Seq(S)
         /\ DOMAIN s = 1..Len(s) /\ Len(s) \in Nat /\ Len(Append(s, e)) = Len(s) + 1
         /\ DOMAIN Append(s, e) = 1..(Len(s) + 1)
         /\ \A i \in DOMAIN s : Append(s, e)[i] = s[i]
         /\ Append(s, e)[Len(s) + 1] = e
OBVIOUS

(* Taking the first message moves the others up by one place.              *)
LEMMA TailFacts ==
  ASSUME NEW S, NEW s \in Seq(S), s # <<>>
  PROVE  /\ Tail(s) \in Seq(S) /\ Head(s) = s[1] /\ Head(s) \in S
         /\ DOMAIN s = 1..Len(s) /\ Len(s) \in Nat \ {0} /\ 1 \in DOMAIN s
         /\ DOMAIN Tail(s) = 1..(Len(s) - 1)
         /\ \A i \in DOMAIN Tail(s) : Tail(s)[i] = s[i + 1]
OBVIOUS

(***************************************************************************)
(* Types                                                                   *)
(***************************************************************************)

(* The fields of the classes start with values of their types.             *)
LEMMA TypeInit == Init => TypeOK
<1>. SUFFICES ASSUME Init PROVE TypeOK
  OBVIOUS
<1>1. BridgeTypeOK /\ posted \in Seq(Posts)
  BY BridgeAssumption DEF Init, BridgeInit, BridgeTypeOK, NoAnswer, Requests, Numbers, Kinds, Replies
<1>2. bg \in Bg /\ news \in BOOLEAN /\ honoured \in Nat
  BY DEF Init, FreshBg, Bg
<1>3. sc \in Scenario /\ at \in [Callers -> Places] /\ task \in [Callers -> Stages]
  BY ScenarioAssumption DEF Init, Places, Stages
<1>4. NoHost \in Host /\ [NoHost EXCEPT !.up = "up"] \in Host
  BY DEF NoHost, Host
<1>5. host \in Host
  BY <1>4 DEF Init
<1>6. wk \in Wk
  BY DEF Init, NoWorker, Wk
<1>. QED BY <1>1, <1>2, <1>3, <1>5, <1>6 DEF TypeOK

(* What the end, or the survival, of the host makes of it.                 *)
HostTypeOK ==
  BridgeTypeOK /\ posted \in Seq(Posts) /\ host \in Host /\ wk \in Wk /\ task \in [Callers -> Stages]

(* A closed document and its worker leave the values of a fresh one.       *)
LEMMA HostGoneType ==
  ASSUME TypeOK, NEW h \in Host, HostGone(h)
  PROVE  HostTypeOK'
BY DEF HostTypeOK, TypeOK, HostGone, BridgeGone, BridgeTypeOK, NoWorker, NoAnswer, Wk, Requests,
       Numbers, Kinds, Replies, Stages

(* Whoever leaves the host alone leaves its types.                         *)
LEMMA HostStaysType == ASSUME TypeOK, HostStays PROVE HostTypeOK'
BY DEF HostTypeOK, TypeOK, HostStays, bridgeVars, BridgeTypeOK

(* Whoever leaves the bridge alone leaves its types.                       *)
LEMMA BridgeStaysType ==
  ASSUME TypeOK, UNCHANGED bridgeVars
  PROVE  BridgeTypeOK' /\ posted' \in Seq(Posts)
BY DEF TypeOK, bridgeVars, BridgeTypeOK

(* The request the worker waits for is one it made.                        *)
LEMMA WaitingType ==
  ASSUME TypeOK, waiting # None
  PROVE  waiting \in DOMAIN asked /\ waiting \in Numbers /\ asked[waiting] \in Kinds
<1>1. waiting \in DOMAIN asked /\ asked \in Seq(Kinds) /\ Len(asked) <= MaxRequests
  BY DEF TypeOK, BridgeTypeOK
<1>2. waiting \in 1..Len(asked) /\ Len(asked) \in Nat
  BY <1>1
<1>3. waiting \in Numbers
  BY <1>1, <1>2, BridgeAssumption DEF Numbers, Requests
<1>. QED BY <1>1, <1>2, <1>3, ElementOfSeq

(* Callers that are resumed together are at a place callers have.          *)
LEMMA MovedType ==
  ASSUME TypeOK, NEW from, NEW to \in Places
  PROVE  Moved(from, to) \in [Callers -> Places]
BY DEF TypeOK, Moved

(* createDocument leaves a document that is loading.                       *)
LEMMA CreateType ==
  ASSUME TypeOK, NEW c \in Callers, NEW others \in [Callers -> Places], NEW ready \in BOOLEAN,
         Create(c, others, ready)
  PROVE  at' \in [Callers -> Places] /\ bg' \in Bg /\ HostTypeOK'
<1>1. NoHost \in Host /\ [NoHost EXCEPT !.up = "loading"] \in Host
  BY DEF NoHost, Host
<1>2. HostTypeOK'
  BY <1>1, HostGoneType DEF Create
<1>3. at' \in [Callers -> Places]
  BY DEF Create, Places, Ended, OnlyChrome
<1>4. bg' \in Bg
  BY DEF Create, TypeOK, Bg
<1>. QED BY <1>2, <1>3, <1>4

(* One order more for the worker.                                          *)
LEMMA ToWorkerType ==
  ASSUME NEW w \in Wk, NEW m \in Orders
  PROVE  /\ ToWorker(w, m) \in Wk
         /\ ToWorker(w, m) = [w EXCEPT !.q = Append(w.q, m)]
         /\ ToWorker(w, m).q = Append(w.q, m) /\ ToWorker(w, m).chain = w.chain
         /\ ToWorker(w, m).cache = w.cache
         /\ ToWorker(w, m).url = w.url /\ ToWorker(w, m).token = w.token
<1>1. Append(w.q, m) \in Seq(Orders)
  BY AppendFacts DEF Wk
<1>. QED BY <1>1 DEF ToWorker, Wk

(* CONFIGURE_NETWORK carries the URL and the token of the host.            *)
LEMMA SettingsType ==
  ASSUME NEW h \in Host
  PROVE  Settings(h) \in Orders /\ [Settings(h) EXCEPT !.type = "init"] \in Orders
BY DEF Settings, Host, Orders

(* Settings are forwarded to a worker that is ready, or kept.              *)
LEMMA ForwardType ==
  ASSUME NEW h \in Host, wk \in Wk
  PROVE  Forward(h) \in Wk
BY SettingsType, ToWorkerType DEF Forward

(* The end of a request frees its caller and its task.                     *)
LEMMA FinishType ==
  ASSUME TypeOK, NEW c \in Callers, NEW end \in Ended, Finish(c, end)
  PROVE  task' \in [Callers -> Stages] /\ at' \in [Callers -> Places]
BY DEF TypeOK, Finish, Places, Stages

(* A step of the bridge alone.                                             *)
BridgeOnly == UNCHANGED <<sc, at, task, bg, news, host, wk, honoured>>

(* Every step of the system keeps the types.                               *)
LEMMA TypeStep == ASSUME TypeOK, Next PROVE TypeOK'
<1>1. ASSUME NEW c \in Callers, Start(c) PROVE TypeOK'
  BY <1>1, HostStaysType DEF Start, TypeOK, HostTypeOK, Bg, Places, OnlyChrome
<1>2. ASSUME NEW c \in Callers, Ensure(c) PROVE TypeOK'
  <2>1. CASE HostStays /\ UNCHANGED bg /\ at' = [at EXCEPT ![c] = IF bg.ready THEN "send" ELSE "wait"]
    BY <1>2, <2>1, HostStaysType DEF Ensure, TypeOK, HostTypeOK, Places, OnlyChrome
  <2>2. CASE Create(c, at, bg.ready)
    <3>1. bg.ready \in BOOLEAN
      BY DEF TypeOK, Bg
    <3>. QED BY <1>2, <2>2, <3>1, CreateType DEF Ensure, TypeOK, HostTypeOK
  <2>. QED BY <1>2, <2>1, <2>2 DEF Ensure
<1>3. ASSUME NEW c \in Callers, Recreate(c) PROVE TypeOK'
  <2>1. CASE HostStays /\ UNCHANGED bg /\ at' = [at EXCEPT ![c] = "failed"]
    BY <1>3, <2>1, HostStaysType DEF Recreate, TypeOK, HostTypeOK, Places, Ended
  <2>2. CASE Create(c, Moved({"host"}, "failed"), FALSE)
    <3>1. Moved({"host"}, "failed") \in [Callers -> Places]
      BY MovedType DEF Places, Ended
    <3>. QED BY <1>3, <2>2, <3>1, CreateType DEF Recreate, TypeOK, HostTypeOK
  <2>. QED BY <1>3, <2>1, <2>2 DEF Recreate
<1>4. ASSUME NEW c \in Callers, CreateReturns(c) PROVE TypeOK'
  <2>1. Moved({"join"}, "send") \in [Callers -> Places] /\ Moved({"join"}, "failed") \in [Callers -> Places]
    BY MovedType DEF Places, Ended
  <2>2. bg' \in Bg /\ at' \in [Callers -> Places]
    BY <1>4, <2>1 DEF CreateReturns, TypeOK, Bg, Places, Ended, OnlyChrome
  <2>. QED BY <1>4, <2>2, HostStaysType DEF CreateReturns, TypeOK, HostTypeOK
<1>5. ASSUME NEW c \in Callers, ReadyTimeout(c) PROVE TypeOK'
  BY <1>5, HostStaysType DEF ReadyTimeout, TypeOK, HostTypeOK, Places, Ended
<1>6. ASSUME NEW c \in Callers, SendWork(c) PROVE TypeOK'
  BY <1>6, BridgeStaysType DEF SendWork, TypeOK, Host, Places, Stages, Ended
<1>7. ASSUME NEW c \in Callers, InitWorker(c) PROVE TypeOK'
  BY <1>7, BridgeStaysType DEF InitWorker, TypeOK, Host, Places, Ended
<1>8. ASSUME NEW c \in Callers, SendConfigure(c) PROVE TypeOK'
  <2>1. CASE host.up # "up"
    BY <1>8, <2>1, BridgeStaysType DEF SendConfigure, TypeOK, Places, Ended
  <2>2. CASE host.up = "up"
    <3>. DEFINE token == IF sc.job[c] = "restore" THEN bg.token ELSE 0
                h == [host EXCEPT !.url = TRUE, !.token = IF token = 0 THEN @ ELSE token,
                                  !.ws = IF @ = "none" THEN "connecting" ELSE @]
    <3>1. h \in Host
      BY DEF TypeOK, Host, Bg
    <3>2. host' = h /\ wk' = Forward(h) /\ bg' = [bg EXCEPT !.configured = TRUE]
          /\ at' = [at EXCEPT ![c] = "ok"]
      BY <1>8, <2>2 DEF SendConfigure
    <3>. HIDE DEF h
    <3>3. wk' \in Wk
      BY <3>1, <3>2, ForwardType DEF TypeOK
    <3>. QED BY <1>8, <3>1, <3>2, <3>3, BridgeStaysType DEF SendConfigure, TypeOK, Bg, Places, Ended
  <2>. QED BY <2>1, <2>2
<1>9. ASSUME NEW c \in Callers, SendLinker(c) PROVE TypeOK'
  BY <1>9, BridgeStaysType DEF SendLinker, TypeOK, Host, Places, Ended
<1>10. ASSUME NEW c \in Callers, InitAwaited(c) PROVE TypeOK'
  <2>1. [type |-> "work", c |-> c] \in Orders
    BY DEF Orders
  <2>2. wk' \in Wk
    BY <1>10, <2>1, ToWorkerType DEF InitAwaited, TypeOK
  <2>3. task' \in [Callers -> Stages] /\ at' \in [Callers -> Places]
    BY <1>10, FinishType DEF InitAwaited, TypeOK, Stages, Ended
  <2>. QED BY <1>10, <2>2, <2>3, BridgeStaysType DEF InitAwaited, TypeOK
<1>11. ASSUME NEW c \in Callers, ContextRead(c) PROVE TypeOK'
  <2>1. [type |-> "call", c |-> c, wasm |-> DnaOf[c] \notin host.sent] \in Orders
    BY DEF Orders, Calls
  <2>2. wk' \in Wk
    BY <1>11, <2>1, ToWorkerType DEF ContextRead, TypeOK
  <2>3. task' \in [Callers -> Stages] /\ at' \in [Callers -> Places]
    BY <1>11, FinishType DEF ContextRead, TypeOK, Stages, Ended
  <2>4. host' \in Host
    BY <1>11, DnaAssumption DEF ContextRead, TypeOK, Host
  <2>. QED BY <1>11, <2>2, <2>3, <2>4, BridgeStaysType DEF ContextRead, TypeOK
<1>12. ASSUME NEW c \in Callers, WorkerTimeout(c) PROVE TypeOK'
  BY <1>12, FinishType, BridgeStaysType DEF WorkerTimeout, TypeOK, Ended
<1>13. ASSUME DocumentLoaded PROVE TypeOK'
  BY <1>13, BridgeStaysType DEF DocumentLoaded, TypeOK, Host
<1>14. ASSUME OffscreenReady PROVE TypeOK'
  <2>1. at' \in [Callers -> Places]
    BY <1>14, MovedType DEF OffscreenReady, Places
  <2>. QED BY <1>14, <2>1, HostStaysType DEF OffscreenReady, TypeOK, HostTypeOK, Bg
<1>15. ASSUME WorkerLoaded PROVE TypeOK'
  <2>1. NoHost \in Host /\ host' \in Host
    BY <1>15 DEF WorkerLoaded, TypeOK, NoHost, Host
  <2>2. wk' \in Wk
    BY <1>15, <2>1, SettingsType, ToWorkerType DEF WorkerLoaded, TypeOK
  <2>. QED BY <1>15, <2>1, <2>2, BridgeStaysType DEF WorkerLoaded, TypeOK
<1>16. ASSUME SessionToken PROVE TypeOK'
  <2>. DEFINE token == honoured + 1
              h == [host EXCEPT !.ws = "connected", !.token = token]
  <2>0. token \in Nat
    BY DEF TypeOK
  <2>. HIDE DEF token
  <2>1. h \in Host
    BY <2>0 DEF TypeOK, Host
  <2>2. /\ host' = h /\ wk' = Forward(h) /\ honoured' = token
        /\ bg' = IF Chrome \/ ~bg.saved THEN bg ELSE [bg EXCEPT !.token = token]
        /\ sc.tokens > 0 /\ sc' = [sc EXCEPT !.tokens = @ - 1]
    BY <1>16 DEF SessionToken, token
  <2>. HIDE DEF h
  <2>3. wk' \in Wk
    BY <2>1, <2>2, ForwardType DEF TypeOK
  <2>4. bg' \in Bg
    BY <2>0, <2>2 DEF TypeOK, Bg
  <2>5. sc' \in Scenario
    BY <2>2 DEF TypeOK, Scenario
  <2>. QED BY <1>16, <2>0, <2>5, <2>1, <2>2, <2>3, <2>4, BridgeStaysType DEF SessionToken, TypeOK
<1>17. ASSUME InitAnswer PROVE TypeOK'
  <2>1. posted' \in Seq(Posts) /\ BridgeTypeOK'
    BY <1>17, TailFacts DEF InitAnswer, Handling, TypeOK, BridgeTypeOK
  <2>2. host' \in Host
    BY <1>17 DEF InitAnswer, TypeOK, Host
  <2>3. wk' \in Wk
    BY <1>17, SettingsType, ToWorkerType DEF InitAnswer, TypeOK
  <2>. QED BY <1>17, <2>1, <2>2, <2>3 DEF InitAnswer, TypeOK
<1>18. ASSUME Answered PROVE TypeOK'
  <2>1. posted' \in Seq(Posts) /\ BridgeTypeOK' /\ Head(posted) \in Posts /\ Head(posted).type = "reply"
    BY <1>18, TailFacts DEF Answered, Handling, TypeOK, BridgeTypeOK
  <2>2. Head(posted).n \in Callers
    BY <2>1 DEF Posts
  <2>3. task' \in [Callers -> Stages] /\ at' \in [Callers -> Places]
    BY <1>18, <2>2, FinishType DEF Answered, TypeOK, Ended
  <2>. QED BY <1>18, <2>1, <2>3 DEF Answered, TypeOK
<1>19. ASSUME Http401 PROVE TypeOK'
  <2>1. posted' \in Seq(Posts) /\ BridgeTypeOK'
    BY <1>19, TailFacts DEF Http401, Handling, TypeOK, BridgeTypeOK
  <2>2. host' \in Host
    BY <1>19 DEF Http401, Reauth, TypeOK, Host, Wk
  <2>. QED BY <1>19, <2>1, <2>2 DEF Http401, TypeOK
<1>20. ASSUME NEW reply \in Replies, NetworkRequest(reply) PROVE TypeOK'
  <2>1. Head(posted) \in Posts /\ Head(posted).type = "request" /\ posted' \in Seq(Posts)
    BY <1>20, TailFacts DEF NetworkRequest, HandleNetworkRequest, Handling, TypeOK
  <2>2. Head(posted).n \in Requests
    BY <2>1 DEF Posts
  <2>3. StatusOf(reply) \in Nat
    BY DEF StatusOf, Replies
  <2>4. BridgeTypeOK'
    <3>1. /\ linker' = [linker EXCEPT ![Head(posted).n] = reply]
          /\ buffer' = [buffer EXCEPT !["fetch"] = [of |-> Head(posted).n, status |-> StatusOf(reply)]]
          /\ written' = "fetch" /\ UNCHANGED <<signal, asked, waiting, signing, answer, late>>
      BY <1>20 DEF NetworkRequest, HandleNetworkRequest, Write
    <3>2. linker' \in Seq(Replies \cup {"none"}) /\ Len(linker') = Len(linker)
      <4>1. linker \in [1..Len(linker) -> Replies \cup {"none"}] /\ Len(linker) \in Nat
        BY DEF TypeOK, BridgeTypeOK
      <4>2. linker' \in [1..Len(linker) -> Replies \cup {"none"}]
        BY <3>1, <4>1
      <4>. QED BY <4>1, <4>2
    <3>3. buffer' \in [Kinds -> [of : Numbers, status : Nat]] /\ written' \in Kinds
      BY <2>2, <2>3, <3>1 DEF TypeOK, BridgeTypeOK, Numbers, Kinds
    <3>. QED BY <3>1, <3>2, <3>3 DEF TypeOK, BridgeTypeOK
  <2>5. host' \in Host
    BY <1>20 DEF NetworkRequest, Reauth, TypeOK, Host
  <2>. QED BY <1>20, <2>1, <2>4, <2>5 DEF NetworkRequest, TypeOK
<1>21. ASSUME WorkerMessage PROVE TypeOK'
  <2>. DEFINE m == Head(wk.q)
              w == [wk EXCEPT !.q = Tail(@)]
  <2>1. m \in Orders /\ Tail(wk.q) \in Seq(Orders)
    BY <1>21, TailFacts DEF WorkerMessage, TypeOK, Wk
  <2>2. wk' \in Wk
    <3>1. w \in Wk /\ w.chain = wk.chain
      BY <2>1 DEF TypeOK, Wk
    <3>2. ASSUME IsSettings(m) PROVE [w EXCEPT !.url = m.url, !.token = m.token] \in Wk
      BY <2>1, <3>1, <3>2 DEF Orders, Calls, IsSettings, Wk
    <3>3. ASSUME m.type = "call" PROVE [w EXCEPT !.chain = Append(@, m)] \in Wk
      <4>1. m \in Calls
        BY <2>1, <3>3 DEF Orders, Calls
      <4>2. Append(wk.chain, m) \in Seq(Calls)
        BY <4>1, AppendFacts DEF TypeOK, Wk
      <4>. HIDE DEF m
      <4>. QED BY <3>1, <4>2 DEF Wk
    <3>. QED BY <1>21, <3>1, <3>2, <3>3 DEF WorkerMessage, IsSettings
  <2>3. posted' \in Seq(Posts)
    <3>1. \A ok \in BOOLEAN : [type |-> "init", n |-> 0, ok |-> ok] \in Posts
      BY DEF Posts
    <3>2. ASSUME NEW ok \in BOOLEAN, m.type = "work"
          PROVE  [type |-> "reply", n |-> m.c, ok |-> ok] \in Posts
      BY <2>1, <3>2 DEF Orders, Calls, Posts
    <3>3. sc.breaks \in BOOLEAN
      BY DEF TypeOK, Scenario
    <3>4. posted' = posted \/ \E x \in Posts : posted' = Append(posted, x)
      BY <1>21, <3>1, <3>2, <3>3 DEF WorkerMessage
    <3>. QED BY <3>4, AppendFacts DEF TypeOK
  <2>. QED BY <1>21, <2>2, <2>3 DEF WorkerMessage, TypeOK, BridgeTypeOK
<1>22. ASSUME StartCall PROVE TypeOK'
  <2>. DEFINE m == Head(wk.chain)
              w == [wk EXCEPT !.chain = Tail(@), !.cache = IF m.wasm THEN @ \cup {DnaOf[m.c]} ELSE @]
  <2>1. m \in Calls /\ Tail(wk.chain) \in Seq(Calls)
    BY <1>22, TailFacts DEF StartCall, TypeOK, Wk
  <2>2. m.c \in Callers /\ DnaOf[m.c] \in Dnas
    BY <2>1, DnaAssumption DEF Calls
  <2>. HIDE DEF m
  <2>3. w \in Wk /\ [w EXCEPT !.running = m.c] \in Wk
    BY <2>1, <2>2 DEF TypeOK, Wk
  <2>4. [type |-> "reply", n |-> m.c, ok |-> FALSE] \in Posts
    BY <2>2 DEF Posts
  <2>5. wk' \in Wk /\ posted' \in Seq(Posts)
    BY <1>22, <2>3, <2>4, AppendFacts DEF StartCall, TypeOK, m
  <2>. QED BY <1>22, <2>5 DEF StartCall, TypeOK, BridgeTypeOK
<1>23. ASSUME EndCall PROVE TypeOK'
  <2>1. wk.running \in Callers /\ wk' \in Wk
    BY <1>23 DEF EndCall, TypeOK, Wk
  <2>2. \A ok \in BOOLEAN : [type |-> "reply", n |-> wk.running, ok |-> ok] \in Posts
    BY <2>1 DEF Posts
  <2>3. posted' \in Seq(Posts)
    BY <1>23, <2>2, AppendFacts DEF EndCall, TypeOK
  <2>. QED BY <1>23, <2>1, <2>3 DEF EndCall, TypeOK, BridgeTypeOK
<1>24. ASSUME Ask PROVE TypeOK'
  <2>1. Len(asked) < MaxRequests /\ Len(asked) + 1 \in Requests
    <3>1. sc.requests \in 0..MaxRequests /\ Len(asked) \in Nat /\ Len(asked) < sc.requests
      BY <1>24 DEF Ask, TypeOK, BridgeTypeOK, Scenario
    <3>. QED BY <3>1, BridgeAssumption DEF Requests
  <2>2. ASSUME NEW kind \in Kinds
        PROVE  Append(asked, kind) \in Seq(Kinds) /\ Len(Append(asked, kind)) = Len(asked) + 1
    BY AppendFacts DEF TypeOK, BridgeTypeOK
  <2>3. ASSUME NEW reply \in Replies \cup {"none"}
        PROVE  /\ Append(linker, reply) \in Seq(Replies \cup {"none"})
               /\ Len(Append(linker, reply)) = Len(asked) + 1
    BY AppendFacts DEF TypeOK, BridgeTypeOK
  <2>4. ASSUME NEW kind \in Kinds, Block(kind)
        PROVE  BridgeTypeOK' /\ posted' \in Seq(Posts)
    <3>1. asked' \in Seq(Kinds) /\ Len(asked') = Len(asked) + 1
          /\ linker' \in Seq(Replies \cup {"none"}) /\ Len(linker') = Len(asked) + 1
      BY <2>2, <2>3, <2>4 DEF Block
    <3>2. Request(Len(asked')) \in Posts
      BY <2>1, <3>1 DEF Request, Message, Posts
    <3>3. posted' \in Seq(Posts) /\ waiting' \in Requests
      BY <2>1, <2>4, <3>1, <3>2, AppendFacts DEF Block, TypeOK
    <3>. QED BY <2>1, <2>4, <3>1, <3>3 DEF Block, TypeOK, BridgeTypeOK, Requests
  <2>5. ASSUME NEW reply \in Replies, FetchDirect(reply)
        PROVE  BridgeTypeOK' /\ posted' \in Seq(Posts)
    <3>1. asked' \in Seq(Kinds) /\ Len(asked') = Len(asked) + 1
          /\ linker' \in Seq(Replies \cup {"none"}) /\ Len(linker') = Len(asked) + 1
      BY <2>2, <2>3, <2>5 DEF FetchDirect, Kinds
    <3>2. posted' \in Seq(Posts)
      <4>1. Message("http401", 0) \in Posts
        BY DEF Message, Posts
      <4>. QED BY <2>5, <4>1, AppendFacts DEF FetchDirect, TypeOK
    <3>3. answer' \in [req : Numbers, of : Numbers, is : {"found", "null", "NetworkError"}]
      BY <2>1, <2>5, <3>1 DEF FetchDirect, RecordAnswer, Numbers
    <3>. QED BY <2>1, <2>5, <3>1, <3>2, <3>3 DEF FetchDirect, TypeOK, BridgeTypeOK, Requests
  <2>. QED BY <1>24, <2>4, <2>5 DEF Ask, TypeOK, Kinds
<1>25. ASSUME Wake, BridgeOnly PROVE TypeOK'
  <2>1. asked[waiting] \in Kinds /\ waiting \in Numbers
    BY <1>25, WaitingType DEF Wake
  <2>2. answer' \in [req : Numbers, of : Numbers,
                     is : {"found", "null", "NetworkError", "signature", "error"}]
    BY <1>25, <2>1 DEF Wake, Given, RecordAnswer, BridgeOnly, TypeOK, BridgeTypeOK
  <2>. QED BY <1>25, <2>2 DEF Wake, BridgeOnly, TypeOK, BridgeTypeOK
<1>26. ASSUME WaitTimeout, BridgeOnly PROVE TypeOK'
  <2>1. asked[waiting] \in Kinds /\ waiting \in Numbers
    BY <1>26, WaitingType DEF WaitTimeout
  <2>. QED BY <1>26, <2>1 DEF WaitTimeout, BridgeOnly, TypeOK, BridgeTypeOK
<1>27. ASSUME HandleSignRequest, BridgeOnly PROVE TypeOK'
  <2>1. Head(posted) \in Posts /\ Head(posted).type = "request" /\ posted' \in Seq(Posts)
    BY <1>27, TailFacts DEF HandleSignRequest, Handling, TypeOK
  <2>2. Head(posted).n \in Requests
    BY <2>1 DEF Posts
  <2>. QED BY <1>27, <2>1, <2>2 DEF HandleSignRequest, BridgeOnly, TypeOK, BridgeTypeOK
<1>28. ASSUME Raise, BridgeOnly PROVE TypeOK'
  BY <1>28 DEF Raise, BridgeOnly, TypeOK, BridgeTypeOK
<1>29. ASSUME NEW n \in signing, NEW ok \in BOOLEAN, SignAnswered(n, ok), BridgeOnly PROVE TypeOK'
  <2>1. [of |-> n, status |-> IF ok THEN 1 ELSE 0] \in [of : Numbers, status : Nat] /\ "sign" \in Kinds
    BY <1>29 DEF BridgeOnly, TypeOK, BridgeTypeOK, Numbers, Kinds
  <2>. QED BY <1>29, <2>1 DEF SignAnswered, Write, BridgeOnly, TypeOK, BridgeTypeOK
<1>30. ASSUME Restart PROVE TypeOK'
  <2>1. NoHost \in Host /\ [NoHost EXCEPT !.up = "up"] \in Host
    BY DEF NoHost, Host
  <2>2. HostTypeOK'
    BY <1>30, <2>1, HostGoneType, HostStaysType DEF Restart
  <2>3. at' \in [Callers -> Places]
    BY <1>30 DEF Restart, TypeOK, Places, OnlyChrome, Ended
  <2>4. bg' \in Bg
    BY <1>30 DEF Restart, FreshBg, TypeOK, Bg
  <2>5. sc' \in Scenario
    BY <1>30 DEF Restart, TypeOK, Scenario
  <2>. QED BY <1>30, <2>2, <2>3, <2>4, <2>5 DEF Restart, TypeOK, HostTypeOK
<1>31. ASSUME CloseDocument PROVE TypeOK'
  <2>1. NoHost \in Host
    BY DEF NoHost, Host
  <2>2. HostTypeOK'
    BY <1>31, <2>1, HostGoneType DEF CloseDocument
  <2>3. at' \in [Callers -> Places]
    BY <1>31, MovedType DEF CloseDocument, Places, Ended
  <2>4. sc' \in Scenario
    <3>1. sc.closes > 0 /\ sc' = [sc EXCEPT !.closes = @ - 1]
      BY <1>31 DEF CloseDocument
    <3>2. sc \in Scenario /\ sc.closes - 1 \in Nat
      BY <3>1 DEF TypeOK, Scenario
    <3>3. \A k \in Nat : [sc EXCEPT !.closes = k] \in Scenario
      BY <3>2 DEF Scenario
    <3>. QED BY <3>1, <3>2, <3>3
  <2>. QED BY <1>31, <2>2, <2>3, <2>4 DEF CloseDocument, TypeOK, HostTypeOK
<1>32. ASSUME Revoke PROVE TypeOK'
  <2>1. sc' \in Scenario
    BY <1>32 DEF Revoke, TypeOK, Scenario
  <2>. QED BY <1>32, <2>1, BridgeStaysType DEF Revoke, TypeOK
<1>. QED
  BY <1>1, <1>2, <1>3, <1>4, <1>5, <1>6, <1>7, <1>8, <1>9, <1>10, <1>11, <1>12, <1>13, <1>14, <1>15, <1>16, <1>17, <1>18, <1>19, <1>20, <1>21, <1>22, <1>23, <1>24, <1>25, <1>26, <1>27, <1>28, <1>29, <1>30, <1>31, <1>32
  DEF Next, Caller, MainThread, Worker, Bridge, BridgeOnly

(* The variables have the values the code can give them.                   *)
THEOREM TypeCorrect == Spec => []TypeOK
<1>1. ASSUME TypeOK, UNCHANGED vars PROVE TypeOK'
  BY <1>1, BridgeStaysType DEF vars, TypeOK
<1>. QED BY TypeInit, TypeStep, <1>1, PTL DEF Spec

(***************************************************************************)
(* The bridge                                                              *)
(***************************************************************************)
OthersKept == UNCHANGED <<asked, waiting, signal, buffer, signing, written, linker, answer, late>>

Delivered ==
  posted # <<>> /\ Head(posted).type # "request" /\ posted' = Tail(posted) /\ OthersKept

Posted == OthersKept /\ \E m \in Posts : m.type # "request" /\ posted' = Append(posted, m)

(* What a step of the system is to the bridge.                             *)
LEMMA BridgeSteps ==
  ASSUME TypeOK, Next
  PROVE  \/ UNCHANGED bridgeVars \/ BridgeGone \/ Delivered \/ Posted
         \/ \E kind \in Kinds : Block(kind)
         \/ \E reply \in Replies : FetchDirect(reply) \/ HandleNetworkRequest(reply)
         \/ Wake \/ WaitTimeout \/ HandleSignRequest \/ Raise
         \/ \E n \in signing, ok \in BOOLEAN : SignAnswered(n, ok)
<1>1. ASSUME HostStays PROVE UNCHANGED bridgeVars
  BY <1>1 DEF HostStays
<1>2. ASSUME NEW h, HostGone(h) PROVE BridgeGone
  BY <1>2 DEF HostGone
<1>3. CASE \E c \in Callers : Start(c) \/ Caller(c) \/ WorkerTimeout(c)
  BY <1>1, <1>2, <1>3 DEF Start, Caller, Ensure, Recreate, Create, CreateReturns, ReadyTimeout,
       SendWork, InitWorker, SendConfigure, SendLinker, InitAwaited, ContextRead, WorkerTimeout
<1>4. CASE DocumentLoaded \/ OffscreenReady \/ WorkerLoaded \/ SessionToken \/ Revoke
  BY <1>1, <1>4 DEF DocumentLoaded, OffscreenReady, WorkerLoaded, SessionToken, Revoke
<1>5. CASE InitAnswer \/ Answered \/ Http401
  BY <1>5 DEF InitAnswer, Answered, Http401, Handling, Delivered, OthersKept
<1>6. CASE \E reply \in Replies : NetworkRequest(reply)
  BY <1>6 DEF NetworkRequest
<1>7. CASE WorkerMessage
  <2>1. OthersKept
    BY <1>7 DEF WorkerMessage, OthersKept
  <2>2. Head(wk.q) \in Orders /\ sc.breaks \in BOOLEAN
    BY <1>7, TailFacts DEF WorkerMessage, TypeOK, Wk, Scenario
  <2>3. CASE \E ok \in BOOLEAN : posted' = Append(posted, [type |-> "init", n |-> 0, ok |-> ok])
    BY <2>1, <2>3 DEF Posted, Posts
  <2>4. CASE Head(wk.q).type = "work"
             /\ \E ok \in BOOLEAN : posted' = Append(posted, [type |-> "reply", n |-> Head(wk.q).c, ok |-> ok])
    <3>1. Head(wk.q).c \in Callers
      BY <2>2, <2>4 DEF Orders, Calls
    <3>. QED BY <2>1, <2>4, <3>1 DEF Posted, Posts
  <2>5. CASE posted' = posted
    BY <2>1, <2>5 DEF OthersKept, bridgeVars
  <2>. QED BY <1>7, <2>2, <2>3, <2>4, <2>5 DEF WorkerMessage
<1>8. CASE StartCall \/ EndCall
  <2>1. OthersKept
    BY <1>8 DEF StartCall, EndCall, OthersKept
  <2>2. posted' = posted \/ \E c \in Callers, ok \in BOOLEAN :
                              posted' = Append(posted, [type |-> "reply", n |-> c, ok |-> ok])
    <3>1. CASE StartCall
      <4>1. Head(wk.chain) \in Calls
        BY <3>1, TailFacts DEF StartCall, TypeOK, Wk
      <4>2. Head(wk.chain).c \in Callers
        BY <4>1 DEF Calls
      <4>. QED BY <3>1, <4>2 DEF StartCall
    <3>2. CASE EndCall
      <4>1. wk.running \in Callers
        BY <3>2 DEF EndCall, TypeOK, Wk
      <4>. QED BY <3>2, <4>1 DEF EndCall
    <3>. QED BY <1>8, <3>1, <3>2
  <2>. QED BY <2>1, <2>2 DEF Posted, Posts, OthersKept, bridgeVars
<1>9. CASE Ask
  BY <1>9 DEF Ask, Kinds
<1>10. CASE Bridge
  BY <1>10 DEF Bridge
<1>11. CASE Restart \/ CloseDocument
  BY <1>1, <1>2, <1>11 DEF Restart, CloseDocument
<1>. QED BY <1>3, <1>4, <1>5, <1>6, <1>7, <1>8, <1>9, <1>10, <1>11 DEF Next, MainThread, Worker

(* A posted request is one of a kind, or another message.                  *)
LEMMA PostType ==
  ASSUME TypeOK, NEW i \in DOMAIN posted
  PROVE  posted[i] \in Posts /\ (posted[i].type = "request" => posted[i].n \in Requests)
<1>1. posted[i] \in Posts
  BY DEF TypeOK
<1>. QED BY <1>1 DEF Posts

(* Whoever leaves the bridge alone leaves its invariant.                   *)
LEMMA BridgeStaysInv == ASSUME BridgeInv, UNCHANGED bridgeVars PROVE BridgeInv'
BY DEF BridgeInv, InTurn, Carries, OwnAnswer, bridgeVars

(* A new document has a bridge on which nothing was asked.                 *)
LEMMA BridgeGoneInv == ASSUME BridgeGone PROVE BridgeInv'
<1>1. /\ waiting' = None /\ DOMAIN posted' = {} /\ signing' = {} /\ written' = None
      /\ answer'.of = answer'.req
  BY DEF BridgeGone, NoAnswer
<1>2. \A kind \in Kinds : InTurn(kind)'
  BY <1>1, BridgeAssumption DEF InTurn
<1>. QED BY <1>1, <1>2 DEF BridgeInv, OwnAnswer

(* A message that is no request leaves the queue.                          *)
LEMMA DeliveredInv == ASSUME TypeOK, BridgeInv, Delivered PROVE BridgeInv'
<1>1. /\ DOMAIN posted = 1..Len(posted) /\ Len(posted) \in Nat \ {0}
      /\ DOMAIN posted' = 1..(Len(posted) - 1)
      /\ \A i \in DOMAIN posted' : posted'[i] = posted[i + 1] /\ i + 1 \in DOMAIN posted
  BY TailFacts DEF Delivered, TypeOK
<1>2. ASSUME NEW kind \in Kinds, InTurn(kind) PROVE InTurn(kind)'
  BY <1>1, <1>2 DEF Delivered, OthersKept, InTurn, Carries
<1>. QED BY <1>1, <1>2 DEF Delivered, OthersKept, BridgeInv, OwnAnswer

(* A message that is no request enters the queue.                          *)
LEMMA PostedInv == ASSUME TypeOK, BridgeInv, Posted PROVE BridgeInv'
<1>1. PICK m \in Posts : m.type # "request" /\ posted' = Append(posted, m)
  BY DEF Posted
<1>2. /\ DOMAIN posted = 1..Len(posted) /\ Len(posted) \in Nat
      /\ DOMAIN posted' = 1..(Len(posted) + 1)
      /\ \A i \in DOMAIN posted' :
           IF i \in DOMAIN posted THEN posted'[i] = posted[i] ELSE posted'[i].type # "request"
  BY <1>1, AppendFacts DEF TypeOK
<1>3. ASSUME NEW kind \in Kinds, InTurn(kind) PROVE InTurn(kind)'
  BY <1>2, <1>3 DEF Posted, OthersKept, InTurn, Carries
<1>. QED BY <1>2, <1>3 DEF Posted, OthersKept, BridgeInv, OwnAnswer

(* The request that blocks the worker is new.                              *)
LEMMA BlockInv ==
  ASSUME TypeOK, BridgeInv, NEW kind \in Kinds, Block(kind), TypeOK'
  PROVE  BridgeInv'
<1>. DEFINE n == Len(asked) + 1
<1>1. /\ waiting = None /\ waiting' = n /\ DOMAIN asked = 1..Len(asked) /\ Len(asked) \in Nat
      /\ Len(asked') = n /\ DOMAIN asked' = 1..n /\ asked'[n] = kind
      /\ \A i \in DOMAIN asked : asked'[i] = asked[i]
  BY AppendFacts DEF Block, TypeOK, BridgeTypeOK
<1>2. /\ DOMAIN posted = 1..Len(posted) /\ Len(posted) \in Nat
      /\ DOMAIN posted' = 1..(Len(posted) + 1)
      /\ \A i \in DOMAIN posted : posted'[i] = posted[i]
      /\ posted'[Len(posted) + 1].type = "request" /\ posted'[Len(posted) + 1].n = n
  <2>1. n \in Requests
    BY <1>1, BridgeAssumption DEF Block, Requests
  <2>2. Request(n) \in Posts
    BY <2>1 DEF Request, Message, Posts
  <2>. QED BY <1>1, <2>2, AppendFacts DEF Block, TypeOK, Request, Message
<1>3. /\ signal' = [signal EXCEPT ![kind] = FALSE] /\ signal'[kind] = FALSE
      /\ \A k \in Kinds \ {kind} : signal'[k] = signal[k]
      /\ UNCHANGED <<buffer, signing, written, answer, late>>
  BY DEF Block, TypeOK, BridgeTypeOK
<1>4. /\ \A i \in DOMAIN posted : posted[i].type = "request" => posted[i].n \in DOMAIN asked
      /\ signing \subseteq {m \in DOMAIN asked : asked[m] = "sign"}
  BY DEF BridgeInv
<1>5. \A i \in DOMAIN asked : i # None /\ i # n
  BY <1>1, BridgeAssumption
<1>6. ASSUME NEW k \in Kinds \ late, InTurn(k) PROVE InTurn(k)'
  <2>1. written # k
    BY <1>1, <1>6 DEF InTurn
  <2>2. \A i \in DOMAIN posted : ~Carries(i, k)
    BY <1>1, <1>4, <1>5, <1>6 DEF InTurn, Carries
  <2>3. \A m \in signing : asked[m] # k
    BY <1>1, <1>4, <1>5, <1>6 DEF InTurn
  <2>4. \A i \in DOMAIN posted : ~Carries(i, k)'
    BY <1>1, <1>2, <1>4, <2>2 DEF Carries
  <2>5. \A m \in signing' : asked'[m] # k /\ m # n
    BY <1>1, <1>3, <1>4, <1>5, <2>3
  <2>6. \A i \in DOMAIN posted' : Carries(i, k)' => i = Len(posted) + 1 /\ k = kind
    BY <1>1, <1>2, <2>4 DEF Carries
  <2>. QED BY <1>1, <1>2, <1>3, <2>1, <2>5, <2>6 DEF InTurn
<1>7. waiting' = Len(asked') /\ \A i \in DOMAIN posted' : posted'[i].type = "request" => posted'[i].n \in DOMAIN asked'
  BY <1>1, <1>2, <1>4
<1>8. signing' \subseteq {m \in DOMAIN asked' : asked'[m] = "sign"}
  BY <1>1, <1>3, <1>4
<1>9. (answer'.of # answer'.req => answer'.req \in DOMAIN asked') /\ OwnAnswer'
  BY <1>1, <1>3 DEF BridgeInv, OwnAnswer
<1>. QED BY <1>3, <1>6, <1>7, <1>8, <1>9 DEF BridgeInv

(* Without shared memory the worker fetches by itself and reads its own    *)
(* answer.                                                                 *)
LEMMA FetchDirectInv ==
  ASSUME TypeOK, BridgeInv, NEW reply \in Replies, FetchDirect(reply)
  PROVE  BridgeInv'
<1>. DEFINE n == Len(asked) + 1
<1>1. /\ waiting = None /\ waiting' = None /\ DOMAIN asked = 1..Len(asked) /\ Len(asked) \in Nat
      /\ Len(asked') = n /\ DOMAIN asked' = 1..n
      /\ \A i \in DOMAIN asked : asked'[i] = asked[i]
  BY AppendFacts DEF FetchDirect, TypeOK, BridgeTypeOK, Kinds
<1>2. answer'.of = answer'.req /\ UNCHANGED <<signal, buffer, signing, written, late>>
  BY <1>1 DEF FetchDirect
<1>3. \A i \in DOMAIN posted' : posted'[i].type = "request" =>
        i \in DOMAIN posted /\ posted'[i] = posted[i]
  <2>1. Message("http401", 0) \in Posts /\ Message("http401", 0).type = "http401"
    BY DEF Message, Posts
  <2>. QED BY <2>1, AppendFacts DEF FetchDirect, TypeOK
<1>4. /\ \A i \in DOMAIN posted : posted[i].type = "request" => posted[i].n \in DOMAIN asked
      /\ signing \subseteq {m \in DOMAIN asked : asked[m] = "sign"}
  BY DEF BridgeInv
<1>5. \A i \in DOMAIN asked : i # None
  BY <1>1, BridgeAssumption
<1>6. ASSUME NEW k \in Kinds \ late, InTurn(k) PROVE InTurn(k)'
  <2>1. written # k
    BY <1>1, <1>6 DEF InTurn
  <2>2. \A i \in DOMAIN posted : ~Carries(i, k)
    BY <1>1, <1>4, <1>5, <1>6 DEF InTurn, Carries
  <2>3. \A m \in signing : asked[m] # k
    BY <1>1, <1>4, <1>5, <1>6 DEF InTurn
  <2>4. \A i \in DOMAIN posted' : ~Carries(i, k)'
    BY <1>1, <1>3, <1>4, <2>2 DEF Carries
  <2>5. \A m \in signing' : asked'[m] # k
    BY <1>1, <1>2, <1>4, <2>3
  <2>. QED BY <1>1, <1>2, <2>1, <2>4, <2>5 DEF InTurn
<1>7. \A i \in DOMAIN posted' : posted'[i].type = "request" => posted'[i].n \in DOMAIN asked'
  BY <1>1, <1>3, <1>4
<1>8. signing' \subseteq {m \in DOMAIN asked' : asked'[m] = "sign"}
  BY <1>1, <1>2, <1>4
<1>. QED BY <1>1, <1>2, <1>6, <1>7, <1>8 DEF BridgeInv, OwnAnswer

(* What the main thread takes from its queue and what it leaves.           *)
LEMMA TakeRequest ==
  ASSUME TypeOK, BridgeInv, Handling("request"), posted' = Tail(posted)
  PROVE  /\ DOMAIN posted = 1..Len(posted) /\ Len(posted) \in Nat \ {0} /\ 1 \in DOMAIN posted
         /\ Head(posted) = posted[1] /\ Head(posted).type = "request"
         /\ Head(posted).n \in DOMAIN asked
         /\ DOMAIN posted' = 1..(Len(posted) - 1)
         /\ \A i \in DOMAIN posted' : posted'[i] = posted[i + 1] /\ i + 1 \in DOMAIN posted
                                      /\ i + 1 # 1
BY TailFacts DEF Handling, TypeOK, BridgeInv

(* The main thread fetches, writes the buffer and raises the signal in one *)
(* handler.                                                                *)
LEMMA NetworkInv ==
  ASSUME TypeOK, BridgeInv, NEW reply \in Replies, HandleNetworkRequest(reply)
  PROVE  BridgeInv'
<1>. DEFINE n == Head(posted).n
<1>1. Handling("request") /\ posted' = Tail(posted) /\ asked[n] = "fetch" /\ written = None
  BY DEF HandleNetworkRequest, Handling, MainFree
<1>2. /\ written' = "fetch" /\ UNCHANGED <<asked, waiting, signal, signing, answer, late>>
      /\ buffer'["fetch"].of = n /\ buffer'["sign"] = buffer["sign"]
  BY DEF HandleNetworkRequest, Write, TypeOK, BridgeTypeOK, Kinds
<1>3. InTurn("sign") => InTurn("sign")'
  BY <1>1, <1>2, TakeRequest DEF InTurn, Carries
<1>4. InTurn("fetch") => InTurn("fetch")'
  <2>. SUFFICES ASSUME InTurn("fetch") PROVE InTurn("fetch")'
    OBVIOUS
  <2>1. Carries(1, "fetch") /\ 1 \in DOMAIN posted
    BY <1>1, TakeRequest DEF Carries
  <2>2. /\ n = waiting /\ waiting \notin signing /\ ~signal["fetch"]
        /\ \A j \in DOMAIN posted : Carries(j, "fetch") => j = 1
    BY <1>1, <2>1, TakeRequest DEF InTurn
  <2>3. \A i \in DOMAIN posted' : ~Carries(i, "fetch")'
    BY <1>1, <1>2, <2>2, TakeRequest DEF Carries
  <2>4. \A m \in signing : asked[m] # "fetch"
    BY DEF BridgeInv
  <2>5. n # None
    <3>1. n \in DOMAIN asked /\ asked \in Seq(Kinds)
      BY <1>1, TakeRequest DEF TypeOK, BridgeTypeOK
    <3>. QED BY <3>1, BridgeAssumption
  <2>. QED BY <1>1, <1>2, <2>2, <2>3, <2>4, <2>5 DEF InTurn
<1>5. \A i \in DOMAIN posted' : posted'[i].type = "request" => posted'[i].n \in DOMAIN asked
  BY <1>1, TakeRequest DEF BridgeInv
<1>. QED BY <1>2, <1>3, <1>4, <1>5 DEF BridgeInv, OwnAnswer, Kinds

(* The main thread passes a request for a signature on to the background.  *)
LEMMA SignRequestInv == ASSUME TypeOK, BridgeInv, HandleSignRequest PROVE BridgeInv'
<1>. DEFINE n == Head(posted).n
<1>1. /\ Handling("request") /\ posted' = Tail(posted) /\ asked[n] = "sign" /\ written = None
      /\ signing' = signing \cup {n}
      /\ UNCHANGED <<asked, waiting, signal, buffer, written, answer, late>>
  BY DEF HandleSignRequest, Handling, MainFree
<1>2. InTurn("fetch") => InTurn("fetch")'
  BY <1>1, TakeRequest DEF InTurn, Carries
<1>3. InTurn("sign") => InTurn("sign")'
  <2>. SUFFICES ASSUME InTurn("sign") PROVE InTurn("sign")'
    OBVIOUS
  <2>1. Carries(1, "sign") /\ 1 \in DOMAIN posted
    BY <1>1, TakeRequest DEF Carries
  <2>2. /\ n = waiting /\ waiting \notin signing /\ ~signal["sign"]
        /\ \A j \in DOMAIN posted : Carries(j, "sign") => j = 1
    BY <1>1, <2>1, TakeRequest DEF InTurn
  <2>3. \A i \in DOMAIN posted' : ~Carries(i, "sign")'
    BY <1>1, <2>2, TakeRequest DEF Carries
  <2>. QED BY <1>1, <2>2, <2>3, BridgeAssumption DEF InTurn, Kinds
<1>4. /\ \A i \in DOMAIN posted' : posted'[i].type = "request" => posted'[i].n \in DOMAIN asked
      /\ signing' \subseteq {m \in DOMAIN asked : asked[m] = "sign"}
  BY <1>1, TakeRequest DEF BridgeInv
<1>. QED BY <1>1, <1>2, <1>3, <1>4 DEF BridgeInv, OwnAnswer, Kinds

(* The background's answer is written into the buffer.                     *)
LEMMA SignAnsweredInv ==
  ASSUME TypeOK, BridgeInv, NEW n \in signing, NEW ok \in BOOLEAN, SignAnswered(n, ok)
  PROVE  BridgeInv'
<1>1. /\ written = None /\ written' = "sign" /\ signing' = signing \ {n}
      /\ UNCHANGED <<asked, waiting, signal, posted, answer, late>>
      /\ buffer'["sign"].of = n /\ buffer'["fetch"] = buffer["fetch"]
  BY DEF SignAnswered, MainFree, Write, TypeOK, BridgeTypeOK, Kinds
<1>2. n \in DOMAIN asked /\ asked[n] = "sign" /\ n # None
  BY BridgeAssumption DEF BridgeInv, TypeOK, BridgeTypeOK
<1>3. InTurn("fetch") => InTurn("fetch")'
  BY <1>1 DEF InTurn, Carries
<1>4. InTurn("sign") => InTurn("sign")'
  <2>. SUFFICES ASSUME InTurn("sign") PROVE InTurn("sign")'
    OBVIOUS
  <2>1. n = waiting /\ ~signal["sign"]
    BY <1>2 DEF InTurn
  <2>2. \A i \in DOMAIN posted : ~Carries(i, "sign")
    BY <2>1 DEF InTurn
  <2>3. \A m \in signing' : asked[m] # "sign"
    BY <1>1, <2>1 DEF InTurn
  <2>. QED BY <1>1, <1>2, <2>1, <2>2, <2>3 DEF InTurn, Carries
<1>. QED BY <1>1, <1>3, <1>4 DEF BridgeInv, OwnAnswer, Kinds

(* The signal is raised for an answer that is written.                     *)
LEMMA RaiseInv == ASSUME TypeOK, BridgeInv, Raise PROVE BridgeInv'
<1>1. /\ written \in Kinds /\ written' = None /\ signal'[written] = TRUE
      /\ \A k \in Kinds \ {written} : signal'[k] = signal[k]
      /\ UNCHANGED <<asked, waiting, buffer, posted, signing, answer, late>>
  BY DEF Raise, MainFree, TypeOK, BridgeTypeOK
<1>2. ASSUME NEW k \in Kinds, InTurn(k) PROVE InTurn(k)'
  BY <1>1, <1>2, BridgeAssumption DEF InTurn, Carries
<1>. QED BY <1>1, <1>2 DEF BridgeInv, OwnAnswer

(* The worker stops waiting for a request that is answered, or gives it up:*)
(* nothing of a kind that has not timed out is left.                       *)
LEMMA WaitEndsInv ==
  ASSUME TypeOK, BridgeInv, waiting # None, waiting' = None,
         UNCHANGED <<asked, signal, buffer, posted, signing, written>>,
         late \subseteq late',
         signal[asked[waiting]] \/ asked[waiting] \in late',
         answer'.of # answer'.req => answer'.req \in DOMAIN asked /\ asked[answer'.req] \in late'
  PROVE  BridgeInv'
<1>1. ASSUME NEW k \in Kinds \ late' PROVE InTurn(k)'
  <2>1. InTurn(k) /\ (asked[waiting] = k => signal[k])
    BY DEF BridgeInv
  <2>2. \A i \in DOMAIN posted : ~Carries(i, k)
    BY <2>1 DEF InTurn, Carries
  <2>3. \A n \in signing : asked[n] # k
    BY <2>1 DEF InTurn
  <2>4. written # k
    BY <2>1 DEF InTurn
  <2>. QED BY <2>2, <2>3, <2>4 DEF InTurn, Carries
<1>. QED BY <1>1 DEF BridgeInv, OwnAnswer

(* The worker wakes and reads the answer in the buffer.                    *)
LEMMA WakeInv == ASSUME TypeOK, BridgeInv, Wake PROVE BridgeInv'
<1>1. /\ waiting \in DOMAIN asked /\ asked[waiting] \in Kinds
      /\ answer'.req = waiting /\ answer'.of = buffer[asked[waiting]].of
  BY WaitingType DEF Wake, Given
<1>2. asked[waiting] \notin late => answer'.of = waiting
  BY <1>1 DEF Wake, BridgeInv, InTurn
<1>. QED BY <1>1, <1>2, WaitEndsInv DEF Wake

(* The worker gives a request up: its kind is late from then on.           *)
LEMMA WaitTimeoutInv == ASSUME TypeOK, BridgeInv, WaitTimeout PROVE BridgeInv'
BY WaitEndsInv DEF WaitTimeout

(* At most one request of each kind is under way, and at one place, until  *)
(* one of its kind has timed out.                                          *)
THEOREM BridgeInvariance == Spec => []BridgeInv
<1>1. Init => BridgeInv
  <2>. SUFFICES ASSUME Init PROVE BridgeInv
    OBVIOUS
  <2>1. /\ waiting = None /\ DOMAIN posted = {} /\ signing = {} /\ written = None
        /\ answer.of = answer.req
    BY DEF Init, BridgeInit, NoAnswer
  <2>2. \A kind \in Kinds : InTurn(kind)
    BY <2>1, BridgeAssumption DEF InTurn
  <2>. QED BY <2>1, <2>2 DEF BridgeInv, OwnAnswer
<1>2. ASSUME TypeOK, BridgeInv, Next, TypeOK' PROVE BridgeInv'
  BY <1>2, BridgeSteps, BridgeStaysInv, BridgeGoneInv, DeliveredInv, PostedInv, BlockInv,
     FetchDirectInv, NetworkInv, SignRequestInv, SignAnsweredInv, RaiseInv, WakeInv, WaitTimeoutInv
<1>3. ASSUME BridgeInv, UNCHANGED vars PROVE BridgeInv'
  BY <1>3, BridgeStaysInv DEF vars
<1>. QED BY TypeCorrect, <1>1, <1>2, <1>3, PTL DEF Spec

(* A signature or an HTTP answer is given to the request it was made for,  *)
(* until a request of its kind has timed out.                              *)
THEOREM AnswersMatch == Spec => []OwnAnswer
<1>1. BridgeInv => OwnAnswer
  BY DEF BridgeInv
<1>. QED BY BridgeInvariance, <1>1, PTL

(***************************************************************************)
(* The WASM                                                                *)
(***************************************************************************)
WasmKept == host'.sent = host.sent /\ wk'.q = wk.q /\ wk'.chain = wk.chain /\ wk'.cache = wk.cache

Ordered(m) ==
  /\ wk'.q = Append(wk.q, m) /\ wk'.chain = wk.chain /\ wk'.cache = wk.cache

(* What a step of the system is to the calls and their WASM.               *)
LEMMA WasmSteps ==
  ASSUME TypeOK, Next
  PROVE  \/ WasmKept
         \/ host'.sent = {} /\ wk' = NoWorker
         \/ host'.sent = host.sent /\ \E m \in Orders : m.type # "call" /\ Ordered(m)
         \/ \E c \in Callers :
              /\ Ordered([type |-> "call", c |-> c, wasm |-> DnaOf[c] \notin host.sent])
              /\ host'.sent = host.sent \cup {DnaOf[c]}
         \/ WorkerMessage \/ StartCall
<1>0. host \in Host /\ wk \in Wk
  BY DEF TypeOK
<1>1. ASSUME HostStays PROVE WasmKept
  BY <1>1 DEF HostStays, WasmKept
<1>2. ASSUME NEW h, HostGone(h), h.sent = {} PROVE host'.sent = {} /\ wk' = NoWorker
  BY <1>2 DEF HostGone
<1>3. NoHost.sent = {} /\ \A u \in {"loading", "up"} : [NoHost EXCEPT !.up = u].sent = {}
  BY DEF NoHost
<1>4. CASE \E c \in Callers : Start(c) \/ Ensure(c) \/ Recreate(c) \/ CreateReturns(c) \/ ReadyTimeout(c)
  BY <1>1, <1>2, <1>3, <1>4 DEF Start, Ensure, Recreate, Create, CreateReturns, ReadyTimeout
<1>5. CASE \E c \in Callers : SendWork(c) \/ InitWorker(c) \/ SendLinker(c) \/ WorkerTimeout(c)
  BY <1>0, <1>5 DEF SendWork, InitWorker, SendLinker, WorkerTimeout, WasmKept, Host
<1>6. ASSUME NEW h \in Host, h.sent = host.sent, host' = h, wk' = Forward(h)
      PROVE  \/ WasmKept
             \/ host'.sent = host.sent /\ \E m \in Orders : m.type # "call" /\ Ordered(m)
  <2>1. Settings(h) \in Orders /\ Settings(h).type # "call"
    BY <1>6, SettingsType DEF Settings
  <2>. QED BY <1>0, <1>6, <2>1, ToWorkerType DEF Forward, Ordered, WasmKept
<1>7. CASE \E c \in Callers : SendConfigure(c)
  <2>1. PICK c \in Callers : SendConfigure(c)
    BY <1>7
  <2>. DEFINE token == IF sc.job[c] = "restore" THEN bg.token ELSE 0
              h == [host EXCEPT !.url = TRUE, !.token = IF token = 0 THEN @ ELSE token,
                                !.ws = IF @ = "none" THEN "connecting" ELSE @]
  <2>2. h \in Host /\ h.sent = host.sent
    BY DEF TypeOK, Host, Bg
  <2>3. UNCHANGED <<host, wk>> \/ (host' = h /\ wk' = Forward(h))
    BY <2>1 DEF SendConfigure
  <2>. HIDE DEF h
  <2>. QED BY <1>6, <2>2, <2>3 DEF WasmKept
<1>8. CASE SessionToken
  <2>. DEFINE token == honoured + 1
              h == [host EXCEPT !.ws = "connected", !.token = token]
  <2>1. token \in Nat
    BY DEF TypeOK
  <2>2. host' = h /\ wk' = Forward(h)
    BY <1>8 DEF SessionToken
  <2>. HIDE DEF token
  <2>3. h \in Host /\ h.sent = host.sent
    BY <1>0, <2>1 DEF Host
  <2>. HIDE DEF h
  <2>. QED BY <1>6, <2>2, <2>3
<1>9. CASE \E c \in Callers : InitAwaited(c)
  <2>1. PICK c \in Callers : InitAwaited(c)
    BY <1>9
  <2>2. [type |-> "work", c |-> c] \in Orders
    BY DEF Orders
  <2>3. CASE wk' = ToWorker(wk, [type |-> "work", c |-> c])
    BY <1>0, <2>1, <2>2, <2>3, ToWorkerType DEF InitAwaited, Ordered
  <2>. QED BY <2>1, <2>3 DEF InitAwaited, WasmKept
<1>10. CASE \E c \in Callers : ContextRead(c)
  <2>1. PICK c \in Callers : ContextRead(c)
    BY <1>10
  <2>. DEFINE m == [type |-> "call", c |-> c, wasm |-> DnaOf[c] \notin host.sent]
  <2>2. m \in Orders
    BY DEF Orders, Calls
  <2>3. CASE wk' = ToWorker(wk, m) /\ host' = [host EXCEPT !.sent = @ \cup {DnaOf[c]}]
    <3>1. Ordered(m)
      BY <1>0, <2>2, <2>3, ToWorkerType DEF Ordered
    <3>2. host'.sent = host.sent \cup {DnaOf[c]}
      BY <1>0, <2>3 DEF Host
    <3>. QED BY <3>1, <3>2
  <2>. QED BY <2>1, <2>3 DEF ContextRead, WasmKept
<1>11. CASE DocumentLoaded \/ OffscreenReady
  BY <1>0, <1>1, <1>11 DEF DocumentLoaded, OffscreenReady, WasmKept, Host
<1>12. CASE WorkerLoaded
  <2>. DEFINE h == IF Chrome THEN NoHost ELSE host
              m == [Settings(h) EXCEPT !.type = "init"]
  <2>1. m \in Orders /\ m.type # "call"
    <3>1. h \in Host
      BY <1>0 DEF NoHost, Host
    <3>. QED BY <3>1, SettingsType DEF Settings
  <2>2. wk' = ToWorker(wk, m) /\ host'.sent = host.sent
    BY <1>0, <1>12 DEF WorkerLoaded, Host
  <2>. HIDE DEF m
  <2>. QED BY <1>0, <2>1, <2>2, ToWorkerType DEF Ordered
<1>13. CASE InitAnswer
  <2>1. host'.sent = host.sent
    BY <1>0, <1>13 DEF InitAnswer, Host
  <2>2. Settings(host) \in Orders /\ Settings(host).type # "call"
    BY <1>0, SettingsType DEF Settings
  <2>. QED BY <1>0, <1>13, <2>1, <2>2, ToWorkerType DEF InitAnswer, Ordered, WasmKept
<1>14. CASE Answered \/ Http401 \/ Revoke \/ Ask \/ Bridge \/ \E reply \in Replies : NetworkRequest(reply)
  BY <1>0, <1>14 DEF Answered, Http401, Revoke, Ask, Bridge, NetworkRequest, Reauth, WasmKept, Host
<1>15. CASE EndCall
  BY <1>0, <1>15 DEF EndCall, WasmKept, Wk
<1>16. CASE Restart \/ CloseDocument
  BY <1>1, <1>2, <1>3, <1>16 DEF Restart, CloseDocument
<1>. QED
  BY <1>4, <1>5, <1>7, <1>8, <1>9, <1>10, <1>11, <1>12, <1>13, <1>14, <1>15, <1>16
  DEF Next, Caller, MainThread, Worker

(* What the worker holds when its types hold.                              *)
LEMMA WkType ==
  ASSUME TypeOK
  PROVE  /\ wk.q \in Seq(Orders) /\ DOMAIN wk.q = 1..Len(wk.q) /\ Len(wk.q) \in Nat
         /\ wk.chain \in Seq(Calls) /\ DOMAIN wk.chain = 1..Len(wk.chain) /\ Len(wk.chain) \in Nat
         /\ \A i \in DOMAIN wk.q : wk.q[i] \in Orders
         /\ \A i \in DOMAIN wk.chain : wk.chain[i] \in Calls /\ wk.chain[i].type = "call"
                                       /\ wk.chain[i].wasm \in BOOLEAN
<1>1. wk.q \in Seq(Orders) /\ wk.chain \in Seq(Calls)
  BY DEF TypeOK, Wk
<1>2. \A m \in Calls : m.type = "call" /\ m.wasm \in BOOLEAN
  BY DEF Calls
<1>3. \A S : \A s \in Seq(S) : DOMAIN s = 1..Len(s) /\ Len(s) \in Nat /\ \A i \in DOMAIN s : s[i] \in S
  OBVIOUS
<1>. QED BY <1>1, <1>2, <1>3

(* The queue of the worker grows by m, at whose place it had to be there.  *)
LEMMA OrderedInv ==
  ASSUME TypeOK, WasmInv, NEW m \in Orders, Ordered(m), NEW sent, host'.sent = host.sent \cup sent,
         \A d \in sent : Brings(m, d) \/ d \in host.sent,
         m.type = "call" => Brings(m, DnaOf[m.c]) \/ DnaOf[m.c] \in host.sent
  PROVE  WasmInv'
<1>. DEFINE n == Len(wk.q) + 1
<1>1. /\ DOMAIN wk.q = 1..Len(wk.q) /\ Len(wk.q) \in Nat /\ DOMAIN wk'.q = 1..n /\ wk'.q[n] = m
      /\ \A i \in DOMAIN wk.q : wk'.q[i] = wk.q[i]
      /\ wk'.chain = wk.chain /\ wk'.cache = wk.cache
  BY WkType, AppendFacts DEF Ordered
<1>2. ASSUME NEW d \in host.sent
      PROVE  \/ d \in wk'.cache \/ \E j \in DOMAIN wk'.chain : Brings(wk'.chain[j], d)
             \/ \E j \in DOMAIN wk.q : Brings(wk'.q[j], d)
  BY <1>1 DEF WasmInv
<1>3. WasmPrecedes'
  <2>1. ASSUME NEW i \in DOMAIN wk.q, wk.q[i].type = "call", NEW d, d = DnaOf[wk.q[i].c]
        PROVE  \/ d \in wk'.cache \/ \E j \in DOMAIN wk'.chain : Brings(wk'.chain[j], d)
               \/ \E j \in 1..i : Brings(wk'.q[j], d)
    BY <1>1, <2>1 DEF WasmInv, WasmPrecedes
  <2>2. ASSUME m.type = "call", NEW d, d = DnaOf[m.c]
        PROVE  \/ d \in wk'.cache \/ \E j \in DOMAIN wk'.chain : Brings(wk'.chain[j], d)
               \/ \E j \in 1..n : Brings(wk'.q[j], d)
    <3>1. CASE Brings(m, d)
      BY <1>1, <3>1
    <3>2. CASE d \in host.sent
      BY <1>1, <1>2, <3>2
    <3>. QED BY <2>2, <3>1, <3>2
  <2>. QED BY <1>1, <2>1, <2>2 DEF WasmInv, WasmPrecedes
<1>4. ASSUME NEW d \in host'.sent
      PROVE  \/ d \in wk'.cache \/ \E j \in DOMAIN wk'.chain : Brings(wk'.chain[j], d)
             \/ \E j \in DOMAIN wk'.q : Brings(wk'.q[j], d)
  <2>1. CASE d \in host.sent
    BY <1>1, <1>2, <2>1
  <2>2. CASE Brings(m, d)
    BY <1>1, <2>2
  <2>. QED BY <2>1, <2>2
<1>. QED BY <1>3, <1>4 DEF WasmInv

(* The worker takes a message: a call goes to the end of its chain.        *)
LEMMA WorkerMessageWasm == ASSUME TypeOK, WasmInv, WorkerMessage PROVE WasmInv'
<1>. DEFINE m == Head(wk.q)
<1>1. /\ DOMAIN wk.q = 1..Len(wk.q) /\ Len(wk.q) \in Nat \ {0} /\ m = wk.q[1] /\ m \in Orders
      /\ DOMAIN Tail(wk.q) = 1..(Len(wk.q) - 1)
      /\ \A i \in DOMAIN Tail(wk.q) : Tail(wk.q)[i] = wk.q[i + 1]
  BY WkType, TailFacts DEF WorkerMessage
<1>2. /\ wk'.q = Tail(wk.q) /\ wk'.cache = wk.cache /\ host'.sent = host.sent
      /\ IF m.type = "call" THEN wk'.chain = Append(wk.chain, m) ELSE wk'.chain = wk.chain
  BY DEF WorkerMessage, TypeOK, Wk
<1>3. CASE m.type # "call"
  <2>1. \A j \in DOMAIN wk.q : \A d : Brings(wk.q[j], d) => j # 1
    BY <1>1, <1>3 DEF Brings
  <2>2. ASSUME NEW d, \E j \in DOMAIN wk.q : Brings(wk.q[j], d)
        PROVE  \E j \in DOMAIN wk'.q : Brings(wk'.q[j], d)
    <3>1. PICK j \in DOMAIN wk.q : Brings(wk.q[j], d)
      BY <2>2
    <3>2. j - 1 \in DOMAIN wk'.q /\ wk'.q[j - 1] = wk.q[j]
      <4>1. j # 1
        BY <2>1, <3>1
      <4>2. j - 1 \in DOMAIN Tail(wk.q) /\ (j - 1) + 1 = j
        BY <1>1, <3>1, <4>1
      <4>. QED BY <1>1, <1>2, <4>2
    <3>. QED BY <3>1, <3>2
  <2>3. ASSUME NEW i \in DOMAIN wk'.q, wk'.q[i].type = "call", NEW d, d = DnaOf[wk'.q[i].c]
        PROVE  \/ d \in wk'.cache \/ \E j \in DOMAIN wk'.chain : Brings(wk'.chain[j], d)
               \/ \E j \in 1..i : Brings(wk'.q[j], d)
    <3>1. i + 1 \in DOMAIN wk.q /\ wk'.q[i] = wk.q[i + 1]
      BY <1>1, <1>2
    <3>2. \/ d \in wk.cache \/ \E j \in DOMAIN wk.chain : Brings(wk.chain[j], d)
          \/ \E j \in 1..(i + 1) : Brings(wk.q[j], d)
      BY <2>3, <3>1 DEF WasmInv, WasmPrecedes
    <3>3. ASSUME NEW j \in 1..(i + 1), Brings(wk.q[j], d)
          PROVE  j - 1 \in 1..i /\ Brings(wk'.q[j - 1], d)
      <4>0. i \in 1..(Len(wk.q) - 1) /\ Len(wk.q) \in Nat /\ DOMAIN wk.q = 1..Len(wk.q)
        BY <1>1, <1>2
      <4>1. j \in DOMAIN wk.q
        BY <4>0
      <4>2. j # 1
        BY <2>1, <3>3, <4>1
      <4>3. j - 1 \in 1..i /\ j - 1 \in 1..(Len(wk.q) - 1) /\ (j - 1) + 1 = j
        BY <4>0, <4>2
      <4>. QED BY <1>1, <1>2, <3>3, <4>3
    <3>. QED BY <1>2, <1>3, <3>2, <3>3
  <2>4. wk'.chain = wk.chain
    BY <1>2, <1>3
  <2>. QED BY <1>2, <2>2, <2>3, <2>4 DEF WasmInv, WasmPrecedes
<1>4. CASE m.type = "call"
  <2>. DEFINE n == Len(wk.chain) + 1
  <2>1. m \in Calls
    BY <1>1, <1>4 DEF Orders, Calls
  <2>2. /\ DOMAIN wk.chain = 1..Len(wk.chain) /\ Len(wk.chain) \in Nat /\ DOMAIN wk'.chain = 1..n
        /\ wk'.chain[n] = m /\ \A i \in DOMAIN wk.chain : wk'.chain[i] = wk.chain[i]
    BY <1>2, <1>4, <2>1, WkType, AppendFacts
  <2>3. ASSUME NEW i \in DOMAIN wk.q, NEW d,
               \/ d \in wk.cache \/ \E j \in DOMAIN wk.chain : Brings(wk.chain[j], d)
               \/ \E j \in 1..i : Brings(wk.q[j], d)
        PROVE  \/ d \in wk'.cache \/ \E j \in DOMAIN wk'.chain : Brings(wk'.chain[j], d)
               \/ \E j \in 1..(i - 1) : Brings(wk'.q[j], d)
    <3>1. CASE d \in wk.cache
      BY <1>2, <3>1
    <3>2. CASE \E j \in DOMAIN wk.chain : Brings(wk.chain[j], d)
      BY <2>2, <3>2
    <3>3. ASSUME NEW j \in 1..i, Brings(wk.q[j], d)
          PROVE  \/ \E k \in DOMAIN wk'.chain : Brings(wk'.chain[k], d)
                 \/ \E k \in 1..(i - 1) : Brings(wk'.q[k], d)
      <4>1. CASE j = 1
        BY <1>1, <2>2, <3>3, <4>1
      <4>2. CASE j # 1
        <5>1. j - 1 \in 1..(i - 1) /\ wk'.q[j - 1] = wk.q[j]
          BY <1>1, <1>2, <4>2
        <5>. QED BY <3>3, <5>1
      <4>. QED BY <4>1, <4>2
    <3>. QED BY <2>3, <3>1, <3>2, <3>3
  <2>4. ASSUME NEW i \in DOMAIN wk'.chain, NEW d, d = DnaOf[wk'.chain[i].c]
        PROVE  d \in wk'.cache \/ \E j \in 1..i : Brings(wk'.chain[j], d)
    <3>1. CASE i \in DOMAIN wk.chain
      BY <1>2, <2>2, <2>4, <3>1 DEF WasmInv, WasmPrecedes
    <3>2. CASE i = n
      <4>1. /\ 1 \in DOMAIN wk.q /\ d = DnaOf[wk.q[1].c] /\ wk.q[1].type = "call"
        BY <1>1, <1>4, <2>2, <2>4, <3>2
      <4>2. \/ d \in wk.cache \/ \E j \in DOMAIN wk.chain : Brings(wk.chain[j], d)
            \/ \E j \in 1..1 : Brings(wk.q[j], d)
        BY <4>1 DEF WasmInv, WasmPrecedes
      <4>3. ~ \E j \in 1..(1 - 1) : Brings(wk'.q[j], d)
        OBVIOUS
      <4>4. d \in wk'.cache \/ \E j \in DOMAIN wk'.chain : Brings(wk'.chain[j], d)
        BY <2>3, <4>1, <4>2, <4>3
      <4>. QED BY <2>2, <3>2, <4>4
    <3>. QED BY <2>2, <3>1, <3>2
  <2>5. ASSUME NEW i \in DOMAIN wk'.q, wk'.q[i].type = "call", NEW d, d = DnaOf[wk'.q[i].c]
        PROVE  \/ d \in wk'.cache \/ \E j \in DOMAIN wk'.chain : Brings(wk'.chain[j], d)
               \/ \E j \in 1..i : Brings(wk'.q[j], d)
    <3>1. i \in Nat /\ i + 1 \in DOMAIN wk.q /\ wk'.q[i] = wk.q[i + 1] /\ (i + 1) - 1 = i
      BY <1>1, <1>2
    <3>2. \/ d \in wk.cache \/ \E j \in DOMAIN wk.chain : Brings(wk.chain[j], d)
          \/ \E j \in 1..(i + 1) : Brings(wk.q[j], d)
      BY <2>5, <3>1 DEF WasmInv, WasmPrecedes
    <3>. HIDE DEF m
    <3>. QED BY <2>3, <3>1, <3>2
  <2>6. ASSUME NEW d \in host'.sent
        PROVE  \/ d \in wk'.cache \/ \E j \in DOMAIN wk'.chain : Brings(wk'.chain[j], d)
               \/ \E j \in DOMAIN wk'.q : Brings(wk'.q[j], d)
    <3>1. Len(wk.q) \in DOMAIN wk.q /\ DOMAIN wk'.q = 1..(Len(wk.q) - 1)
      BY <1>1, <1>2
    <3>2. \/ d \in wk.cache \/ \E j \in DOMAIN wk.chain : Brings(wk.chain[j], d)
          \/ \E j \in 1..Len(wk.q) : Brings(wk.q[j], d)
      BY <1>1, <1>2 DEF WasmInv
    <3>. QED BY <2>3, <3>1, <3>2
  <2>. QED BY <2>4, <2>5, <2>6 DEF WasmInv, WasmPrecedes
<1>. QED BY <1>3, <1>4

(* The first call of the chain starts: its WASM, if it brings it, is cached*)
(* and what needed it needs it no more.                                    *)
LEMMA StartCallWasm == ASSUME TypeOK, WasmInv, StartCall PROVE WasmInv'
<1>. DEFINE m == Head(wk.chain)
<1>1. /\ DOMAIN wk.chain = 1..Len(wk.chain) /\ Len(wk.chain) \in Nat \ {0}
      /\ m = wk.chain[1] /\ m.type = "call"
      /\ DOMAIN Tail(wk.chain) = 1..(Len(wk.chain) - 1)
      /\ \A i \in DOMAIN Tail(wk.chain) : Tail(wk.chain)[i] = wk.chain[i + 1]
  BY WkType, TailFacts DEF StartCall
<1>2. /\ wk'.chain = Tail(wk.chain) /\ wk'.q = wk.q /\ host'.sent = host.sent
      /\ wk'.cache = IF m.wasm THEN wk.cache \cup {DnaOf[m.c]} ELSE wk.cache
  BY DEF StartCall, TypeOK, Wk
<1>. HIDE DEF m
<1>3. ASSUME NEW i \in DOMAIN wk.chain, NEW d, \E j \in 1..i : Brings(wk.chain[j], d)
      PROVE  d \in wk'.cache \/ \E j \in 1..(i - 1) : Brings(wk'.chain[j], d)
  <2>1. PICK j \in 1..i : Brings(wk.chain[j], d)
    BY <1>3
  <2>2. CASE j = 1
    BY <1>1, <1>2, <2>1, <2>2 DEF Brings
  <2>3. CASE j # 1
    <3>1. j - 1 \in 1..(i - 1) /\ j - 1 \in DOMAIN Tail(wk.chain) /\ (j - 1) + 1 = j
      BY <1>1, <1>3, <2>1, <2>3
    <3>. QED BY <1>1, <1>2, <2>1, <3>1
  <2>. QED BY <2>2, <2>3
<1>4. ASSUME NEW d, \E j \in DOMAIN wk.chain : Brings(wk.chain[j], d)
      PROVE  d \in wk'.cache \/ \E j \in DOMAIN wk'.chain : Brings(wk'.chain[j], d)
  <2>1. Len(wk.chain) \in DOMAIN wk.chain /\ \E j \in 1..Len(wk.chain) : Brings(wk.chain[j], d)
    BY <1>1, <1>4
  <2>. QED BY <1>1, <1>2, <1>3, <2>1
<1>5. ASSUME NEW i \in DOMAIN wk'.chain, NEW d, d = DnaOf[wk'.chain[i].c]
      PROVE  d \in wk'.cache \/ \E j \in 1..i : Brings(wk'.chain[j], d)
  <2>1. i \in Nat /\ i + 1 \in DOMAIN wk.chain /\ wk'.chain[i] = wk.chain[i + 1] /\ (i + 1) - 1 = i
    BY <1>1, <1>2
  <2>2. d \in wk.cache \/ \E j \in 1..(i + 1) : Brings(wk.chain[j], d)
    BY <1>5, <2>1 DEF WasmInv, WasmPrecedes
  <2>3. CASE d \in wk.cache
    BY <1>2, <2>3
  <2>4. CASE \E j \in 1..(i + 1) : Brings(wk.chain[j], d)
    BY <1>3, <2>1, <2>4
  <2>. QED BY <2>2, <2>3, <2>4
<1>6. wk.cache \subseteq wk'.cache
  BY <1>2
<1>. QED BY <1>2, <1>4, <1>5, <1>6 DEF WasmInv, WasmPrecedes

(* What counts as sent is cached by the worker or on its way to it, ahead  *)
(* of every call that relies on it.                                        *)
THEOREM WasmInvariance == Spec => []WasmInv
<1>1. Init => WasmInv
  <2>. SUFFICES ASSUME Init PROVE WasmInv
    OBVIOUS
  <2>1. wk.q = <<>> /\ wk.chain = <<>> /\ host.sent = {}
    BY DEF Init, NoWorker, NoHost
  <2>. QED BY <2>1 DEF WasmInv, WasmPrecedes
<1>2. ASSUME TypeOK, WasmInv, Next PROVE WasmInv'
  <2>1. CASE WasmKept
    BY <1>2, <2>1 DEF WasmKept, WasmInv, WasmPrecedes
  <2>2. CASE host'.sent = {} /\ wk' = NoWorker
    <3>1. DOMAIN wk'.q = {} /\ DOMAIN wk'.chain = {}
      BY <2>2 DEF NoWorker
    <3>. QED BY <2>2, <3>1 DEF WasmInv, WasmPrecedes
  <2>3. CASE host'.sent = host.sent /\ \E m \in Orders : m.type # "call" /\ Ordered(m)
    <3>1. host'.sent = host.sent \cup {}
      BY <2>3
    <3>. QED BY <1>2, <2>3, <3>1, OrderedInv
  <2>4. ASSUME NEW c \in Callers,
               Ordered([type |-> "call", c |-> c, wasm |-> DnaOf[c] \notin host.sent]),
               host'.sent = host.sent \cup {DnaOf[c]}
        PROVE  WasmInv'
    <3>. DEFINE m == [type |-> "call", c |-> c, wasm |-> DnaOf[c] \notin host.sent]
    <3>1. m \in Orders /\ m.c = c /\ (Brings(m, DnaOf[c]) \/ DnaOf[c] \in host.sent)
      BY DEF Orders, Calls, Brings
    <3>2. Ordered(m)
      BY <2>4
    <3>. HIDE DEF m
    <3>. QED BY <1>2, <2>4, <3>1, <3>2, OrderedInv
  <2>. QED BY <1>2, <2>1, <2>2, <2>3, <2>4, WasmSteps, WorkerMessageWasm, StartCallWasm
<1>3. ASSUME WasmInv, UNCHANGED vars PROVE WasmInv'
  BY <1>3 DEF vars, WasmInv, WasmPrecedes
<1>. QED BY TypeCorrect, <1>1, <1>2, <1>3, PTL DEF Spec

(* No call is ahead of the WASM it needs.                                  *)
THEOREM WasmComesFirst == Spec => []WasmPrecedes
<1>1. WasmInv => WasmPrecedes
  BY DEF WasmInv
<1>. QED BY WasmInvariance, <1>1, PTL

(***************************************************************************)
(* The settings                                                            *)
(***************************************************************************)
(* A step that keeps the document, starts the worker at most if it is up,  *)
(* and lets nobody wait for a document on Firefox.                         *)
LEMMA HostKept ==
  ASSUME HostInv, sc'.platform = sc.platform, host'.up = host.up,
         host'.worker = host.worker \/ host.up = "up",
         \A c \in Callers : at'[c] \in OnlyChrome => at[c] \in OnlyChrome \/ Chrome
  PROVE  HostInv'
BY DEF HostInv, Chrome

(* Where resumed callers are.                                              *)
LEMMA MovedFacts ==
  ASSUME TypeOK, NEW from, NEW to
  PROVE  \A c \in Callers : Moved(from, to)[c] = IF at[c] \in from THEN to ELSE at[c]
BY DEF Moved

(* Every step of the system keeps what the host's fields say of each       *)
(* other.                                                                  *)
LEMMA HostStep == ASSUME TypeOK, HostInv, InitOnce, Next PROVE HostInv'
<1>0. host \in Host /\ sc \in Scenario /\ at \in [Callers -> Places]
  BY DEF TypeOK
<1>1. "send" \notin OnlyChrome /\ "host" \notin OnlyChrome /\ "failed" \notin OnlyChrome
      /\ "ok" \notin OnlyChrome /\ "gone" \notin OnlyChrome /\ "idle" \notin OnlyChrome
      /\ {"ensure", "wait", "create", "join", "readying"} = OnlyChrome
  BY DEF OnlyChrome
<1>2. ASSUME HostStays PROVE host' = host
  BY <1>2 DEF HostStays
<1>3. ASSUME NEW c \in Callers, NEW others, NEW ready, Create(c, others, ready), Chrome, sc' = sc
      PROVE  HostInv'
  <2>1. host' = NoHost \/ host' = [NoHost EXCEPT !.up = "loading"]
    BY <1>3 DEF Create, HostGone
  <2>. QED BY <1>3, <2>1 DEF HostInv, Chrome, NoHost
<1>4. ASSUME NEW c \in Callers, Start(c) PROVE HostInv'
  BY <1>0, <1>1, <1>2, <1>4, HostKept DEF Start
<1>5. ASSUME NEW c \in Callers, Ensure(c) PROVE HostInv'
  <2>1. Chrome /\ sc' = sc
    BY <1>1, <1>5 DEF Ensure, HostInv
  <2>2. CASE HostStays /\ at' = [at EXCEPT ![c] = IF bg.ready THEN "send" ELSE "wait"]
    BY <1>2, <2>1, <2>2, HostKept
  <2>. QED BY <1>3, <1>5, <2>1, <2>2 DEF Ensure
<1>6. ASSUME NEW c \in Callers, Recreate(c) PROVE HostInv'
  <2>1. Chrome /\ sc' = sc
    BY <1>1, <1>6 DEF Recreate, HostInv
  <2>2. CASE HostStays
    BY <1>2, <2>1, <2>2, HostKept
  <2>. QED BY <1>3, <1>6, <2>1, <2>2 DEF Recreate
<1>7. ASSUME NEW c \in Callers, CreateReturns(c) \/ ReadyTimeout(c) PROVE HostInv'
  <2>1. Chrome /\ sc' = sc /\ HostStays
    BY <1>1, <1>7 DEF CreateReturns, ReadyTimeout, HostInv
  <2>. QED BY <1>2, <2>1, HostKept
<1>8. ASSUME NEW c \in Callers, SendWork(c) PROVE HostInv'
  BY <1>0, <1>1, <1>8, HostKept DEF SendWork, Host
<1>9. ASSUME NEW c \in Callers, InitWorker(c) PROVE HostInv'
  <2>1. host.up = "up" /\ sc' = sc
    BY <1>9 DEF InitWorker, HostInv
  <2>. QED BY <1>0, <1>1, <1>9, <2>1, HostKept DEF InitWorker, Host
<1>10. ASSUME NEW c \in Callers, SendConfigure(c) \/ SendLinker(c) PROVE HostInv'
  BY <1>0, <1>1, <1>10, HostKept DEF SendConfigure, SendLinker, Host
<1>11. ASSUME NEW c \in Callers, NEW end \in Ended, Finish(c, end)
       PROVE  \A d \in Callers : at'[d] \in OnlyChrome => at[d] \in OnlyChrome
  BY <1>0, <1>1, <1>11 DEF Finish, Ended
<1>12. ASSUME NEW c \in Callers, InitAwaited(c) \/ WorkerTimeout(c) PROVE HostInv'
  BY <1>11, <1>12, HostKept DEF InitAwaited, WorkerTimeout, Ended
<1>13. ASSUME NEW c \in Callers, ContextRead(c) PROVE HostInv'
  BY <1>0, <1>11, <1>13, HostKept DEF ContextRead, Ended, Host
<1>14. ASSUME DocumentLoaded PROVE HostInv'
  BY <1>0, <1>14 DEF DocumentLoaded, HostInv, Host, Chrome
<1>15. ASSUME OffscreenReady PROVE HostInv'
  BY <1>1, <1>2, <1>15, MovedFacts, HostKept DEF OffscreenReady
<1>16. ASSUME WorkerLoaded PROVE HostInv'
  BY <1>0, <1>16 DEF WorkerLoaded, HostInv, Host, Chrome
<1>17. ASSUME SessionToken \/ Revoke PROVE HostInv'
  BY <1>0, <1>17, HostKept DEF SessionToken, Revoke, Scenario, Host
<1>18. ASSUME InitAnswer PROVE HostInv'
  <2>1. 1 \in DOMAIN posted /\ posted[1].type = "init"
    BY <1>18, TailFacts DEF InitAnswer, Handling, TypeOK
  <2>2. host.worker = "init" /\ host'.up = host.up /\ UNCHANGED <<sc, at>>
    BY <1>0, <1>18, <2>1 DEF InitAnswer, InitOnce, Host
  <2>. QED BY <2>2 DEF HostInv, Chrome
<1>19. ASSUME Answered PROVE HostInv'
  <2>1. Head(posted) \in Posts /\ Head(posted).type = "reply"
    BY <1>19, TailFacts DEF Answered, Handling, TypeOK
  <2>2. Head(posted).n \in Callers
    BY <2>1 DEF Posts
  <2>3. \A d \in Callers : at'[d] \in OnlyChrome => at[d] \in OnlyChrome
    BY <1>11, <1>19, <2>2 DEF Answered, Ended
  <2>. QED BY <1>19, <2>3, HostKept DEF Answered
<1>20. ASSUME Http401 \/ \E reply \in Replies : NetworkRequest(reply) PROVE HostInv'
  BY <1>0, <1>20, HostKept DEF Http401, NetworkRequest, Reauth, Host
<1>21. ASSUME Worker \/ Ask \/ Bridge PROVE HostInv'
  BY <1>21, HostKept DEF Worker, WorkerMessage, StartCall, EndCall, Ask, Bridge
<1>22. ASSUME Restart PROVE HostInv'
  <2>1. sc'.platform = sc.platform
    BY <1>0, <1>22 DEF Restart, Scenario
  <2>2. CASE Chrome
    BY <1>2, <1>22, <2>1, <2>2 DEF Restart, HostInv, Chrome
  <2>3. CASE ~Chrome
    <3>1. host' = [NoHost EXCEPT !.up = "up"]
      BY <1>22, <2>3 DEF Restart, HostGone
    <3>2. \A c \in Callers : at'[c] \notin OnlyChrome
      BY <1>0, <1>1, <1>22, <2>3 DEF Restart, HostInv
    <3>. QED BY <2>1, <2>3, <3>1, <3>2 DEF HostInv, Chrome, NoHost
  <2>. QED BY <2>2, <2>3
<1>23. ASSUME CloseDocument PROVE HostInv'
  <2>1. Chrome /\ sc'.platform = sc.platform /\ host' = NoHost
    BY <1>0, <1>23 DEF CloseDocument, Scenario, HostGone
  <2>. QED BY <2>1 DEF HostInv, Chrome, NoHost
<1>. QED
  BY <1>4, <1>5, <1>6, <1>7, <1>8, <1>9, <1>10, <1>12, <1>13, <1>14, <1>15, <1>16, <1>17, <1>18,
     <1>19, <1>20, <1>21, <1>22, <1>23
  DEF Next, Caller, MainThread

SameSettings ==
  /\ host'.worker = host.worker /\ host'.url = host.url /\ host'.token = host.token
  /\ wk'.url = wk.url /\ wk'.token = wk.token

(* A queue of which no INIT, or no settings, are taken and to which none is*)
(* added.                                                                  *)
InitsKept ==
  \/ posted' = posted
  \/ \E m \in Posts : m.type # "init" /\ posted' = Append(posted, m)
  \/ posted # <<>> /\ Head(posted).type # "init" /\ posted' = Tail(posted)

SettingsKept ==
  \/ wk'.q = wk.q
  \/ \E m \in Orders : ~IsSettings(m) /\ wk'.q = Append(wk.q, m)
  \/ wk.q # <<>> /\ ~IsSettings(Head(wk.q)) /\ wk'.q = Tail(wk.q)

(* Nobody sends INIT but who starts a worker.                              *)
LEMMA InitsKeptFacts ==
  ASSUME TypeOK, InitsKept
  PROVE  \E k \in 0..1 :
           \A i \in DOMAIN posted' : posted'[i].type = "init" =>
             i + k \in DOMAIN posted /\ posted'[i] = posted[i + k]
<1>0. DOMAIN posted = 1..Len(posted) /\ Len(posted) \in Nat
  BY DEF TypeOK
<1>1. CASE posted' = posted
  BY <1>0, <1>1
<1>2. ASSUME NEW m \in Posts, m.type # "init", posted' = Append(posted, m)
      PROVE  \A i \in DOMAIN posted' : posted'[i].type = "init" =>
               i + 0 \in DOMAIN posted /\ posted'[i] = posted[i + 0]
  <2>1. /\ DOMAIN posted' = 1..(Len(posted) + 1) /\ posted'[Len(posted) + 1] = m
        /\ \A i \in DOMAIN posted : posted'[i] = posted[i]
    BY <1>2, AppendFacts DEF TypeOK
  <2>. QED BY <1>0, <1>2, <2>1
<1>3. ASSUME posted # <<>>, posted' = Tail(posted)
      PROVE  \A i \in DOMAIN posted' : i + 1 \in DOMAIN posted /\ posted'[i] = posted[i + 1]
  BY <1>3, TailFacts DEF TypeOK
<1>. QED BY <1>1, <1>2, <1>3 DEF InitsKept

(* Without a step that makes or takes settings they stay where they are.   *)
LEMMA SettingsKeptFacts ==
  ASSUME TypeOK, SettingsKept
  PROVE  \E k \in 0..1 :
           /\ \A i \in DOMAIN wk'.q : IsSettings(wk'.q[i]) =>
                i + k \in DOMAIN wk.q /\ wk'.q[i] = wk.q[i + k]
           /\ \A i \in DOMAIN wk.q : IsSettings(wk.q[i]) =>
                i - k \in DOMAIN wk'.q /\ wk'.q[i - k] = wk.q[i]
<1>0. DOMAIN wk.q = 1..Len(wk.q) /\ Len(wk.q) \in Nat /\ wk.q \in Seq(Orders)
  BY WkType
<1>1. CASE wk'.q = wk.q
  <2>1. \A i \in DOMAIN wk.q : i + 0 = i /\ i - 0 = i
    BY <1>0
  <2>. QED BY <1>1, <2>1
<1>2. ASSUME NEW m \in Orders, ~IsSettings(m), wk'.q = Append(wk.q, m)
      PROVE  /\ \A i \in DOMAIN wk'.q : IsSettings(wk'.q[i]) =>
                  i + 0 \in DOMAIN wk.q /\ wk'.q[i] = wk.q[i + 0]
             /\ \A i \in DOMAIN wk.q : IsSettings(wk.q[i]) =>
                  i - 0 \in DOMAIN wk'.q /\ wk'.q[i - 0] = wk.q[i]
  <2>1. /\ DOMAIN wk'.q = 1..(Len(wk.q) + 1) /\ wk'.q[Len(wk.q) + 1] = m
        /\ \A i \in DOMAIN wk.q : wk'.q[i] = wk.q[i]
    BY <1>0, <1>2, AppendFacts
  <2>. QED BY <1>0, <1>2, <2>1
<1>3. ASSUME wk.q # <<>>, ~IsSettings(Head(wk.q)), wk'.q = Tail(wk.q)
      PROVE  /\ \A i \in DOMAIN wk'.q : IsSettings(wk'.q[i]) =>
                  i + 1 \in DOMAIN wk.q /\ wk'.q[i] = wk.q[i + 1]
             /\ \A i \in DOMAIN wk.q : IsSettings(wk.q[i]) =>
                  i - 1 \in DOMAIN wk'.q /\ wk'.q[i - 1] = wk.q[i]
  <2>1. /\ Head(wk.q) = wk.q[1] /\ Len(wk.q) \in Nat \ {0} /\ DOMAIN wk'.q = 1..(Len(wk.q) - 1)
        /\ \A i \in DOMAIN wk'.q : wk'.q[i] = wk.q[i + 1]
    BY <1>0, <1>3, TailFacts
  <2>2. ASSUME NEW i \in DOMAIN wk.q, IsSettings(wk.q[i])
        PROVE  i - 1 \in DOMAIN wk'.q /\ wk'.q[i - 1] = wk.q[i]
    <3>1. i # 1
      BY <1>3, <2>1, <2>2
    <3>2. i - 1 \in DOMAIN wk'.q /\ (i - 1) + 1 = i
      BY <1>0, <2>1, <3>1
    <3>. QED BY <2>1, <3>2
  <2>3. \A i \in DOMAIN wk'.q : i + 1 \in DOMAIN wk.q
    BY <1>0, <2>1
  <2>. QED BY <2>1, <2>2, <2>3
<1>. QED BY <1>1, <1>2, <1>3 DEF SettingsKept

(* A step that neither makes nor handles settings.                         *)
LEMMA KeptInv ==
  ASSUME TypeOK, InitOnce, SettingsInv, SameSettings, InitsKept, SettingsKept, TypeOK'
  PROVE  InitOnce' /\ SettingsInv'
<1>1. PICK k \in 0..1 :
        \A i \in DOMAIN posted' : posted'[i].type = "init" =>
          i + k \in DOMAIN posted /\ posted'[i] = posted[i + k]
  BY InitsKeptFacts
<1>2. PICK n \in 0..1 :
        /\ \A i \in DOMAIN wk'.q : IsSettings(wk'.q[i]) =>
             i + n \in DOMAIN wk.q /\ wk'.q[i] = wk.q[i + n]
        /\ \A i \in DOMAIN wk.q : IsSettings(wk.q[i]) =>
             i - n \in DOMAIN wk'.q /\ wk'.q[i - n] = wk.q[i]
  BY SettingsKeptFacts
<1>3. /\ DOMAIN wk.q \subseteq Nat /\ DOMAIN wk'.q \subseteq Nat
      /\ DOMAIN posted \subseteq Nat /\ DOMAIN posted' \subseteq Nat
  <2>1. /\ wk.q \in Seq(Orders) /\ wk'.q \in Seq(Orders)
        /\ posted \in Seq(Posts) /\ posted' \in Seq(Posts)
    BY DEF TypeOK, Wk
  <2>2. \A S : \A s \in Seq(S) : DOMAIN s \subseteq Nat
    OBVIOUS
  <2>. QED BY <2>1, <2>2
<1>4. \A m : m.type \in {"init", "configure"} <=> IsSettings(m)
  BY DEF IsSettings
<1>5. InitOnce'
  <2>1. ASSUME NEW i \in DOMAIN wk'.q, wk'.q[i].type = "init"
        PROVE  /\ host'.worker = "init"
               /\ \A j \in DOMAIN wk'.q : wk'.q[j].type = "init" => j = i
               /\ \A j \in DOMAIN posted' : posted'[j].type # "init"
    <3>1. i + n \in DOMAIN wk.q /\ wk.q[i + n].type = "init"
      BY <1>2, <1>4, <2>1
    <3>2. /\ host.worker = "init"
          /\ \A j \in DOMAIN wk.q : wk.q[j].type = "init" => j = i + n
          /\ \A j \in DOMAIN posted : posted[j].type # "init"
      BY <3>1 DEF InitOnce
    <3>3. ASSUME NEW j \in DOMAIN wk'.q, wk'.q[j].type = "init" PROVE j = i
      <4>1. j + n = i + n
        BY <1>2, <1>4, <3>2, <3>3
      <4>. QED BY <1>3, <4>1
    <3>. QED BY <1>1, <3>2, <3>3 DEF SameSettings
  <2>2. ASSUME NEW i \in DOMAIN wk'.q, wk'.q[i].type = "configure" PROVE host'.worker = "ready"
    <3>1. i + n \in DOMAIN wk.q /\ wk.q[i + n].type = "configure"
      BY <1>2, <1>4, <2>2
    <3>. QED BY <3>1 DEF InitOnce, SameSettings
  <2>3. ASSUME NEW i \in DOMAIN posted', posted'[i].type = "init"
        PROVE  /\ host'.worker = "init"
               /\ \A j \in DOMAIN posted' : posted'[j].type = "init" => j = i
    <3>1. i + k \in DOMAIN posted /\ posted[i + k].type = "init"
      BY <1>1, <2>3
    <3>2. /\ host.worker = "init"
          /\ \A j \in DOMAIN posted : posted[j].type = "init" => j = i + k
      BY <3>1 DEF InitOnce
    <3>3. ASSUME NEW j \in DOMAIN posted', posted'[j].type = "init" PROVE j = i
      <4>1. j + k = i + k
        BY <1>1, <3>2, <3>3
      <4>. QED BY <1>3, <4>1
    <3>. QED BY <3>2, <3>3 DEF SameSettings
  <2>. QED BY <2>1, <2>2, <2>3 DEF InitOnce
<1>6. Quiet => Quiet'
  BY <1>2 DEF Quiet
<1>7. ASSUME host.worker = "init", ~host.url, host.token = 0
      PROVE  \A i \in DOMAIN wk'.q : IsSettings(wk'.q[i]) => ~wk'.q[i].url /\ wk'.q[i].token = 0
  BY <1>2, <1>7 DEF SettingsInv
<1>8. ASSUME NEW i \in DOMAIN wk.q, wk.q[i] = Settings(host),
             \A j \in DOMAIN wk.q : j > i => ~IsSettings(wk.q[j])
      PROVE  \E l \in DOMAIN wk'.q : /\ wk'.q[l] = Settings(host')
                                     /\ \A j \in DOMAIN wk'.q : j > l => ~IsSettings(wk'.q[j])
  <2>1. IsSettings(wk.q[i]) /\ Settings(host') = Settings(host)
    BY <1>8 DEF Settings, IsSettings, SameSettings
  <2>2. i - n \in DOMAIN wk'.q /\ wk'.q[i - n] = Settings(host')
    BY <1>2, <1>8, <2>1
  <2>3. ASSUME NEW j \in DOMAIN wk'.q, j > i - n, IsSettings(wk'.q[j]) PROVE FALSE
    <3>1. j + n \in DOMAIN wk.q /\ IsSettings(wk.q[j + n])
      BY <1>2, <2>3
    <3>2. j + n > i
      BY <1>3, <2>3
    <3>. QED BY <1>8, <3>1, <3>2
  <2>. QED BY <2>2, <2>3
<1>9. SettingsInv'
  <2>1. host.worker \in {"off", "loading"} => Quiet' /\ ~wk'.url /\ wk'.token = 0
    BY <1>6 DEF SettingsInv, SameSettings
  <2>2. host.worker = "init" /\ ~host.url /\ host.token = 0 => ~wk'.url /\ wk'.token = 0
    BY DEF SettingsInv, SameSettings
  <2>3. host.worker = "ready" =>
          \/ Quiet' /\ wk'.url = host'.url /\ wk'.token = host'.token
          \/ \E i \in DOMAIN wk'.q :
               /\ wk'.q[i] = Settings(host')
               /\ \A j \in DOMAIN wk'.q : j > i => ~IsSettings(wk'.q[j])
    BY <1>6, <1>8 DEF SettingsInv, SameSettings
  <2>. QED BY <1>7, <2>1, <2>2, <2>3 DEF SettingsInv, SameSettings
<1>. QED BY <1>5, <1>9

(* The host goes.                                                          *)
LEMMA GoneInv ==
  ASSUME wk' = NoWorker, posted' = <<>>, host'.worker = "off"
  PROVE  InitOnce' /\ SettingsInv'
<1>1. DOMAIN wk'.q = {} /\ DOMAIN posted' = {} /\ ~wk'.url /\ wk'.token = 0
  BY DEF NoWorker
<1>. QED BY <1>1 DEF InitOnce, SettingsInv, Quiet

(* A worker is started.                                                    *)
LEMMA LoadingInv ==
  ASSUME InitOnce, SettingsInv, UNCHANGED <<wk, posted>>, host.worker = "off",
         host'.worker = "loading"
  PROVE  InitOnce' /\ SettingsInv'
BY DEF InitOnce, SettingsInv, Quiet, IsSettings

(* The host has other settings, and tells the worker if it is ready.       *)
LEMMA ForwardInv ==
  ASSUME TypeOK, InitOnce, SettingsInv, NEW h \in Host, host' = h, h.worker = host.worker,
         h.url \/ h.token # 0, wk' = Forward(h), posted' = posted
  PROVE  InitOnce' /\ SettingsInv'
<1>1. CASE host.worker # "ready"
  <2>1. wk' = wk
    BY <1>1 DEF Forward
  <2>. QED BY <1>1, <2>1 DEF InitOnce, SettingsInv, Quiet
<1>2. CASE host.worker = "ready"
  <2>. DEFINE n == Len(wk.q) + 1
  <2>1. /\ wk'.q = Append(wk.q, Settings(h)) /\ Settings(h) \in Orders
        /\ Settings(h).type = "configure"
    BY <1>2, ToWorkerType, SettingsType DEF Forward, TypeOK, Settings
  <2>2. /\ DOMAIN wk.q = 1..Len(wk.q) /\ Len(wk.q) \in Nat /\ DOMAIN wk'.q = 1..n
        /\ wk'.q[n] = Settings(h) /\ \A i \in DOMAIN wk.q : wk'.q[i] = wk.q[i]
    BY <2>1, WkType, AppendFacts
  <2>3. InitOnce'
    BY <1>2, <2>1, <2>2 DEF InitOnce
  <2>4. \A j \in DOMAIN wk'.q : ~(j > n)
    BY <2>2
  <2>5. n \in DOMAIN wk'.q
    BY <2>2
  <2>. HIDE DEF n
  <2>. QED BY <1>2, <2>2, <2>3, <2>4, <2>5 DEF SettingsInv
<1>. QED BY <1>1, <1>2

(* INIT is sent, with the settings of Firefox's host or with none.         *)
LEMMA WorkerLoadedInv ==
  ASSUME TypeOK, HostInv, InitOnce, SettingsInv, WorkerLoaded
  PROVE  InitOnce' /\ SettingsInv'
<1>. DEFINE h == IF Chrome THEN NoHost ELSE host
            m == [Settings(h) EXCEPT !.type = "init"]
            n == Len(wk.q) + 1
<1>1. m \in Orders /\ m.type = "init" /\ m.url = h.url /\ m.token = h.token
  <2>1. h \in Host
    BY DEF TypeOK, NoHost, Host
  <2>. QED BY <2>1, SettingsType DEF Settings
<1>2. wk' = ToWorker(wk, m) /\ posted' = posted
  BY DEF WorkerLoaded, bridgeVars
<1>3. host.worker = "loading" /\ host'.worker = "init" /\ host'.url = host.url /\ host'.token = host.token
  BY DEF WorkerLoaded, TypeOK, Host
<1>4. ~host.url /\ host.token = 0 => ~h.url /\ h.token = 0
  BY DEF NoHost
<1>. HIDE DEF m, h
<1>5. /\ wk'.q = Append(wk.q, m) /\ wk'.url = wk.url /\ wk'.token = wk.token
  BY <1>1, <1>2, ToWorkerType DEF TypeOK
<1>6. /\ DOMAIN wk.q = 1..Len(wk.q) /\ Len(wk.q) \in Nat /\ DOMAIN wk'.q = 1..n
      /\ wk'.q[n] = m /\ \A i \in DOMAIN wk.q : wk'.q[i] = wk.q[i]
  BY <1>1, <1>5, WkType, AppendFacts
<1>7. /\ \A i \in DOMAIN wk.q : ~IsSettings(wk.q[i])
      /\ \A i \in DOMAIN posted : posted[i].type # "init"
  BY <1>3 DEF SettingsInv, Quiet, InitOnce
<1>8. ASSUME NEW i \in DOMAIN wk'.q, IsSettings(wk'.q[i]) PROVE i = n
  BY <1>6, <1>7, <1>8
<1>9. InitOnce'
  BY <1>1, <1>2, <1>3, <1>6, <1>7, <1>8 DEF InitOnce, IsSettings
<1>10. SettingsInv'
  BY <1>1, <1>3, <1>4, <1>5, <1>6, <1>8 DEF SettingsInv
<1>. QED BY <1>9, <1>10

(* INIT's answer: settings the host has got by now follow.                 *)
LEMMA InitAnswerInv ==
  ASSUME TypeOK, InitOnce, SettingsInv, InitAnswer
  PROVE  InitOnce' /\ SettingsInv'
<1>1. /\ 1 \in DOMAIN posted /\ posted[1].type = "init"
      /\ DOMAIN posted' = 1..(Len(posted) - 1) /\ Len(posted) \in Nat
      /\ \A i \in DOMAIN posted' : posted'[i] = posted[i + 1] /\ i + 1 \in DOMAIN posted /\ i + 1 # 1
  BY TailFacts DEF InitAnswer, Handling, TypeOK
<1>2. /\ host.worker = "init" /\ host'.worker \in {"ready", "broken"}
      /\ host'.url = host.url /\ host'.token = host.token
  BY <1>1 DEF InitAnswer, InitOnce, TypeOK, Host
<1>3. \A i \in DOMAIN posted' : posted'[i].type # "init"
  BY <1>1 DEF InitOnce
<1>4. Quiet
  BY <1>1, <1>2 DEF Quiet, IsSettings, InitOnce
<1>5. CASE wk' = wk /\ (host'.worker = "ready" => ~host.url /\ host.token = 0)
  <2>1. InitOnce'
    BY <1>3, <1>4, <1>5 DEF InitOnce, Quiet, IsSettings
  <2>2. wk.url \in BOOLEAN /\ host.url \in BOOLEAN
    BY DEF TypeOK, Wk, Host
  <2>3. host'.worker = "ready" => wk.url = host.url /\ wk.token = host.token
    BY <1>2, <1>5, <2>2 DEF SettingsInv
  <2>4. SettingsInv'
    BY <1>2, <1>4, <1>5, <2>3 DEF SettingsInv, Quiet
  <2>. QED BY <2>1, <2>4
<1>6. CASE wk' = ToWorker(wk, Settings(host)) /\ host'.worker = "ready"
  <2>. DEFINE n == Len(wk.q) + 1
  <2>1. /\ wk'.q = Append(wk.q, Settings(host)) /\ Settings(host) \in Orders
        /\ Settings(host).type = "configure" /\ Settings(host') = Settings(host)
    BY <1>2, <1>6, ToWorkerType, SettingsType DEF TypeOK, Settings
  <2>2. /\ DOMAIN wk.q = 1..Len(wk.q) /\ Len(wk.q) \in Nat /\ DOMAIN wk'.q = 1..n
        /\ wk'.q[n] = Settings(host) /\ \A i \in DOMAIN wk.q : wk'.q[i] = wk.q[i]
    BY <2>1, WkType, AppendFacts
  <2>3. InitOnce'
    BY <1>3, <1>4, <1>6, <2>1, <2>2 DEF InitOnce, Quiet, IsSettings
  <2>4. (\A j \in DOMAIN wk'.q : ~(j > n)) /\ n \in DOMAIN wk'.q
    BY <2>2
  <2>. HIDE DEF n
  <2>. QED BY <1>6, <2>1, <2>2, <2>3, <2>4 DEF SettingsInv
<1>. QED BY <1>2, <1>5, <1>6 DEF InitAnswer, TypeOK, Host

(* The worker takes settings.                                              *)
LEMMA SettingsTakenInv ==
  ASSUME TypeOK, InitOnce, SettingsInv, WorkerMessage, IsSettings(Head(wk.q))
  PROVE  InitOnce' /\ SettingsInv'
<1>. DEFINE m == Head(wk.q)
<1>1. /\ DOMAIN wk.q = 1..Len(wk.q) /\ Len(wk.q) \in Nat \ {0} /\ m = wk.q[1] /\ 1 \in DOMAIN wk.q
      /\ DOMAIN Tail(wk.q) = 1..(Len(wk.q) - 1)
      /\ \A i \in DOMAIN Tail(wk.q) : Tail(wk.q)[i] = wk.q[i + 1] /\ i + 1 \in DOMAIN wk.q
                                      /\ i + 1 # 1
  BY WkType, TailFacts DEF WorkerMessage
<1>2. /\ wk'.q = Tail(wk.q) /\ wk'.url = m.url /\ wk'.token = m.token /\ host' = host
  BY DEF WorkerMessage, TypeOK, Wk, IsSettings
<1>3. host.worker = "init" \/ host.worker = "ready"
  BY <1>1 DEF InitOnce, IsSettings
<1>4. CASE m.type = "init"
  <2>1. /\ host.worker = "init" /\ \A j \in DOMAIN wk.q : wk.q[j].type = "init" => j = 1
        /\ \A j \in DOMAIN posted : posted[j].type # "init"
        /\ \A j \in DOMAIN wk.q : wk.q[j].type # "configure"
    BY <1>1, <1>4 DEF InitOnce
  <2>2. Quiet'
    BY <1>1, <1>2, <2>1 DEF Quiet, IsSettings
  <2>3. \E x : x.type = "init" /\ posted' = Append(posted, x) /\ x \in Posts
    <3>1. sc.breaks \in BOOLEAN
      BY DEF TypeOK, Scenario
    <3>2. \E ok \in BOOLEAN : posted' = Append(posted, [type |-> "init", n |-> 0, ok |-> ok])
      BY <1>4, <3>1 DEF WorkerMessage
    <3>. QED BY <3>2 DEF Posts
  <2>4. /\ DOMAIN posted = 1..Len(posted) /\ Len(posted) \in Nat
        /\ DOMAIN posted' = 1..(Len(posted) + 1)
        /\ \A i \in DOMAIN posted : posted'[i] = posted[i]
    BY <2>3, AppendFacts DEF TypeOK
  <2>5. \A i \in DOMAIN posted' : posted'[i].type = "init" => i = Len(posted) + 1
    BY <2>1, <2>4
  <2>6. InitOnce'
    BY <1>2, <2>1, <2>2, <2>5 DEF InitOnce, Quiet, IsSettings
  <2>7. ~host.url /\ host.token = 0 => ~m.url /\ m.token = 0
    BY <1>1, <1>4, <2>1 DEF SettingsInv, IsSettings
  <2>8. SettingsInv'
    BY <1>2, <2>1, <2>2, <2>7 DEF SettingsInv, Quiet
  <2>. QED BY <2>6, <2>8
<1>5. CASE m.type = "configure"
  <2>1. host.worker = "ready" /\ posted' = posted
    BY <1>1, <1>5 DEF InitOnce, WorkerMessage
  <2>2. (\A j \in DOMAIN wk.q : wk.q[j].type # "init") /\ (\A j \in DOMAIN posted : posted[j].type # "init")
    BY <2>1 DEF InitOnce
  <2>3. InitOnce'
    BY <1>1, <1>2, <2>1, <2>2 DEF InitOnce
  <2>4. PICK i \in DOMAIN wk.q : /\ wk.q[i] = Settings(host)
                                 /\ \A j \in DOMAIN wk.q : j > i => ~IsSettings(wk.q[j])
    BY <1>1, <2>1 DEF SettingsInv, Quiet
  <2>5. CASE i = 1
    <3>1. m.url = host.url /\ m.token = host.token
      BY <1>1, <2>4, <2>5 DEF Settings
    <3>2. Quiet'
      BY <1>1, <1>2, <2>4, <2>5 DEF Quiet
    <3>. QED BY <1>2, <2>1, <2>3, <3>1, <3>2 DEF SettingsInv
  <2>6. CASE i # 1
    <3>1. i - 1 \in DOMAIN Tail(wk.q) /\ (i - 1) + 1 = i
      BY <1>1, <2>6
    <3>2. wk'.q[i - 1] = Settings(host') /\ i - 1 \in DOMAIN wk'.q
      BY <1>1, <1>2, <2>4, <3>1
    <3>3. \A j \in DOMAIN wk'.q : j > i - 1 => ~IsSettings(wk'.q[j])
      BY <1>1, <1>2, <2>4
    <3>. QED BY <1>2, <2>1, <2>3, <3>2, <3>3 DEF SettingsInv
  <2>. QED BY <2>5, <2>6
<1>. QED BY <1>4, <1>5 DEF IsSettings

(* What a step of the bridge alone does to the main thread's queue.        *)
LEMMA BridgeInits ==
  ASSUME TypeOK, Ask \/ Bridge \/ (\E reply \in Replies : HandleNetworkRequest(reply)), TypeOK'
  PROVE  InitsKept
<1>0. posted \in Seq(Posts) /\ posted' \in Seq(Posts)
  BY DEF TypeOK
<1>1. ASSUME NEW m, posted' = Append(posted, m), m.type # "init" PROVE InitsKept
  <2>1. m \in Posts
    <3>1. Len(posted) + 1 \in DOMAIN posted' /\ posted'[Len(posted) + 1] = m
      BY <1>0, <1>1
    <3>. QED BY <1>0, <3>1
  <2>. QED BY <1>1, <2>1 DEF InitsKept
<1>2. ASSUME NEW kind, Block(kind) PROVE InitsKept
  <2>1. \E m : m.type = "request" /\ posted' = Append(posted, m)
    BY <1>2 DEF Block, Request, Message
  <2>. QED BY <1>1, <2>1
<1>3. ASSUME NEW reply, FetchDirect(reply) PROVE InitsKept
  <2>1. posted' = posted \/ \E m : m.type = "http401" /\ posted' = Append(posted, m)
    BY <1>3 DEF FetchDirect, Message
  <2>. QED BY <1>1, <2>1 DEF InitsKept
<1>4. ASSUME Handling("request"), posted' = Tail(posted) PROVE InitsKept
  BY <1>4 DEF Handling, InitsKept
<1>. QED
  BY <1>2, <1>3, <1>4 DEF Ask, Bridge, Wake, WaitTimeout, HandleSignRequest, Raise, SignAnswered,
     HandleNetworkRequest, Handling, InitsKept

(* What a step of the system is to the settings.                           *)
LEMMA ConfigSteps ==
  ASSUME TypeOK, HostInv, Next, TypeOK'
  PROVE  \/ SameSettings /\ InitsKept /\ SettingsKept
         \/ wk' = NoWorker /\ posted' = <<>> /\ host'.worker = "off"
         \/ UNCHANGED <<wk, posted>> /\ host.worker = "off" /\ host'.worker = "loading"
         \/ \E h \in Host : /\ host' = h /\ h.worker = host.worker /\ (h.url \/ h.token # 0)
                            /\ wk' = Forward(h) /\ posted' = posted
         \/ WorkerLoaded \/ InitAnswer \/ (WorkerMessage /\ IsSettings(Head(wk.q)))
<1>. DEFINE Same == SameSettings /\ InitsKept /\ SettingsKept
            Gone == wk' = NoWorker /\ posted' = <<>> /\ host'.worker = "off"
            Told == \E h \in Host : /\ host' = h /\ h.worker = host.worker /\ (h.url \/ h.token # 0)
                                    /\ wk' = Forward(h) /\ posted' = posted
<1>0. host \in Host /\ wk \in Wk
  BY DEF TypeOK
<1>1. ASSUME HostStays PROVE Same
  BY <1>1 DEF HostStays, SameSettings, InitsKept, SettingsKept, bridgeVars
<1>2. ASSUME NEW h, HostGone(h), h.worker = "off" PROVE Gone
  BY <1>2 DEF HostGone, BridgeGone
<1>3. NoHost.worker = "off" /\ \A u \in {"loading", "up"} : [NoHost EXCEPT !.up = u].worker = "off"
  BY DEF NoHost
<1>4. CASE \E c \in Callers : Start(c) \/ Ensure(c) \/ Recreate(c) \/ CreateReturns(c) \/ ReadyTimeout(c)
  <2>1. Same \/ Gone
    BY <1>1, <1>2, <1>3, <1>4 DEF Start, Ensure, Recreate, Create, CreateReturns, ReadyTimeout
  <2>. QED BY <2>1
<1>5. CASE \E c \in Callers : SendWork(c) \/ InitWorker(c)
  <2>1. UNCHANGED <<wk, posted>>
    BY <1>5 DEF SendWork, InitWorker, bridgeVars
  <2>2. host' = host \/ (host.worker = "off" /\ host'.worker = "loading")
    BY <1>0, <1>5 DEF SendWork, InitWorker, Host
  <2>. QED BY <2>1, <2>2 DEF SameSettings, InitsKept, SettingsKept
<1>6. CASE \E c \in Callers : SendLinker(c) \/ WorkerTimeout(c)
  BY <1>0, <1>6 DEF SendLinker, WorkerTimeout, SameSettings, InitsKept, SettingsKept, Host, bridgeVars
<1>7. CASE \E c \in Callers : SendConfigure(c)
  <2>1. PICK c \in Callers : SendConfigure(c)
    BY <1>7
  <2>. DEFINE token == IF sc.job[c] = "restore" THEN bg.token ELSE 0
              h == [host EXCEPT !.url = TRUE, !.token = IF token = 0 THEN @ ELSE token,
                                !.ws = IF @ = "none" THEN "connecting" ELSE @]
  <2>2. h \in Host /\ h.worker = host.worker /\ h.url
    BY DEF TypeOK, Host, Bg
  <2>3. /\ posted' = posted
        /\ UNCHANGED <<host, wk>> \/ (host' = h /\ wk' = Forward(h))
    BY <2>1 DEF SendConfigure, bridgeVars
  <2>. HIDE DEF h
  <2>. QED BY <2>2, <2>3 DEF SameSettings, InitsKept, SettingsKept
<1>8. CASE SessionToken
  <2>. DEFINE token == honoured + 1
              h == [host EXCEPT !.ws = "connected", !.token = token]
  <2>1. token \in Nat /\ token # 0
    BY DEF TypeOK
  <2>2. host' = h /\ wk' = Forward(h) /\ posted' = posted
    BY <1>8 DEF SessionToken, bridgeVars
  <2>. HIDE DEF token
  <2>3. h \in Host /\ h.worker = host.worker /\ h.token # 0
    BY <1>0, <2>1 DEF Host
  <2>. HIDE DEF h
  <2>. QED BY <2>2, <2>3
<1>9. CASE \E c \in Callers : InitAwaited(c) \/ ContextRead(c)
  <2>1. PICK c \in Callers : InitAwaited(c) \/ ContextRead(c)
    BY <1>9
  <2>2. /\ [type |-> "work", c |-> c] \in Orders /\ ~IsSettings([type |-> "work", c |-> c])
        /\ \A w \in BOOLEAN : /\ [type |-> "call", c |-> c, wasm |-> w] \in Orders
                              /\ ~IsSettings([type |-> "call", c |-> c, wasm |-> w])
    BY DEF Orders, Calls, IsSettings
  <2>3. wk' = wk \/ \E m \in Orders : ~IsSettings(m) /\ wk' = ToWorker(wk, m)
    BY <2>1, <2>2 DEF InitAwaited, ContextRead
  <2>4. posted' = posted /\ host'.worker = host.worker /\ host'.url = host.url /\ host'.token = host.token
    BY <1>0, <2>1 DEF InitAwaited, ContextRead, bridgeVars, Host
  <2>. QED BY <1>0, <2>3, <2>4, ToWorkerType DEF SameSettings, InitsKept, SettingsKept
<1>10. CASE DocumentLoaded
  BY <1>0, <1>10 DEF DocumentLoaded, HostInv, Host, bridgeVars
<1>11. CASE OffscreenReady
  BY <1>1, <1>11 DEF OffscreenReady
<1>12. CASE Answered \/ Http401
  <2>1. InitsKept
    BY <1>12 DEF Answered, Http401, Handling, InitsKept
  <2>. QED BY <1>0, <1>12, <2>1 DEF Answered, Http401, Reauth, SameSettings, SettingsKept, Host
<1>13. CASE \E reply \in Replies : NetworkRequest(reply)
  <2>1. InitsKept
    BY <1>13, BridgeInits DEF NetworkRequest
  <2>. QED BY <1>0, <1>13, <2>1 DEF NetworkRequest, Reauth, SameSettings, SettingsKept, Host
<1>14. CASE Ask \/ Bridge
  <2>1. InitsKept
    BY <1>14, BridgeInits
  <2>. QED BY <1>14, <2>1 DEF Ask, Bridge, SameSettings, SettingsKept
<1>15. ASSUME NEW m, posted' = Append(posted, m), m.type = "reply" PROVE InitsKept
  <2>1. posted \in Seq(Posts) /\ posted' \in Seq(Posts)
    BY DEF TypeOK
  <2>2. Len(posted) + 1 \in DOMAIN posted' /\ posted'[Len(posted) + 1] = m
    BY <1>15, <2>1
  <2>. QED BY <1>15, <2>1, <2>2 DEF InitsKept
<1>16. CASE StartCall \/ EndCall
  <2>1. InitsKept
    BY <1>15, <1>16 DEF StartCall, EndCall, InitsKept
  <2>. QED BY <1>0, <1>16, <2>1 DEF StartCall, EndCall, SameSettings, SettingsKept, Wk
<1>17. CASE WorkerMessage /\ ~IsSettings(Head(wk.q))
  <2>1. InitsKept
    BY <1>15, <1>17 DEF WorkerMessage, IsSettings, InitsKept
  <2>2. host' = host /\ wk.q # <<>> /\ wk'.q = Tail(wk.q) /\ wk'.url = wk.url /\ wk'.token = wk.token
    BY <1>0, <1>17 DEF WorkerMessage, IsSettings, Wk
  <2>. QED BY <1>17, <2>1, <2>2 DEF SameSettings, SettingsKept
<1>18. CASE Restart \/ CloseDocument
  <2>1. Same \/ Gone
    BY <1>1, <1>2, <1>3, <1>18 DEF Restart, CloseDocument
  <2>. QED BY <2>1
<1>19. CASE Revoke
  BY <1>19 DEF Revoke, SameSettings, InitsKept, SettingsKept, bridgeVars
<1>. QED
  BY <1>4, <1>5, <1>6, <1>7, <1>8, <1>9, <1>10, <1>11, <1>12, <1>13, <1>14, <1>16, <1>17, <1>18, <1>19
  DEF Next, Caller, MainThread, Worker

(* The last settings on their way to a worker, or else its own, are the    *)
(* host's.                                                                 *)
THEOREM ConfigInvariance == Spec => []ConfigInv
<1>1. Init => ConfigInv
  <2>. SUFFICES ASSUME Init PROVE ConfigInv
    OBVIOUS
  <2>1. /\ DOMAIN wk.q = {} /\ DOMAIN posted = {} /\ ~wk.url /\ wk.token = 0 /\ host.worker = "off"
    BY DEF Init, NoWorker, NoHost, BridgeInit
  <2>2. HostInv
    BY DEF Init, HostInv, NoHost, OnlyChrome
  <2>. QED BY <2>1, <2>2 DEF ConfigInv, InitOnce, SettingsInv, Quiet
<1>2. ASSUME TypeOK, ConfigInv, Next, TypeOK' PROVE ConfigInv'
  <2>1. HostInv /\ InitOnce /\ SettingsInv
    BY <1>2 DEF ConfigInv
  <2>2. HostInv'
    BY <1>2, <2>1, HostStep
  <2>3. InitOnce' /\ SettingsInv'
    BY <1>2, <2>1, ConfigSteps, KeptInv, GoneInv, LoadingInv, ForwardInv, WorkerLoadedInv,
       InitAnswerInv, SettingsTakenInv
  <2>. QED BY <2>2, <2>3 DEF ConfigInv
<1>3. ASSUME ConfigInv, UNCHANGED vars PROVE ConfigInv'
  BY <1>3 DEF vars, bridgeVars, ConfigInv, HostInv, Chrome, InitOnce, SettingsInv, Quiet
<1>. QED BY TypeCorrect, <1>1, <1>2, <1>3, PTL DEF Spec

(* A ready worker that has taken its messages has the host's settings.     *)
THEOREM SettingsReachWorker == Spec => []ConfigReachesWorker
<1>1. ConfigInv => ConfigReachesWorker
  BY DEF ConfigInv, SettingsInv, ConfigReachesWorker
<1>. QED BY ConfigInvariance, <1>1, PTL
=============================================================================
