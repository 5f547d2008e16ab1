----------------------------- MODULE SyncBridge -----------------------------
(***************************************************************************)
(* How the ribosome worker blocks on a signature or an HTTP answer.  It    *)
(* resets a signal, posts a request and waits on the signal; the main      *)
(* thread (the offscreen document) writes its answer into a shared buffer  *)
(* and raises the signal.  There is one signal and one buffer for          *)
(* signatures, one for HTTP, and neither names the request it is for.      *)
(* On Firefox the worker does both by itself.                              *)
(*                                                                         *)
(* An HTTP answer is abstracted to what became of the request, a body to   *)
(* the number of the request it answers.                                   *)
(***************************************************************************)
EXTENDS Naturals, Sequences, FiniteSets

CONSTANTS
  MaxRequests,  \* bound: blocking requests in a behaviour
  None

Requests == 1..MaxRequests
Kinds == {"sign", "fetch"}

ASSUME BridgeAssumption == MaxRequests \in Nat /\ None \notin Nat \cup Kinds

(* found: 200 within 1 MB; big: 200 beyond the buffer; cut: no connection  *)
Replies == {"found", "big", "missing", "denied", "broken", "cut"}

VARIABLES
  asked,    \* the kind of every request made; a request is its index
  waiting,  \* the request the worker is blocked on, or None
  signal,   \* the two signals
  buffer,   \* the two buffers: the request whose answer they hold, and its status
  posted,   \* messages of the worker the main thread has not handled
  signing,  \* sign requests the background has not answered
  written,  \* the kind whose signal the main thread is about to raise, or None
  linker,   \* what became of each HTTP request at the linker
  answer,   \* what the worker was given last
  late      \* kinds of which a request has timed out

bridgeVars ==
  <<asked, waiting, signal, buffer, posted, signing, written, linker, answer, late>>

NoAnswer == [req |-> 0, of |-> 0, is |-> "none"]
Message(type, n) == [type |-> type, n |-> n]
Request(n) == Message("request", n)

BridgeInit ==
  /\ asked = <<>> /\ waiting = None /\ posted = <<>> /\ signing = {} /\ written = None
  /\ signal = [k \in Kinds |-> FALSE]
  /\ buffer = [k \in Kinds |-> [of |-> 0, status |-> 0]]
  /\ linker = <<>> /\ late = {} /\ answer = NoAnswer

(* The document closes, and with it the worker and the buffers.            *)
BridgeGone ==
  /\ waiting' = None /\ posted' = <<>> /\ signing' = {} /\ written' = None
  /\ signal' = [k \in Kinds |-> FALSE]
  /\ buffer' = [k \in Kinds |-> [of |-> 0, status |-> 0]]
  /\ late' = {} /\ answer' = NoAnswer
  /\ UNCHANGED <<asked, linker>>

(***************************************************************************)
(* The worker                                                              *)
(***************************************************************************)
(* Definitions marked "bug:" are wrong variants of the one that follows    *)
(* them; the specification does not use them.                              *)
(* bug: the signal is not reset *)
BlockKeepsSignal(kind) ==
  /\ waiting = None /\ Len(asked) < MaxRequests
  /\ asked' = Append(asked, kind) /\ linker' = Append(linker, "none")
  /\ posted' = Append(posted, Request(Len(asked'))) /\ waiting' = Len(asked')
  /\ UNCHANGED <<signal, buffer, signing, written, answer, late>>

(* signSync and fetchSync up to Atomics.wait.                              *)
Block(kind) ==
  /\ waiting = None /\ Len(asked) < MaxRequests
  /\ asked' = Append(asked, kind) /\ linker' = Append(linker, "none")
  /\ signal' = [signal EXCEPT ![kind] = FALSE]
  /\ posted' = Append(posted, Request(Len(asked'))) /\ waiting' = Len(asked')
  /\ UNCHANGED <<buffer, signing, written, answer, late>>

(* What getRecordSync and its like make of a status: null (or nothing)     *)
(* unless 200, an error from 500 on.                                       *)
RecordAnswer(status) ==
  IF status = 200 THEN "found" ELSE IF status >= 500 THEN "NetworkError" ELSE "null"

Given(kind) ==
  [req |-> waiting, of |-> buffer[kind].of,
   is |-> IF kind = "fetch" THEN RecordAnswer(buffer[kind].status)
          ELSE IF buffer[kind].status = 1 THEN "signature" ELSE "error"]

(* The wait ends and the worker reads the buffer.                          *)
Wake ==
  /\ waiting # None /\ signal[asked[waiting]]
  /\ answer' = Given(asked[waiting]) /\ waiting' = None
  /\ UNCHANGED <<asked, signal, buffer, posted, signing, written, linker, late>>

(* The wait ends after 30 s: an error for a signature; for a record, the   *)
(* error is caught and the record counts as not found.                     *)
WaitTimeout ==
  /\ waiting # None /\ ~signal[asked[waiting]]
  /\ answer' = [req |-> waiting, of |-> waiting,
                is |-> IF asked[waiting] = "fetch" THEN "null" ELSE "error"]
  /\ late' = late \cup {asked[waiting]} /\ waiting' = None
  /\ UNCHANGED <<asked, signal, buffer, posted, signing, written, linker>>

StatusOf(reply) ==
  CASE reply = "found" -> 200 [] reply = "missing" -> 404 [] reply = "denied" -> 401
    [] reply = "broken" -> 503 [] reply \in {"big", "cut"} -> 500

(* Firefox: a direct XHR; an exception is caught and answered with null,   *)
(* and there is no buffer to overflow.                                     *)
FetchDirect(reply) ==
  /\ waiting = None /\ Len(asked) < MaxRequests
  /\ asked' = Append(asked, "fetch") /\ linker' = Append(linker, reply)
  /\ answer' = [req |-> Len(asked'), of |-> Len(asked'),
                is |-> IF reply = "big" THEN "found"
                       ELSE IF reply = "cut" THEN "null" ELSE RecordAnswer(StatusOf(reply))]
  /\ posted' = IF reply = "denied" THEN Append(posted, Message("http401", 0)) ELSE posted
  /\ UNCHANGED <<waiting, signal, buffer, signing, written, late>>

(***************************************************************************)
(* The main thread                                                         *)
(***************************************************************************)
MainFree == written = None
Handling(type) == MainFree /\ posted # <<>> /\ Head(posted).type = type

Write(kind, n, status) ==
  /\ buffer' = [buffer EXCEPT ![kind] = [of |-> n, status |-> status]]
  /\ written' = kind /\ signal' = signal

(* handleNetworkRequest: a synchronous XHR; an answer the buffer cannot    *)
(* take, and a connection that fails, become a 500.                        *)
HandleNetworkRequest(reply) ==
  /\ Handling("request") /\ asked[Head(posted).n] = "fetch"
  /\ posted' = Tail(posted)
  /\ linker' = [linker EXCEPT ![Head(posted).n] = reply]
  /\ Write("fetch", Head(posted).n, StatusOf(reply))
  /\ UNCHANGED <<asked, waiting, signing, answer, late>>

(* handleSignRequest up to its await.                                      *)
HandleSignRequest ==
  /\ Handling("request") /\ asked[Head(posted).n] = "sign"
  /\ posted' = Tail(posted) /\ signing' = signing \cup {Head(posted).n}
  /\ UNCHANGED <<asked, waiting, signal, buffer, written, linker, answer, late>>

(* The background's answer, or the failure to get one.                     *)
SignAnswered(n, ok) ==
  /\ MainFree /\ n \in signing /\ signing' = signing \ {n}
  /\ Write("sign", n, IF ok THEN 1 ELSE 0)
  /\ UNCHANGED <<asked, waiting, posted, linker, answer, late>>

(* Atomics.store and notify, the last statement of both.                   *)
Raise ==
  /\ ~MainFree /\ signal' = [signal EXCEPT ![written] = TRUE] /\ written' = None
  /\ UNCHANGED <<asked, waiting, buffer, posted, signing, linker, answer, late>>

(***************************************************************************)
(* Properties                                                              *)
(***************************************************************************)
Numbers == Requests \cup {0}

BridgeTypeOK ==
  /\ asked \in Seq(Kinds) /\ linker \in Seq(Replies \cup {"none"})
  /\ Len(asked) <= MaxRequests /\ Len(linker) = Len(asked)
  /\ waiting \in DOMAIN asked \cup {None} /\ written \in Kinds \cup {None}
  /\ signal \in [Kinds -> BOOLEAN] /\ signing \subseteq Requests /\ late \subseteq Kinds
  /\ buffer \in [Kinds -> [of : Numbers, status : Nat]]
  /\ answer \in [req : Numbers, of : Numbers,
                 is : {"none", "found", "null", "NetworkError", "signature", "error"}]

(* Until a request of its kind has timed out, a signature or an HTTP       *)
(* answer is given to the request it was made for: no other action is      *)
(* signed with it, no other hash resolved to that record.                  *)
OwnAnswer == answer.of # answer.req => asked[answer.req] \in late

(* types.ts: NetworkError is for answers of 500 and above, "distinct from" *)
(* an unreachable network, which counts as not found.                      *)
ServerErrorOnly == answer.is = "NetworkError" => linker[answer.req] = "broken"

(***************************************************************************)
(* The inductive invariant behind OwnAnswer: until a request of a kind has *)
(* timed out, the only one there is anything of is the one the worker      *)
(* waits for, and it is at one place: posted, with the background, being   *)
(* written, or answered.                                                   *)
(***************************************************************************)
Carries(i, kind) == posted[i].type = "request" /\ asked[posted[i].n] = kind

InTurn(kind) ==
  /\ \A i \in DOMAIN posted : Carries(i, kind) =>
       /\ posted[i].n = waiting /\ waiting \notin signing /\ written # kind /\ ~signal[kind]
       /\ \A j \in DOMAIN posted : Carries(j, kind) => j = i
  /\ \A n \in signing : asked[n] = kind => n = waiting /\ written # kind /\ ~signal[kind]
  /\ written = kind =>
       waiting # None /\ asked[waiting] = kind /\ buffer[kind].of = waiting /\ ~signal[kind]
  /\ signal[kind] /\ waiting # None /\ asked[waiting] = kind => buffer[kind].of = waiting

BridgeInv ==
  /\ waiting # None => waiting = Len(asked)
  /\ \A i \in DOMAIN posted : posted[i].type = "request" => posted[i].n \in DOMAIN asked
  /\ signing \subseteq {n \in DOMAIN asked : asked[n] = "sign"}
  /\ \A kind \in Kinds \ late : InTurn(kind)
  /\ answer.of # answer.req => answer.req \in DOMAIN asked
  /\ OwnAnswer
=============================================================================
