---------------------------- MODULE PublishQueue ----------------------------
(***************************************************************************)
(* Publishing DhtOps to the linker: the rows of PublishTracker (IndexedDB, *)
(* durable), PublishService.processQueue with its processingQueue flag,    *)
(* and the four kinds of job that queue ops or ask for processing:         *)
(*   "record"     publishRecord, after a zome call or a genesis            *)
(*   "all"        PUBLISH_ALL_RECORDS                                      *)
(*   "retry"      PUBLISH_RETRY_FAILED                                     *)
(*   "reconnect"  retryPublishesAfterReconnect, again and again            *)
(*                                                                         *)
(* One action per stretch of code between two awaits: every IndexedDB      *)
(* transaction and every request to the linker is one.  The linker is      *)
(* external: it may store any of the ops and pass any of those on to peers.*)
(* Its answer says of each op whether it was stored, and of all of them    *)
(* only how many were passed on.                                           *)
(***************************************************************************)
EXTENDS Naturals, Sequences, FiniteSets

CONSTANTS
  Ops,          \* tracked ops, each a row id
  Dnas,
  DnaOf,        \* [Ops -> Dnas]
  DnaOrder,     \* the registered DNAs, in the order they are processed
  Jobs,
  KindOf,       \* [Jobs -> Kinds]
  OpsOf,        \* [Jobs -> SUBSET Ops]: what a "record" or "all" job queues
  Invocations,  \* 1..n: bound on processQueue invocations running at once
  MaxRetries,   \* PublishServiceOptions.maxRetries
  MaxCrashes,   \* bound: restarts of the offscreen document
  MaxFaults     \* bound: IndexedDB requests of processQueue that fail

Kinds == {"record", "all", "retry", "reconnect"}

ASSUME OpsAssumption == DnaOf \in [Ops -> Dnas] /\ DnaOrder \in Seq(Dnas)
ASSUME JobsAssumption ==
  /\ KindOf \in [Jobs -> Kinds]
  /\ OpsOf \in [Jobs -> SUBSET Ops]
  /\ \A i, j \in Jobs : i # j => OpsOf[i] \cap OpsOf[j] = {}
  /\ \A j \in Jobs : KindOf[j] = "record" =>
       OpsOf[j] # {} /\ \A o1, o2 \in OpsOf[j] : DnaOf[o1] = DnaOf[o2]
ASSUME BoundsAssumption ==
  /\ Invocations \subseteq Nat
  /\ MaxRetries \in Nat \ {0} /\ MaxCrashes \in Nat /\ MaxFaults \in Nat

VARIABLES
  rows,      \* PENDING_PUBLISHES: status ("none": no row) and retryCount
  job,       \* where each job is, the ops still to store, the DNAs still to process
  busy,      \* PublishService.processingQueue
  run,       \* the processQueue invocations
  accepted,  \* history: ops the linker has stored in a request of which a peer got an op
  reached,   \* history: ops a peer has got
  attempts,  \* sends of each op since its retry count was last reset
  crashes, faults

vars == <<rows, job, busy, run, accepted, reached, attempts, crashes, faults>>
queue == <<job, busy>>
world == <<accepted, reached, attempts>>
bounds == <<crashes, faults>>

Statuses == {"none", "Pending", "InFlight", "Published", "Failed"}
IdleRun == [at |-> "idle"]
With(s, d) == {o \in Ops : DnaOf[o] = d /\ rows[o].status = s}

(***************************************************************************)
(* PublishTracker                                                          *)
(***************************************************************************)
(* The definitions marked "bug:" are wrong variants of the one that follows*)
(* them; the specification does not use them.                              *)
(* bug: a failure is not counted *)
UpdateStatusUncounted(o, s) ==
  rows' = [rows EXCEPT ![o].status = IF @ = "none" THEN @ ELSE s]

UpdateStatus(o, s) ==
  rows' = [rows EXCEPT ![o] =
    IF @.status = "none" THEN @
    ELSE [status |-> s, retries |-> @.retries + (IF s = "Failed" THEN 1 ELSE 0)]]

(* One cursor over the store in one transaction.                           *)
ResetFailed(ds) ==
  LET reset == {o \in Ops : rows[o].status = "Failed" /\ DnaOf[o] \in ds}
  IN /\ rows' = [o \in Ops |->
                   IF o \in reset THEN [status |-> "Pending", retries |-> 0] ELSE rows[o]]
     /\ attempts' = [o \in Ops |-> IF o \in reset THEN 0 ELSE attempts[o]]

DnaSet == {DnaOrder[i] : i \in 1..Len(DnaOrder)}

(***************************************************************************)
(* PublishService.processQueue                                             *)
(***************************************************************************)
Init ==
  /\ rows = [o \in Ops |-> [status |-> "none", retries |-> 0]]
  /\ job = [j \in Jobs |-> [at |-> "new", store |-> OpsOf[j], rest |-> <<>>]]
  /\ busy = FALSE
  /\ run = [p \in Invocations |-> IdleRun]
  /\ accepted = {} /\ reached = {}
  /\ attempts = [o \in Ops |-> 0]
  /\ crashes = 0 /\ faults = 0

(* bug: the flag is not looked at *)
StartUnguarded(d, j) ==
  \E p \in Invocations :
    /\ run[p] = IdleRun
    /\ \A q \in Invocations : q < p => run[q] # IdleRun
    /\ busy' = TRUE
    /\ run' = [run EXCEPT ![p] =
         [at |-> "pending", dna |-> d, owner |-> j, todo |-> {}, batch |-> {}, left |-> {},
          ok |-> {}, lost |-> FALSE]]

(* The call up to its first await.                                         *)
Start(d, j) ==
  \E p \in Invocations :
    /\ ~busy
    /\ run[p] = IdleRun
    /\ \A q \in Invocations : q < p => run[q] # IdleRun
    /\ busy' = TRUE
    /\ run' = [run EXCEPT ![p] =
         [at |-> "pending", dna |-> d, owner |-> j, todo |-> {}, batch |-> {}, left |-> {},
          ok |-> {}, lost |-> FALSE]]

At(p, l) == run[p].at = l
Step(p, r) == run' = [run EXCEPT ![p] = r]

(* bug: no finally block *)
FinishFlagKept(p) ==
  /\ Step(p, IdleRun)
  /\ UNCHANGED busy
  /\ job' = [j \in Jobs |->
       IF run[p].owner = j /\ job[j].at = "wait" THEN [job[j] EXCEPT !.at = "loop"] ELSE job[j]]

(* The finally block; the job that awaits the call goes on.                *)
Finish(p) ==
  /\ Step(p, IdleRun)
  /\ busy' = FALSE
  /\ job' = [j \in Jobs |->
       IF run[p].owner = j /\ job[j].at = "wait" THEN [job[j] EXCEPT !.at = "loop"] ELSE job[j]]

ReadPending(p) ==
  /\ At(p, "pending")
  /\ Step(p, [run[p] EXCEPT !.at = "failed", !.todo = With("Pending", run[p].dna)])
  /\ UNCHANGED <<rows, queue, world, bounds>>

Retryable(d) == {o \in With("Failed", d) : rows[o].retries < MaxRetries}

(* Which of the retryable ops have waited long enough is up to the clock.  *)
ReadFailed(p) ==
  /\ At(p, "failed")
  /\ \E ready \in SUBSET Retryable(run[p].dna) :
       LET todo == run[p].todo \cup ready
       IN IF todo = {}
          THEN Finish(p)
          ELSE Step(p, [run[p] EXCEPT !.at = "next", !.todo = todo]) /\ UNCHANGED queue
  /\ UNCHANGED <<rows, world, bounds>>

(* The next batch, of at least one op; after the last one, the loop again. *)
NextBatch(p) ==
  /\ At(p, "next")
  /\ \/ /\ run[p].todo = {}
        /\ Step(p, [run[p] EXCEPT !.at = "pending"])
     \/ \E b \in (SUBSET run[p].todo) \ {{}} :
          Step(p, [run[p] EXCEPT !.at = "mark", !.todo = @ \ b, !.batch = b, !.left = b])
  /\ UNCHANGED <<rows, queue, world, bounds>>

(* The op o is dealt with; after the last one of the batch, on to l.       *)
Next1(p, o, l) ==
  Step(p, [run[p] EXCEPT !.left = @ \ {o}, !.at = IF run[p].left = {o} THEN l ELSE @])

MarkInFlight(p) ==
  /\ At(p, "mark")
  /\ \E o \in run[p].left : UpdateStatus(o, "InFlight") /\ Next1(p, o, "send")
  /\ UNCHANGED <<queue, world, bounds>>

(* bug: stored is taken for published *)
PublishedByAnyone(stored, passed) == stored

(* noPeersAvailable: what the linker stored failed if it passed nothing on.*)
PublishedOf(stored, passed) == IF passed = {} THEN {} ELSE stored

(* The request and what the linker makes of it.  The answer may be lost,   *)
(* or be an error, whatever the linker did.                                *)
Request(p, stored, passed, lost) ==
  /\ At(p, "send")
  /\ accepted' = accepted \cup (IF passed = {} THEN {} ELSE stored)
  /\ reached' = reached \cup passed
  /\ attempts' = [o \in Ops |-> IF o \in run[p].batch THEN attempts[o] + 1 ELSE attempts[o]]
  /\ Step(p, [run[p] EXCEPT !.at = "answer", !.ok = PublishedOf(stored, passed), !.lost = lost])
  /\ UNCHANGED <<rows, queue, bounds>>

Send(p) ==
  /\ At(p, "send")
  /\ \E stored \in SUBSET run[p].batch : \E passed \in SUBSET stored, lost \in BOOLEAN :
       Request(p, stored, passed, lost)

Answer(p) ==
  /\ At(p, "answer")
  /\ Step(p, [run[p] EXCEPT !.at = IF run[p].lost THEN "recover" ELSE "settle",
                            !.left = run[p].batch])
  /\ UNCHANGED <<rows, queue, world, bounds>>

Settle(p) ==
  /\ At(p, "settle")
  /\ \E o \in run[p].left :
       IF o \in run[p].ok
       THEN UpdateStatus(o, "Published") /\ Step(p, [run[p] EXCEPT !.at = "remove"])
       ELSE UpdateStatus(o, "Failed") /\ Next1(p, o, "next")
  /\ UNCHANGED <<queue, world, bounds>>

Remove(p) ==
  /\ At(p, "remove")
  /\ \E o \in run[p].left :
       /\ rows[o].status = "Published"
       /\ rows' = [rows EXCEPT ![o] = [status |-> "none", retries |-> 0]]
       /\ Step(p, [run[p] EXCEPT !.left = @ \ {o},
                                 !.at = IF run[p].left = {o} THEN "next" ELSE "settle"])
  /\ UNCHANGED <<queue, world, bounds>>

(* The catch block of publishBatch.                                        *)
MarkFailed(p) ==
  /\ At(p, "recover")
  /\ \E o \in run[p].left : UpdateStatus(o, "Failed") /\ Next1(p, o, "next")
  /\ UNCHANGED <<queue, world, bounds>>

(* An IndexedDB request fails: inside publishBatch's try the batch fails,  *)
(* elsewhere the exception ends the call.                                  *)
StoreFault(p) ==
  /\ faults < MaxFaults
  /\ faults' = faults + 1
  /\ \/ /\ run[p].at \in {"pending", "failed", "mark", "recover"}
        /\ Finish(p)
     \/ /\ run[p].at \in {"settle", "remove"}
        /\ Step(p, [run[p] EXCEPT !.at = "recover", !.left = run[p].batch])
        /\ UNCHANGED queue
  /\ UNCHANGED <<rows, world, crashes>>

(***************************************************************************)
(* The jobs                                                                *)
(***************************************************************************)
JobStep(j, r) == job' = [job EXCEPT ![j] = r]

(* The DNAs a job asks to process.                                         *)
Asks(j) ==
  IF KindOf[j] = "record"
  THEN <<DnaOf[CHOOSE o \in OpsOf[j] : TRUE]>>
  ELSE DnaOrder

(* queueRecordForPublish: one row after the other, then the queue.         *)
StoreOp(j) ==
  /\ KindOf[j] \in {"record", "all"}
  /\ job[j].at = "new"
  /\ \E o \in job[j].store :
       /\ rows' = [rows EXCEPT ![o] = [status |-> "Pending", retries |-> 0]]
       /\ JobStep(j, [job[j] EXCEPT
            !.store = @ \ {o},
            !.at = IF job[j].store = {o} THEN "loop" ELSE @,
            !.rest = IF job[j].store = {o} THEN Asks(j) ELSE @])
  /\ UNCHANGED <<busy, run, world, bounds>>

(* The row cannot be stored: the rest of the record is given up, without a *)
(* call of processQueue; PUBLISH_ALL_RECORDS goes on with the next record. *)
StoreOpFails(j) ==
  /\ KindOf[j] \in {"record", "all"}
  /\ job[j].at = "new"
  /\ faults < MaxFaults
  /\ faults' = faults + 1
  /\ \/ /\ KindOf[j] = "record"
        /\ JobStep(j, [job[j] EXCEPT !.at = "done"])
     \/ /\ KindOf[j] = "all"
        /\ \E o \in job[j].store :
             JobStep(j, [job[j] EXCEPT
               !.store = @ \ {o},
               !.at = IF job[j].store = {o} THEN "loop" ELSE @,
               !.rest = IF job[j].store = {o} THEN Asks(j) ELSE @])
  /\ UNCHANGED <<rows, busy, run, world, crashes>>

(* resetFailedForDnas; the retry button asks for processing only if there  *)
(* was something to reset.                                                 *)
ResetThenAsk(j) ==
  /\ KindOf[j] \in {"retry", "reconnect"}
  /\ job[j].at = "new"
  /\ ResetFailed(DnaSet)
  /\ JobStep(j, [job[j] EXCEPT
       !.at = "loop",
       !.rest = IF KindOf[j] = "retry" /\ rows' = rows THEN <<>> ELSE Asks(j)])
  /\ UNCHANGED <<busy, run, accepted, reached, bounds>>

Awaits(j) == KindOf[j] \in {"all", "retry"}

(* Ask for the next DNA.  A call that finds the flag set returns at once.  *)
(* A job that does not await the calls makes them all in one go: those     *)
(* after the first find the flag set.                                      *)
AskNext(j) ==
  LET rest == IF Awaits(j) THEN Tail(job[j].rest) ELSE <<>>
  IN /\ job[j].at = "loop"
     /\ job[j].rest # <<>>
     /\ \/ /\ Start(Head(job[j].rest), j)
           /\ JobStep(j, [job[j] EXCEPT !.rest = rest, !.at = IF Awaits(j) THEN "wait" ELSE @])
        \/ /\ busy
           /\ JobStep(j, [job[j] EXCEPT !.rest = rest])
           /\ UNCHANGED <<busy, run>>
     /\ UNCHANGED <<rows, world, bounds>>

(* The connection may be lost and come back any number of times.           *)
JobEnd(j) ==
  /\ job[j].at = "loop"
  /\ job[j].rest = <<>>
  /\ JobStep(j, [job[j] EXCEPT !.at = IF KindOf[j] = "reconnect" THEN "new" ELSE "done"])
  /\ UNCHANGED <<rows, busy, run, world, bounds>>

(* The offscreen document is closed: everything but the rows is gone.      *)
Crash ==
  /\ crashes < MaxCrashes
  /\ crashes' = crashes + 1
  /\ busy' = FALSE
  /\ run' = [p \in Invocations |-> IdleRun]
  /\ job' = [j \in Jobs |->
       IF KindOf[j] = "reconnect" THEN [job[j] EXCEPT !.at = "new", !.rest = <<>>]
       ELSE IF job[j].at = "new" /\ job[j].store = OpsOf[j] THEN job[j]
       ELSE [job[j] EXCEPT !.at = "done", !.rest = <<>>]]
  /\ UNCHANGED <<rows, world, faults>>

Process(p) ==
  \/ ReadPending(p) \/ ReadFailed(p) \/ NextBatch(p) \/ MarkInFlight(p) \/ Send(p)
  \/ Answer(p) \/ Settle(p) \/ Remove(p) \/ MarkFailed(p)

Ask(j) == AskNext(j) \/ JobEnd(j)

Next ==
  \/ \E p \in Invocations : Process(p) \/ StoreFault(p)
  \/ \E j \in Jobs : StoreOp(j) \/ StoreOpFails(j) \/ ResetThenAsk(j) \/ Ask(j)
  \/ Crash

Spec == Init /\ [][Next]_vars

(* IndexedDB and the event loop answer every request.                      *)
Fairness ==
  /\ \A p \in Invocations : WF_vars(Process(p))
  /\ \A j \in Jobs : WF_vars(Ask(j)) /\ WF_vars(StoreOp(j) /\ job[j].store # OpsOf[j])

(* Moreover the connection is lost and re-established again and again, and *)
(* a linker that is asked again and again once stores all and passes it on.*)
Reconnecting ==
  /\ \A j \in Jobs : WF_vars(KindOf[j] = "reconnect" /\ ResetThenAsk(j))
  /\ \A p \in Invocations : SF_vars(Request(p, run[p].batch, run[p].batch, FALSE))

FairSpec == Spec /\ Fairness
ReconnectingSpec == FairSpec /\ Reconnecting

(***************************************************************************)
(* Properties                                                              *)
(***************************************************************************)
Row == [status : Statuses, retries : 0..(MaxRetries + 1)]
Places ==
  {"pending", "failed", "next", "mark", "send", "answer", "settle", "remove", "recover"}
Running ==
  [at : Places, dna : Dnas, owner : Jobs, todo : SUBSET Ops, batch : SUBSET Ops,
   left : SUBSET Ops, ok : SUBSET Ops, lost : BOOLEAN]

(* The variables have the values the code can give them; a row whose batch *)
(* failed half-way is counted one failure beyond maxRetries at most.       *)
TypeOK ==
  /\ rows \in [Ops -> Row]
  /\ job \in [Jobs -> [at : {"new", "loop", "wait", "done"}, store : SUBSET Ops,
                       rest : Seq(Dnas)]]
  /\ busy \in BOOLEAN
  /\ run \in [Invocations -> {IdleRun} \cup Running]
  /\ accepted \subseteq Ops /\ reached \subseteq Ops
  /\ attempts \in [Ops -> Nat]
  /\ crashes \in Nat /\ faults \in Nat

Unpublished == {"Pending", "InFlight", "Failed"}

(* Marked as on its way, and no running call has it: nothing reads such a  *)
(* row again.                                                              *)
Stranded(o) ==
  /\ rows[o].status = "InFlight"
  /\ \A p \in Invocations : run[p] # IdleRun => o \notin run[p].batch

(* "Track publish status in the browser extension to ensure data reaches   *)
(* the DHT" (STEPS/8.4_PLAN.md:5): whatever fails or crashes, an op leaves *)
(* the states that are shown or retried only after the linker has stored   *)
(* it and passed something on, if not this op (see PublishedReached); and  *)
(* nothing but a crash or a failure of the store leaves one stranded.      *)
KeptUntilAccepted ==
  [][\A o \in Ops :
       /\ rows[o].status \in Unpublished /\ rows'[o].status \notin Unpublished => o \in accepted
       /\ ~Stranded(o) /\ Stranded(o)' => bounds' # bounds]_vars

(* "Op was stored AND published to at least one peer"                      *)
(* (publish-service.ts:280), where the row is marked Published and then    *)
(* removed.  It is not so when the linker has passed on only others.       *)
PublishedReached == \A o \in Ops : rows[o].status = "Published" => o \in reached

(* While ops are on their way to the linker, they are marked so and no     *)
(* other invocation has them: a second trigger, the retry button or a      *)
(* reconnect during a request never makes the same op be sent twice at once*)
(* (publish-service.ts: processingQueue; resetFailedForDnas).              *)
InFlightExclusive ==
  \A p \in Invocations : run[p].at \in {"send", "answer"} =>
    \A o \in run[p].batch :
      /\ rows[o].status = "InFlight"
      /\ \A q \in Invocations \ {p} :
           run[q] # IdleRun => o \notin run[q].todo \cup run[q].batch

(* maxRetries bounds how often an op is sent to the linker before a reset, *)
(* whichever of the three failure paths each attempt took.                 *)
AttemptsBounded == \A o \in Ops : attempts[o] <= MaxRetries

(* The loop of processQueue ends, although it looks again after every      *)
(* batch and nothing bounds how fast ops fail.                             *)
ProcessingEnds == busy ~> ~busy

(* "Ops that exhausted 5 retries were permanently stuck in Failed status   *)
(* with no automatic recovery" (STEPS/15_COMPLETION.md:7) is repaired: with*)
(* one DNA, reconnects and a linker that answers at last, every queued op  *)
(* is stored in a request that reaches a peer.                             *)
EventuallyAccepted == \A o \in Ops : rows[o].status # "none" ~> o \in accepted

(* "Queue a record for publishing and immediately attempt to publish"      *)
(* (publish-service.ts:101), "Loop to re-check for new ops that may have   *)
(* been added during processing" (132): once publishRecord has returned,   *)
(* each of its ops is attempted without another trigger.                   *)
QueuedIsAttempted ==
  \A j \in Jobs : KindOf[j] = "record" =>
    \A o \in OpsOf[j] :
      job[j].at = "done" /\ rows[o].status = "Pending" ~> rows[o].status # "Pending"

(* "then process the publish queue for all registered DNAs"                *)
(* (publish-retry.ts:17): an op that waits is attempted after one of       *)
(* infinitely many reconnects, whichever registered DNA it belongs to.     *)
EveryDnaRetried ==
  \A o \in Ops : rows[o].status = "Pending" ~> rows[o].status # "Pending"

(***************************************************************************)
(* The inductive invariant behind them                                     *)
(***************************************************************************)
Active(p) == run[p] # IdleRun

(* The flag keeps the invocations apart.                                   *)
OneAtATime ==
  \A p \in Invocations : Active(p) => busy /\ \A q \in Invocations : Active(q) => q = p

(* An op a job has still to store is nowhere else.                         *)
ToStore(j) ==
  IF KindOf[j] \in {"record", "all"} /\ job[j].at = "new" THEN job[j].store ELSE {}

StoredOnce ==
  \A j \in Jobs :
    /\ job[j].store \subseteq OpsOf[j]
    /\ \A o \in ToStore(j) :
         /\ rows[o].status = "none" /\ attempts[o] = 0
         /\ \A p \in Invocations : Active(p) => o \notin run[p].todo \cup run[p].batch

(* The failures of a row count the sends of its op.                        *)
Counted(o) ==
  /\ attempts[o] <= MaxRetries
  /\ rows[o].status \in {"none", "Pending"} => rows[o].retries = 0
  /\ rows[o].status = "Pending" => attempts[o] = 0
  /\ rows[o].status = "Failed" => attempts[o] <= rows[o].retries

(* What holds of an op before, while and after it is sent.                 *)
Waits(o) == rows[o].status \in {"Pending", "Failed"} /\ rows[o].retries < MaxRetries

Marked(o) ==
  /\ rows[o].status = "InFlight"
  /\ rows[o].retries < MaxRetries /\ attempts[o] <= rows[o].retries

Sent(o) ==
  /\ rows[o].status \in {"InFlight", "Published"}
  /\ rows[o].retries < MaxRetries /\ attempts[o] <= rows[o].retries + 1

Settled(o) ==
  /\ rows[o].retries <= MaxRetries
  /\ rows[o].status # "none" => attempts[o] <= rows[o].retries + 1

BatchInv(r) ==
  /\ r.ok \subseteq accepted
  /\ r.left \subseteq r.batch
  /\ \A o \in r.todo : Waits(o)
  /\ r.at \in {"mark", "send", "answer", "settle", "remove", "recover"} => r.todo \cap r.batch = {}
  /\ r.at = "mark" => \A o \in r.batch : IF o \in r.left THEN Waits(o) ELSE Marked(o)
  /\ r.at = "send" => \A o \in r.batch : Marked(o)
  /\ r.at = "answer" => \A o \in r.batch : Sent(o) /\ rows[o].status = "InFlight"
  /\ r.at \in {"settle", "remove"} => \A o \in r.batch : IF o \in r.left THEN Sent(o) ELSE Settled(o)
  /\ r.at = "recover" => \A o \in r.left : Settled(o)

(* An op that is marked as on its way is one the invocation still has to   *)
(* deal with.                                                              *)
Landing(r, rs) ==
  \A o \in r.batch :
    rs[o].status = "InFlight" =>
      \/ r.at \in {"mark", "send", "answer"}
      \/ r.at \in {"settle", "remove", "recover"} /\ o \in r.left

Inv ==
  /\ TypeOK
  /\ OneAtATime
  /\ StoredOnce
  /\ \A o \in Ops : Counted(o)
  /\ \A p \in Invocations : Active(p) => BatchInv(run[p])

Landed == \A p \in Invocations : Active(p) => Landing(run[p], rows)
=============================================================================
