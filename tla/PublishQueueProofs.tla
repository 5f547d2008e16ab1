------------------------- MODULE PublishQueueProofs -------------------------
(***************************************************************************)
(* Theorems about PublishQueue, for any sets of ops, DNAs and jobs and any *)
(* number of failures, crashes and reconnects.                             *)
(***************************************************************************)
EXTENDS PublishQueue, TLAPS

USE OpsAssumption, JobsAssumption, BoundsAssumption

JobRecord == [at : {"new", "loop", "wait", "done"}, store : SUBSET Ops, rest : Seq(Dnas)]
BatchPlaces == {"mark", "send", "answer", "settle", "remove", "recover"}

(***************************************************************************)
(* What a step has to show                                                 *)
(***************************************************************************)
LEMMA ActiveRunning ==
  ASSUME TypeOK, NEW p \in Invocations
  PROVE  /\ Active(p) <=> run[p] \in Running
         /\ Active(p) <=> run[p].at \in Places
         /\ Active(p) <=> run[p].at # "idle"
<1>1. run[p] = IdleRun \/ run[p] \in Running
  BY DEF TypeOK
<1>2. IdleRun.at = "idle" /\ "idle" \notin Places
  BY DEF IdleRun, Places
<1>3. \A r \in Running : r.at \in Places
  BY DEF Running
<1>. QED BY <1>1, <1>2, <1>3 DEF Active

(* An invocation sees nothing of changes that keep what it knows of the    *)
(* ops it holds.                                                           *)
LEMMA BatchKeeps ==
  ASSUME NEW r, BatchInv(r), accepted \subseteq accepted',
         \A o \in r.todo \cup r.batch :
            /\ Waits(o) => Waits(o)'
            /\ Marked(o) => Marked(o)'
            /\ Sent(o) => Sent(o)'
            /\ Settled(o) => Settled(o)'
            /\ rows[o].status = "InFlight" => rows'[o].status = "InFlight"
  PROVE  BatchInv(r)'
BY DEF BatchInv

LEMMA BatchFrame ==
  ASSUME NEW r, BatchInv(r), accepted \subseteq accepted',
         \A o \in r.todo \cup r.batch : rows'[o] = rows[o] /\ attempts'[o] = attempts[o]
  PROVE  BatchInv(r)'
<1>1. \A o \in r.todo \cup r.batch :
         /\ Waits(o) => Waits(o)'
         /\ Marked(o) => Marked(o)'
         /\ Sent(o) => Sent(o)'
         /\ Settled(o) => Settled(o)'
         /\ rows[o].status = "InFlight" => rows'[o].status = "InFlight"
  BY DEF Waits, Marked, Sent, Settled
<1>. QED BY <1>1, BatchKeeps

(* A step of an invocation that is under way and stays so.                 *)
LEMMA ProcessFrame ==
  ASSUME Inv, NEW p \in Invocations, Active(p), NEW r \in Running, Step(p, r),
         UNCHANGED <<queue, crashes>>, faults' \in Nat,
         rows' \in [Ops -> Row], attempts' \in [Ops -> Nat],
         accepted \subseteq accepted', accepted' \subseteq Ops, reached' \subseteq Ops,
         \A o \in Ops \ run[p].batch : rows'[o] = rows[o] /\ attempts'[o] = attempts[o],
         \A o \in r.todo \cup r.batch :
            o \in run[p].todo \cup run[p].batch \/ rows[o].status # "none",
         \A o \in Ops : Counted(o)',
         BatchInv(r)'
  PROVE  Inv'
<1>0. TypeOK /\ run \in [Invocations -> {IdleRun} \cup Running]
  BY DEF Inv, TypeOK
<1>1. run' \in [Invocations -> {IdleRun} \cup Running] /\ run'[p] = r
      /\ \A q \in Invocations \ {p} : run'[q] = run[q]
  BY <1>0 DEF Step
<1>2. TypeOK'
  BY <1>1 DEF Inv, TypeOK, queue
<1>3. \A q \in Invocations : Active(q) => q = p
  BY DEF Inv, OneAtATime
<1>4. \A q \in Invocations \ {p} : ~Active(q) /\ ~Active(q)'
  BY <1>1, <1>3 DEF Active
<1>5. OneAtATime'
  BY <1>4 DEF Inv, OneAtATime, queue
<1>6. StoredOnce'
  <2>. SUFFICES ASSUME NEW j \in Jobs, NEW o \in ToStore(j)
                PROVE  /\ rows'[o].status = "none" /\ attempts'[o] = 0
                       /\ \A q \in Invocations : Active(q)' => o \notin run'[q].todo \cup run'[q].batch
    BY DEF Inv, StoredOnce, ToStore, queue
  <2>1. o \in Ops
    BY <1>0 DEF ToStore, TypeOK
  <2>2. rows[o].status = "none" /\ attempts[o] = 0 /\ o \notin run[p].todo \cup run[p].batch
    BY DEF Inv, StoredOnce
  <2>. QED BY <1>1, <1>4, <2>1, <2>2
<1>. QED BY <1>1, <1>2, <1>4, <1>5, <1>6 DEF Inv

(* A job that waited for an invocation goes on.                            *)
LEMMA AwaitOver ==
  ASSUME NEW x \in JobRecord, NEW y, y = x \/ y = [x EXCEPT !.at = "loop"]
  PROVE  /\ y \in JobRecord
         /\ y.store = x.store /\ (y.at = "new" => x.at = "new")
BY DEF JobRecord

(* The end of an invocation.                                               *)
LEMMA FinishStep ==
  ASSUME Inv, NEW p \in Invocations, Active(p), Finish(p),
         UNCHANGED <<rows, world, crashes>>, faults' \in Nat
  PROVE  Inv'
<1>0. TypeOK
  BY DEF Inv
<1>1. run' \in [Invocations -> {IdleRun} \cup Running] /\ run'[p] = IdleRun
      /\ \A q \in Invocations \ {p} : run'[q] = run[q]
  BY <1>0 DEF Finish, Step, TypeOK
<1>2. \A q \in Invocations : ~Active(q)'
  BY <1>1 DEF Inv, OneAtATime, Active
<1>3. job' \in [Jobs -> JobRecord]
      /\ \A j \in Jobs : job'[j].store = job[j].store /\ (job'[j].at = "new" => job[j].at = "new")
  <2>. DEFINE f(j) == IF run[p].owner = j /\ job[j].at = "wait"
                      THEN [job[j] EXCEPT !.at = "loop"] ELSE job[j]
  <2>1. job' = [j \in Jobs |-> f(j)]
    BY DEF Finish
  <2>3. \A j \in Jobs : f(j) = job[j] \/ f(j) = [job[j] EXCEPT !.at = "loop"]
    OBVIOUS
  <2>4. \A j \in Jobs : job[j] \in JobRecord
    BY <1>0 DEF TypeOK, JobRecord
  <2>. HIDE DEF f
  <2>5. \A j \in Jobs : /\ f(j) \in JobRecord
                        /\ f(j).store = job[j].store /\ (f(j).at = "new" => job[j].at = "new")
    BY <2>3, <2>4, AwaitOver
  <2>. QED BY <2>1, <2>5
<1>4. TypeOK'
  BY <1>0, <1>1, <1>3 DEF Finish, TypeOK, JobRecord, world
<1>5. \A j \in Jobs : ToStore(j)' \subseteq ToStore(j)
  BY <1>3 DEF ToStore
<1>6. StoredOnce'
  BY <1>2, <1>3, <1>5 DEF Inv, StoredOnce, world
<1>7. \A o \in Ops : Counted(o)'
  BY DEF Inv, Counted, world
<1>. QED BY <1>2, <1>4, <1>6, <1>7 DEF Inv, OneAtATime

(* A step of a job that touches neither rows nor invocations.              *)
LEMMA JobFrame ==
  ASSUME Inv, NEW j \in Jobs, NEW x \in JobRecord, JobStep(j, x),
         x.store \subseteq job[j].store, KindOf[j] \in {"record", "all"} /\ x.at = "new" => job[j].at = "new",
         UNCHANGED <<rows, busy, run, world, crashes>>, faults' \in Nat
  PROVE  Inv'
<1>0. TypeOK
  BY DEF Inv
<1>1. job' \in [Jobs -> JobRecord] /\ job'[j] = x /\ \A i \in Jobs \ {j} : job'[i] = job[i]
  BY <1>0 DEF JobStep, TypeOK, JobRecord
<1>2. TypeOK'
  BY <1>0, <1>1 DEF TypeOK, JobRecord, world
<1>3. \A i \in Jobs : ToStore(i)' \subseteq ToStore(i) /\ job'[i].store \subseteq job[i].store
  BY <1>1 DEF ToStore
<1>4. StoredOnce'
  BY <1>3 DEF Inv, StoredOnce, Active, world
<1>5. \A o \in Ops : Counted(o)'
  BY DEF Inv, Counted, world
<1>6. OneAtATime'
  BY DEF Inv, OneAtATime, Active
<1>7. ASSUME NEW p \in Invocations, Active(p)' PROVE BatchInv(run[p])'
  <2>1. BatchInv(run[p])
    BY <1>7 DEF Inv, Active
  <2>2. run'[p] = run[p]
    OBVIOUS
  <2>. QED BY <2>1, <2>2, BatchFrame DEF world, BatchInv, Waits, Marked, Sent, Settled
<1>. QED BY <1>2, <1>4, <1>5, <1>6, <1>7 DEF Inv

(***************************************************************************)
(* The steps of processQueue                                               *)
(***************************************************************************)
LEMMA UpdateStatusRow ==
  ASSUME TypeOK, NEW o \in Ops, NEW s \in Statuses, UpdateStatus(o, s),
         s = "Failed" => rows[o].status = "none" \/ rows[o].retries <= MaxRetries
  PROVE  /\ rows' \in [Ops -> Row]
         /\ \A x \in Ops \ {o} : rows'[x] = rows[x]
         /\ rows[o].retries \in Nat
         /\ IF rows[o].status = "none" THEN rows'[o] = rows[o]
            ELSE /\ rows'[o].status = s
                 /\ rows'[o].retries = rows[o].retries + (IF s = "Failed" THEN 1 ELSE 0)
<1>1. rows \in [Ops -> Row] /\ rows[o].retries \in 0..(MaxRetries + 1) /\ MaxRetries \in Nat
  BY DEF TypeOK, Row
<1>. DEFINE n == rows[o].retries + (IF s = "Failed" THEN 1 ELSE 0)
            row == [status |-> s, retries |-> n]
<1>2. rows' = [rows EXCEPT ![o] = IF rows[o].status = "none" THEN rows[o] ELSE row]
  BY <1>1 DEF UpdateStatus
<1>3. rows[o].status # "none" => n \in 0..(MaxRetries + 1)
  BY <1>1
<1>4. rows[o].status # "none" => row \in Row
  BY <1>3 DEF Row
<1>. QED BY <1>1, <1>2, <1>4

LEMMA CountedFrame ==
  ASSUME NEW o \in Ops, Counted(o), rows'[o] = rows[o], attempts'[o] = attempts[o]
  PROVE  Counted(o)'
BY DEF Counted

(* A step of an invocation that only moves on.                             *)
LEMMA ProcessQuiet ==
  ASSUME Inv, NEW p \in Invocations, Active(p), NEW r \in Running, Step(p, r),
         UNCHANGED <<rows, queue, world, crashes>>, faults' \in Nat,
         \A o \in r.todo \cup r.batch :
            o \in run[p].todo \cup run[p].batch \/ rows[o].status # "none",
         BatchInv(r)
  PROVE  Inv'
<1>1. BatchInv(r)'
  BY BatchFrame DEF world
<1>2. \A o \in Ops : Counted(o)'
  BY CountedFrame DEF Inv, world
<1>. QED BY <1>1, <1>2, ProcessFrame DEF Inv, TypeOK, world

LEMMA ReadStep ==
  ASSUME Inv, NEW p \in Invocations, ReadPending(p) \/ ReadFailed(p)
  PROVE  Inv'
<1>0. TypeOK /\ Active(p) /\ run[p] \in Running /\ BatchInv(run[p])
  BY ActiveRunning DEF Inv, ReadPending, ReadFailed, At, Places
<1>1. faults' \in Nat /\ UNCHANGED <<rows, world, crashes>>
  BY <1>0 DEF ReadPending, ReadFailed, bounds, TypeOK
<1>2. CASE ReadPending(p)
  <2>. DEFINE S == With("Pending", run[p].dna)
              r == [run[p] EXCEPT !.at = "failed", !.todo = S]
  <2>1. S \subseteq Ops /\ \A o \in S : Waits(o) /\ rows[o].status # "none"
    <3>1. \A o \in S : o \in Ops /\ rows[o].status = "Pending"
      BY DEF With
    <3>2. \A o \in S : rows[o].retries = 0
      BY <3>1 DEF Inv, Counted
    <3>. QED BY <3>1, <3>2 DEF Waits
  <2>. HIDE DEF S
  <2>2. r \in Running /\ r.at = "failed" /\ r.todo = S
        /\ r.batch = run[p].batch /\ r.left = run[p].left /\ r.ok = run[p].ok
    BY <1>0, <2>1 DEF Running, Places
  <2>3. Step(p, r) /\ UNCHANGED queue
    BY <1>2 DEF ReadPending, S
  <2>. HIDE DEF r
  <2>4. BatchInv(r)
    BY <1>0, <2>1, <2>2 DEF BatchInv
  <2>. QED BY <1>0, <1>1, <2>1, <2>2, <2>3, <2>4, ProcessQuiet
<1>3. CASE ReadFailed(p)
  <2>1. PICK ready \in SUBSET Retryable(run[p].dna) :
          LET todo == run[p].todo \cup ready
          IN IF todo = {}
             THEN Finish(p)
             ELSE Step(p, [run[p] EXCEPT !.at = "next", !.todo = todo]) /\ UNCHANGED queue
    BY <1>3 DEF ReadFailed
  <2>2. CASE run[p].todo \cup ready = {}
    BY <1>0, <1>1, <2>1, <2>2, FinishStep
  <2>3. CASE run[p].todo \cup ready # {}
    <3>. DEFINE S == run[p].todo \cup ready
                r == [run[p] EXCEPT !.at = "next", !.todo = S]
    <3>1. \A o \in ready : o \in Ops /\ Waits(o) /\ rows[o].status # "none"
      BY DEF Retryable, With, Waits
    <3>2. S \subseteq Ops /\ \A o \in S : Waits(o) /\ rows[o].status # "none"
      BY <1>0, <3>1 DEF Running, BatchInv, Waits
    <3>3. Step(p, r) /\ UNCHANGED queue
      BY <2>1, <2>3
    <3>. HIDE DEF S
    <3>4. r \in Running /\ r.at = "next" /\ r.todo = S
          /\ r.batch = run[p].batch /\ r.left = run[p].left /\ r.ok = run[p].ok
      BY <1>0, <3>2 DEF Running, Places
    <3>. HIDE DEF r
    <3>5. BatchInv(r)
      BY <1>0, <3>2, <3>4 DEF BatchInv
    <3>. QED BY <1>0, <1>1, <3>2, <3>3, <3>4, <3>5, ProcessQuiet
  <2>. QED BY <2>2, <2>3
<1>. QED BY <1>2, <1>3

LEMMA NextBatchStep ==
  ASSUME Inv, NEW p \in Invocations, NextBatch(p)
  PROVE  Inv'
<1>0. TypeOK /\ Active(p) /\ run[p] \in Running /\ BatchInv(run[p])
  BY ActiveRunning DEF Inv, NextBatch, At, Places
<1>1. faults' \in Nat /\ UNCHANGED <<rows, queue, world, crashes>>
  BY <1>0 DEF NextBatch, bounds, TypeOK
<1>2. CASE Step(p, [run[p] EXCEPT !.at = "pending"])
  <2>. DEFINE r == [run[p] EXCEPT !.at = "pending"]
  <2>1. r \in Running /\ r.at = "pending" /\ r.todo = run[p].todo
        /\ r.batch = run[p].batch /\ r.left = run[p].left /\ r.ok = run[p].ok
    BY <1>0 DEF Running, Places
  <2>2. Step(p, r)
    BY <1>2
  <2>. HIDE DEF r
  <2>3. BatchInv(r)
    BY <1>0, <2>1 DEF BatchInv
  <2>. QED BY <1>0, <1>1, <2>1, <2>2, <2>3, ProcessQuiet
<1>3. CASE \E b \in (SUBSET run[p].todo) \ {{}} :
             Step(p, [run[p] EXCEPT !.at = "mark", !.todo = @ \ b, !.batch = b, !.left = b])
  <2>1. PICK b \in (SUBSET run[p].todo) \ {{}} :
             Step(p, [run[p] EXCEPT !.at = "mark", !.todo = @ \ b, !.batch = b, !.left = b])
    BY <1>3
  <2>. DEFINE r == [run[p] EXCEPT !.at = "mark", !.todo = @ \ b, !.batch = b, !.left = b]
  <2>2. r \in Running /\ r.at = "mark" /\ r.todo = run[p].todo \ b
        /\ r.batch = b /\ r.left = b /\ r.ok = run[p].ok
    BY <1>0 DEF Running, Places
  <2>3. Step(p, r)
    BY <2>1
  <2>. HIDE DEF r
  <2>4. BatchInv(r)
    BY <1>0, <2>2 DEF BatchInv
  <2>. QED BY <1>0, <1>1, <2>2, <2>3, <2>4, ProcessQuiet
<1>. QED BY <1>2, <1>3 DEF NextBatch

(* A step that changes the row of one op of the batch.                     *)
LEMMA RowStep ==
  ASSUME Inv, NEW p \in Invocations, Active(p), NEW o \in run[p].batch,
         NEW r \in Running, Step(p, r), UNCHANGED <<queue, world, bounds>>,
         rows' \in [Ops -> Row], \A x \in Ops \ {o} : rows'[x] = rows[x],
         r.todo = run[p].todo, r.batch = run[p].batch,
         Counted(o)', BatchInv(r)'
  PROVE  Inv'
<1>1. \A x \in Ops \ run[p].batch : rows'[x] = rows[x] /\ attempts'[x] = attempts[x]
  BY DEF world
<1>2. \A x \in Ops : Counted(x)'
  <2>. TAKE x \in Ops
  <2>1. CASE x = o
    BY <2>1
  <2>2. CASE x # o
    BY <2>2, CountedFrame DEF Inv, world
  <2>. QED BY <2>1, <2>2
<1>. QED BY <1>1, <1>2, ProcessFrame DEF Inv, TypeOK, world, bounds

(* The frame of the rest of the batch and of the ops still to do.          *)
LEMMA RestOfBatch ==
  ASSUME Inv, NEW p \in Invocations, Active(p), run[p].at \in BatchPlaces, NEW o \in run[p].batch,
         UNCHANGED world, \A x \in Ops \ {o} : rows'[x] = rows[x]
  PROVE  /\ run[p] \in Running /\ o \in Ops /\ Counted(o) /\ BatchInv(run[p])
         /\ run[p].ok \subseteq accepted'
         /\ run[p].todo \cap run[p].batch = {}
         /\ \A x \in run[p].todo : Waits(x)'
         /\ \A x \in run[p].batch \ {o} : /\ Waits(x) => Waits(x)'
                                          /\ Marked(x) => Marked(x)'
                                          /\ Sent(x) => Sent(x)'
                                          /\ Settled(x) => Settled(x)'
<1>1. TypeOK /\ run[p] \in Running /\ BatchInv(run[p])
  BY ActiveRunning DEF Inv
<1>2. run[p].todo \subseteq Ops /\ run[p].batch \subseteq Ops /\ o \notin run[p].todo
  BY <1>1 DEF Running, BatchInv, BatchPlaces
<1>3. \A x \in Ops \ {o} : /\ Waits(x) => Waits(x)'
                           /\ Marked(x) => Marked(x)'
                           /\ Sent(x) => Sent(x)'
                           /\ Settled(x) => Settled(x)'
  BY DEF Waits, Marked, Sent, Settled, world
<1>4. run[p].ok \subseteq accepted' /\ run[p].todo \cap run[p].batch = {}
      /\ \A x \in run[p].todo : Waits(x)
  BY <1>1 DEF BatchInv, BatchPlaces, world
<1>. QED BY <1>1, <1>2, <1>3, <1>4 DEF Inv

(* The record of the invocation after its op o is dealt with.              *)
Following(p, o, l, r) ==
  /\ r \in Running /\ Step(p, r)
  /\ r.todo = run[p].todo /\ r.batch = run[p].batch /\ r.ok = run[p].ok
  /\ r.left = run[p].left \ {o}
  /\ r.at = IF run[p].left = {o} THEN l ELSE run[p].at

LEMMA FollowingExists ==
  ASSUME NEW p, run[p] \in Running, NEW o, NEW l \in Places, Next1(p, o, l)
  PROVE  \E r : Following(p, o, l, r)
<1>. DEFINE r == [run[p] EXCEPT !.left = @ \ {o}, !.at = IF run[p].left = {o} THEN l ELSE @]
<1>1. /\ r \in Running
      /\ r.todo = run[p].todo /\ r.batch = run[p].batch /\ r.ok = run[p].ok
      /\ r.left = run[p].left \ {o}
      /\ r.at = IF run[p].left = {o} THEN l ELSE run[p].at
  BY DEF Running, Places
<1>2. Step(p, r)
  BY DEF Next1
<1>. HIDE DEF r
<1>. QED BY <1>1, <1>2 DEF Following

LEMMA MarkStep ==
  ASSUME Inv, NEW p \in Invocations, MarkInFlight(p)
  PROVE  Inv'
<1>0. TypeOK /\ Active(p) /\ run[p] \in Running /\ run[p].at = "mark" /\ BatchInv(run[p])
  BY ActiveRunning DEF Inv, MarkInFlight, At, Places
<1>1. PICK o \in run[p].left : UpdateStatus(o, "InFlight") /\ Next1(p, o, "send")
  BY DEF MarkInFlight
<1>2. PICK r : Following(p, o, "send", r)
  BY <1>0, <1>1, FollowingExists DEF Places
<1>3. o \in run[p].batch /\ o \in Ops /\ Waits(o) /\ UNCHANGED <<queue, world, bounds>>
  BY <1>0 DEF BatchInv, Running, MarkInFlight
<1>4. /\ rows' \in [Ops -> Row] /\ \A x \in Ops \ {o} : rows'[x] = rows[x]
      /\ rows'[o].status = "InFlight" /\ rows'[o].retries = rows[o].retries
      /\ rows[o].retries \in Nat
  BY <1>0, <1>1, <1>3, UpdateStatusRow DEF Statuses, Waits
<1>5. /\ run[p].ok \subseteq accepted' /\ run[p].todo \cap run[p].batch = {} /\ Counted(o)
      /\ \A x \in run[p].todo : Waits(x)'
      /\ \A x \in run[p].batch \ {o} : (Waits(x) => Waits(x)') /\ (Marked(x) => Marked(x)')
  BY <1>0, <1>3, <1>4, RestOfBatch DEF BatchPlaces
<1>6. Marked(o)' /\ Counted(o)'
  <2>1. attempts'[o] = attempts[o] /\ attempts[o] <= rows[o].retries /\ rows[o].retries < MaxRetries
    BY <1>3, <1>4, <1>5 DEF Counted, Waits, world
  <2>. QED BY <1>4, <1>5, <2>1 DEF Marked, Counted
<1>7. \A x \in run[p].batch : IF x \in r.left THEN Waits(x)' ELSE Marked(x)'
  BY <1>0, <1>2, <1>5, <1>6 DEF BatchInv, Following
<1>8. (r.at = "send" /\ r.left = {}) \/ r.at = "mark"
  BY <1>0, <1>2 DEF Following
<1>9. BatchInv(r)'
  BY <1>0, <1>2, <1>5, <1>7, <1>8 DEF BatchInv, Following
<1>. QED BY <1>0, <1>2, <1>3, <1>4, <1>6, <1>9, RowStep DEF Following

LEMMA SendStep ==
  ASSUME Inv, NEW p \in Invocations, Send(p)
  PROVE  Inv'
<1>0. TypeOK /\ Active(p) /\ run[p] \in Running /\ run[p].at = "send" /\ BatchInv(run[p])
  BY ActiveRunning DEF Inv, Send, At, Places
<1>1. PICK stored \in SUBSET run[p].batch, passed \in SUBSET run[p].batch, lost \in BOOLEAN :
        passed \subseteq stored /\
        Request(p, stored, passed, lost)
  BY DEF Send
<1>. DEFINE ok == PublishedOf(stored, passed)
<1>2. /\ ok \subseteq Ops /\ ok \subseteq accepted' /\ accepted \subseteq accepted' /\ accepted' \subseteq Ops
      /\ reached' \subseteq Ops
  BY <1>0, <1>1 DEF PublishedOf, Request, Running, TypeOK
<1>3. UNCHANGED <<rows, queue, bounds>>
  BY <1>1 DEF Request
<1>4. PICK r \in Running :
        /\ Step(p, r) /\ r.at = "answer" /\ r.ok = ok
        /\ r.todo = run[p].todo /\ r.batch = run[p].batch /\ r.left = run[p].left
  <2>. DEFINE x == [run[p] EXCEPT !.at = "answer", !.ok = ok, !.lost = lost]
  <2>1. Step(p, x)
    BY <1>1 DEF Request
  <2>. HIDE DEF ok
  <2>2. /\ x \in Running /\ x.at = "answer" /\ x.ok = ok
        /\ x.todo = run[p].todo /\ x.batch = run[p].batch /\ x.left = run[p].left
    BY <1>0, <1>2 DEF Running, Places
  <2>. HIDE DEF x
  <2>. QED BY <2>1, <2>2
<1>. HIDE DEF ok
<1>5. /\ attempts' \in [Ops -> Nat]
      /\ \A o \in Ops : attempts'[o] = IF o \in run[p].batch THEN attempts[o] + 1 ELSE attempts[o]
  BY <1>0, <1>1 DEF Request, TypeOK
<1>6. /\ \A o \in run[p].batch : o \in Ops /\ Marked(o) /\ attempts[o] \in Nat /\ rows[o].retries \in Nat
      /\ MaxRetries \in Nat
      /\ run[p].todo \cap run[p].batch = {}
      /\ \A o \in run[p].todo : o \in Ops /\ Waits(o)
      /\ run[p].left \subseteq run[p].batch
  BY <1>0 DEF BatchInv, Running, TypeOK, Row
<1>7. ASSUME NEW o \in run[p].batch PROVE Sent(o)' /\ rows'[o].status = "InFlight" /\ Counted(o)'
  <2>1. /\ attempts'[o] = attempts[o] + 1 /\ rows'[o] = rows[o]
        /\ rows[o].status = "InFlight" /\ rows[o].retries < MaxRetries /\ attempts[o] <= rows[o].retries
    BY <1>3, <1>5, <1>6 DEF Marked
  <2>. QED BY <1>6, <2>1 DEF Sent, Counted
<1>8. \A o \in Ops : Counted(o)'
  <2>. TAKE o \in Ops
  <2>1. CASE o \in run[p].batch
    BY <1>7, <2>1
  <2>2. CASE o \notin run[p].batch
    BY <1>3, <1>5, <2>2, CountedFrame DEF Inv
  <2>. QED BY <2>1, <2>2
<1>9. \A o \in run[p].todo : Waits(o)'
  BY <1>3, <1>6 DEF Waits
<1>10. BatchInv(r)'
  BY <1>2, <1>4, <1>6, <1>7, <1>9 DEF BatchInv
<1>11. rows' \in [Ops -> Row] /\ faults' \in Nat /\ UNCHANGED crashes
  BY <1>0, <1>3 DEF TypeOK, bounds
<1>. QED BY <1>0, <1>2, <1>3, <1>4, <1>5, <1>8, <1>10, <1>11, ProcessFrame

LEMMA AnswerStep ==
  ASSUME Inv, NEW p \in Invocations, Answer(p)
  PROVE  Inv'
<1>0. TypeOK /\ Active(p) /\ run[p] \in Running /\ run[p].at = "answer" /\ BatchInv(run[p])
  BY ActiveRunning DEF Inv, Answer, At, Places
<1>. DEFINE l == IF run[p].lost THEN "recover" ELSE "settle"
            r == [run[p] EXCEPT !.at = l, !.left = run[p].batch]
<1>1. Step(p, r) /\ UNCHANGED <<rows, queue, world, crashes>> /\ faults' \in Nat
  BY <1>0 DEF Answer, bounds, TypeOK
<1>2. /\ r \in Running /\ r.at \in {"recover", "settle"}
      /\ r.todo = run[p].todo /\ r.batch = run[p].batch /\ r.left = run[p].batch /\ r.ok = run[p].ok
  BY <1>0 DEF Running, Places
<1>. HIDE DEF r
<1>3. \A o \in run[p].batch : Sent(o) /\ Settled(o)
  <2>1. \A o \in run[p].batch : o \in Ops /\ Sent(o) /\ rows[o].retries \in Nat
    BY <1>0 DEF BatchInv, Running, TypeOK, Row
  <2>. QED BY <2>1 DEF Sent, Settled
<1>4. BatchInv(r)
  BY <1>0, <1>2, <1>3 DEF BatchInv
<1>. QED BY <1>0, <1>1, <1>2, <1>4, ProcessQuiet

(* An op that was sent and whose failure is recorded, or whose success.    *)
LEMMA SentSettled ==
  ASSUME TypeOK, NEW o \in Ops, Sent(o) PROVE Settled(o)
<1>1. rows[o].retries \in Nat /\ MaxRetries \in Nat
  BY DEF TypeOK, Row
<1>. QED BY <1>1 DEF Sent, Settled

LEMMA SettleStep ==
  ASSUME Inv, NEW p \in Invocations, Settle(p)
  PROVE  Inv'
<1>0. TypeOK /\ Active(p) /\ run[p] \in Running /\ run[p].at = "settle" /\ BatchInv(run[p])
  BY ActiveRunning DEF Inv, Settle, At, Places
<1>1. PICK o \in run[p].left :
        IF o \in run[p].ok
        THEN UpdateStatus(o, "Published") /\ Step(p, [run[p] EXCEPT !.at = "remove"])
        ELSE UpdateStatus(o, "Failed") /\ Next1(p, o, "next")
  BY DEF Settle
<1>2. o \in run[p].batch /\ o \in Ops /\ Sent(o) /\ UNCHANGED <<queue, world, bounds>>
  BY <1>0 DEF BatchInv, Running, Settle
<1>3. /\ rows[o].retries \in Nat /\ MaxRetries \in Nat /\ attempts[o] \in Nat
      /\ rows[o].status # "none" /\ rows[o].retries < MaxRetries
      /\ attempts[o] <= rows[o].retries + 1 /\ attempts'[o] = attempts[o]
  BY <1>0, <1>2 DEF TypeOK, Row, Sent, world
<1>4. \A s \in {"Published", "Failed"} : UpdateStatus(o, s) =>
        /\ rows' \in [Ops -> Row] /\ \A x \in Ops \ {o} : rows'[x] = rows[x]
        /\ rows'[o].status = s
        /\ rows'[o].retries = rows[o].retries + (IF s = "Failed" THEN 1 ELSE 0)
  BY <1>0, <1>2, <1>3, UpdateStatusRow DEF Statuses
<1>5. CASE o \in run[p].ok
  <2>1. PICK r \in Running :
          /\ Step(p, r) /\ r.at = "remove" /\ r.ok = run[p].ok
          /\ r.todo = run[p].todo /\ r.batch = run[p].batch /\ r.left = run[p].left
    <3>. DEFINE x == [run[p] EXCEPT !.at = "remove"]
    <3>1. Step(p, x)
      BY <1>1, <1>5
    <3>2. /\ x \in Running /\ x.at = "remove" /\ x.ok = run[p].ok
          /\ x.todo = run[p].todo /\ x.batch = run[p].batch /\ x.left = run[p].left
      BY <1>0 DEF Running, Places
    <3>. HIDE DEF x
    <3>. QED BY <3>1, <3>2
  <2>2. /\ rows' \in [Ops -> Row] /\ \A x \in Ops \ {o} : rows'[x] = rows[x]
        /\ rows'[o].status = "Published" /\ rows'[o].retries = rows[o].retries
    BY <1>1, <1>3, <1>4, <1>5
  <2>3. /\ run[p].ok \subseteq accepted' /\ run[p].todo \cap run[p].batch = {} /\ Counted(o)
        /\ \A x \in run[p].todo : Waits(x)'
        /\ \A x \in run[p].batch \ {o} : (Sent(x) => Sent(x)') /\ (Settled(x) => Settled(x)')
    BY <1>0, <1>2, <2>2, RestOfBatch DEF BatchPlaces
  <2>4. Sent(o)' /\ Counted(o)'
    BY <1>3, <2>2, <2>3 DEF Sent, Counted
  <2>5. \A x \in run[p].batch : IF x \in r.left THEN Sent(x)' ELSE Settled(x)'
    BY <1>0, <2>1, <2>3, <2>4 DEF BatchInv
  <2>6. BatchInv(r)'
    BY <1>0, <2>1, <2>3, <2>5 DEF BatchInv
  <2>. QED BY <1>0, <1>2, <2>1, <2>2, <2>4, <2>6, RowStep
<1>6. CASE o \notin run[p].ok
  <2>1. PICK r : Following(p, o, "next", r)
    BY <1>0, <1>1, <1>6, FollowingExists DEF Places
  <2>2. /\ rows' \in [Ops -> Row] /\ \A x \in Ops \ {o} : rows'[x] = rows[x]
        /\ rows'[o].status = "Failed" /\ rows'[o].retries = rows[o].retries + 1
    BY <1>1, <1>4, <1>6
  <2>3. /\ run[p].ok \subseteq accepted' /\ run[p].todo \cap run[p].batch = {} /\ Counted(o)
        /\ \A x \in run[p].todo : Waits(x)'
        /\ \A x \in run[p].batch \ {o} : (Sent(x) => Sent(x)') /\ (Settled(x) => Settled(x)')
    BY <1>0, <1>2, <2>2, RestOfBatch DEF BatchPlaces
  <2>4. Settled(o)' /\ Counted(o)'
    <3>1. attempts'[o] <= rows'[o].retries /\ rows'[o].retries <= MaxRetries /\ rows'[o].retries \in Nat
      BY <1>3, <2>2
    <3>. QED BY <1>3, <2>2, <2>3, <3>1 DEF Settled, Counted
  <2>5. \A x \in run[p].batch : IF x \in r.left THEN Sent(x)' ELSE Settled(x)'
    BY <1>0, <2>1, <2>3, <2>4 DEF BatchInv, Following
  <2>6. r.at \in {"next", "settle"}
    BY <1>0, <2>1 DEF Following
  <2>7. BatchInv(r)'
    BY <1>0, <2>1, <2>3, <2>5, <2>6 DEF BatchInv, Following
  <2>. QED BY <1>0, <1>2, <2>1, <2>2, <2>4, <2>7, RowStep DEF Following
<1>. QED BY <1>5, <1>6

LEMMA RemoveStep ==
  ASSUME Inv, NEW p \in Invocations, Remove(p)
  PROVE  Inv'
<1>0. TypeOK /\ Active(p) /\ run[p] \in Running /\ run[p].at = "remove" /\ BatchInv(run[p])
  BY ActiveRunning DEF Inv, Remove, At, Places
<1>1. PICK o \in run[p].left :
        /\ rows' = [rows EXCEPT ![o] = [status |-> "none", retries |-> 0]]
        /\ Step(p, [run[p] EXCEPT !.left = @ \ {o},
                                  !.at = IF run[p].left = {o} THEN "next" ELSE "settle"])
  BY DEF Remove
<1>2. o \in run[p].batch /\ o \in Ops /\ UNCHANGED <<queue, world, bounds>>
  BY <1>0 DEF BatchInv, Running, Remove
<1>3. PICK r \in Running :
        /\ Step(p, r) /\ r.at \in {"next", "settle"} /\ r.ok = run[p].ok
        /\ r.todo = run[p].todo /\ r.batch = run[p].batch /\ r.left = run[p].left \ {o}
  <2>. DEFINE x == [run[p] EXCEPT !.left = @ \ {o},
                                  !.at = IF run[p].left = {o} THEN "next" ELSE "settle"]
  <2>1. Step(p, x)
    BY <1>1
  <2>2. /\ x \in Running /\ x.at \in {"next", "settle"} /\ x.ok = run[p].ok
        /\ x.todo = run[p].todo /\ x.batch = run[p].batch /\ x.left = run[p].left \ {o}
    BY <1>0 DEF Running, Places
  <2>. HIDE DEF x
  <2>. QED BY <2>1, <2>2
<1>4. /\ rows' \in [Ops -> Row] /\ \A x \in Ops \ {o} : rows'[x] = rows[x]
      /\ rows'[o].status = "none" /\ rows'[o].retries = 0
  <2>1. [status |-> "none", retries |-> 0] \in Row
    BY DEF Row, Statuses
  <2>. QED BY <1>0, <1>1, <1>2, <2>1 DEF TypeOK
<1>5. /\ run[p].ok \subseteq accepted' /\ run[p].todo \cap run[p].batch = {} /\ Counted(o)
      /\ \A x \in run[p].todo : Waits(x)'
      /\ \A x \in run[p].batch \ {o} : (Sent(x) => Sent(x)') /\ (Settled(x) => Settled(x)')
  BY <1>0, <1>2, <1>4, RestOfBatch DEF BatchPlaces
<1>6. Settled(o)' /\ Counted(o)'
  BY <1>4, <1>5, <1>2 DEF Settled, Counted, world
<1>7. \A x \in run[p].batch : IF x \in r.left THEN Sent(x)' ELSE Settled(x)'
  BY <1>0, <1>3, <1>5, <1>6 DEF BatchInv
<1>8. BatchInv(r)'
  BY <1>0, <1>3, <1>5, <1>7 DEF BatchInv
<1>. QED BY <1>0, <1>2, <1>3, <1>4, <1>6, <1>8, RowStep

LEMMA MarkFailedStep ==
  ASSUME Inv, NEW p \in Invocations, MarkFailed(p)
  PROVE  Inv'
<1>0. TypeOK /\ Active(p) /\ run[p] \in Running /\ run[p].at = "recover" /\ BatchInv(run[p])
  BY ActiveRunning DEF Inv, MarkFailed, At, Places
<1>1. PICK o \in run[p].left : UpdateStatus(o, "Failed") /\ Next1(p, o, "next")
  BY DEF MarkFailed
<1>2. o \in run[p].batch /\ o \in Ops /\ Settled(o) /\ UNCHANGED <<queue, world, bounds>>
  BY <1>0 DEF BatchInv, Running, MarkFailed
<1>3. PICK r : Following(p, o, "next", r)
  BY <1>0, <1>1, FollowingExists DEF Places
<1>4. /\ rows' \in [Ops -> Row] /\ \A x \in Ops \ {o} : rows'[x] = rows[x]
      /\ rows[o].retries \in Nat
      /\ IF rows[o].status = "none" THEN rows'[o] = rows[o]
         ELSE rows'[o].status = "Failed" /\ rows'[o].retries = rows[o].retries + 1
  BY <1>0, <1>1, <1>2, UpdateStatusRow DEF Statuses, Settled
<1>5. /\ run[p].ok \subseteq accepted' /\ run[p].todo \cap run[p].batch = {} /\ Counted(o)
      /\ \A x \in run[p].todo : Waits(x)'
      /\ \A x \in run[p].batch \ {o} : Settled(x) => Settled(x)'
  BY <1>0, <1>2, <1>4, RestOfBatch DEF BatchPlaces
<1>6. Counted(o)'
  BY <1>2, <1>4, <1>5 DEF Counted, Settled, world
<1>7. \A x \in r.left : Settled(x)'
  BY <1>0, <1>3, <1>5 DEF BatchInv, Following
<1>8. r.at \in {"next", "recover"}
  BY <1>0, <1>3 DEF Following
<1>9. BatchInv(r)'
  BY <1>0, <1>3, <1>5, <1>7, <1>8 DEF BatchInv, Following
<1>. QED BY <1>0, <1>2, <1>3, <1>4, <1>6, <1>9, RowStep DEF Following

LEMMA FaultStep ==
  ASSUME Inv, NEW p \in Invocations, StoreFault(p)
  PROVE  Inv'
<1>0. TypeOK /\ Active(p) /\ run[p] \in Running /\ BatchInv(run[p])
  BY ActiveRunning DEF Inv, StoreFault, Places
<1>1. faults' \in Nat /\ UNCHANGED <<rows, world, crashes>>
  BY <1>0 DEF StoreFault, TypeOK
<1>2. CASE Finish(p)
  BY <1>0, <1>1, <1>2, FinishStep
<1>3. CASE ~Finish(p)
  <2>. DEFINE r == [run[p] EXCEPT !.at = "recover", !.left = run[p].batch]
  <2>1. run[p].at \in {"settle", "remove"} /\ Step(p, r) /\ UNCHANGED queue
    BY <1>3 DEF StoreFault
  <2>2. /\ r \in Running /\ r.at = "recover" /\ r.ok = run[p].ok
        /\ r.todo = run[p].todo /\ r.batch = run[p].batch /\ r.left = run[p].batch
    BY <1>0 DEF Running, Places
  <2>. HIDE DEF r
  <2>3. \A o \in run[p].batch : Settled(o)
    BY <1>0, <2>1, SentSettled DEF BatchInv, Running
  <2>4. BatchInv(r)
    BY <1>0, <2>1, <2>2, <2>3 DEF BatchInv
  <2>. QED BY <1>0, <1>1, <2>1, <2>2, <2>4, ProcessQuiet
<1>. QED BY <1>2, <1>3

LEMMA ProcessStep ==
  ASSUME Inv, NEW p \in Invocations, Process(p) \/ StoreFault(p)
  PROVE  Inv'
BY ReadStep, NextBatchStep, MarkStep, SendStep, AnswerStep, SettleStep, RemoveStep,
   MarkFailedStep, FaultStep DEF Process

(***************************************************************************)
(* The steps of the jobs                                                   *)
(***************************************************************************)
(* A job gives away its ops one after the other, then asks for processing. *)
LEMMA AsksType == ASSUME NEW j \in Jobs PROVE Asks(j) \in Seq(Dnas)
<1>1. CASE KindOf[j] = "record"
  <2>1. (CHOOSE o \in OpsOf[j] : TRUE) \in Ops
    BY <1>1
  <2>2. DnaOf[CHOOSE o \in OpsOf[j] : TRUE] \in Dnas
    BY <2>1
  <2>. HIDE DEF OpsAssumption, JobsAssumption
  <2>. QED BY <1>1, <2>2 DEF Asks
<1>2. CASE KindOf[j] # "record"
  BY <1>2 DEF Asks
<1>. QED BY <1>1, <1>2

GiveAway(j, x, o) ==
  [x EXCEPT !.store = @ \ {o},
            !.at = IF x.store = {o} THEN "loop" ELSE @,
            !.rest = IF x.store = {o} THEN Asks(j) ELSE @]

LEMMA GivenAway ==
  ASSUME NEW j \in Jobs, NEW x \in JobRecord, NEW o
  PROVE  /\ GiveAway(j, x, o) \in JobRecord /\ GiveAway(j, x, o).store = x.store \ {o}
         /\ GiveAway(j, x, o).at = "new" => x.at = "new"
<1>1. Asks(j) \in Seq(Dnas)
  BY AsksType
<1>. HIDE DEF OpsAssumption, JobsAssumption, BoundsAssumption
<1>. QED BY <1>1 DEF JobRecord, GiveAway

LEMMA JobType == ASSUME TypeOK, NEW j \in Jobs PROVE job[j] \in JobRecord
BY DEF TypeOK, JobRecord

LEMMA StoreOpStep ==
  ASSUME Inv, NEW j \in Jobs, StoreOp(j)
  PROVE  Inv'
<1>0. TypeOK /\ job[j] \in JobRecord /\ KindOf[j] \in {"record", "all"} /\ job[j].at = "new"
  BY JobType DEF Inv, StoreOp
<1>1. PICK o \in job[j].store :
        /\ rows' = [rows EXCEPT ![o] = [status |-> "Pending", retries |-> 0]]
        /\ JobStep(j, [job[j] EXCEPT
             !.store = @ \ {o},
             !.at = IF job[j].store = {o} THEN "loop" ELSE @,
             !.rest = IF job[j].store = {o} THEN Asks(j) ELSE @])
  BY DEF StoreOp
<1>2. UNCHANGED <<busy, run, accepted, reached, attempts, crashes, faults>>
  BY DEF StoreOp, world, bounds
<1>3. o \in ToStore(j) /\ o \in Ops
  BY <1>0 DEF ToStore, JobRecord
<1>4. /\ rows[o].status = "none" /\ attempts[o] = 0
      /\ \A p \in Invocations : Active(p) => o \notin run[p].todo \cup run[p].batch
  BY <1>3 DEF Inv, StoredOnce
<1>5. /\ rows' \in [Ops -> Row] /\ \A x \in Ops \ {o} : rows'[x] = rows[x]
      /\ rows'[o] = [status |-> "Pending", retries |-> 0]
  <2>1. [status |-> "Pending", retries |-> 0] \in Row
    BY DEF Row, Statuses
  <2>. QED BY <1>0, <1>1, <1>3, <2>1 DEF TypeOK
<1>6. /\ job' \in [Jobs -> JobRecord] /\ \A i \in Jobs \ {j} : job'[i] = job[i]
      /\ job'[j].store = job[j].store \ {o} /\ (job'[j].at = "new" => job[j].at = "new")
  <2>. DEFINE y == GiveAway(j, job[j], o)
  <2>1. y \in JobRecord /\ y.store = job[j].store \ {o} /\ (y.at = "new" => job[j].at = "new")
    BY <1>0, GivenAway
  <2>2. JobStep(j, y)
    BY <1>1 DEF GiveAway
  <2>. HIDE DEF y
  <2>. QED BY <1>0, <2>1, <2>2 DEF JobStep, TypeOK, JobRecord
<1>7. TypeOK'
  BY <1>0, <1>2, <1>5, <1>6 DEF TypeOK, JobRecord
<1>8. StoredOnce'
  <2>1. \A i \in Jobs : /\ job[i].store \subseteq OpsOf[i]
                       /\ job'[i].store \subseteq job[i].store /\ ToStore(i)' \subseteq ToStore(i)
                       /\ o \notin ToStore(i)'
    <3>1. \A i \in Jobs : job[i].store \subseteq OpsOf[i]
      BY DEF Inv, StoredOnce
    <3>2. \A i \in Jobs : /\ job'[i].store \subseteq job[i].store /\ ToStore(i)' \subseteq ToStore(i)
      BY <1>6 DEF ToStore
    <3>3. o \notin job'[j].store /\ \A i \in Jobs \ {j} : o \notin job[i].store
      BY <1>3, <1>6, <3>1 DEF ToStore
    <3>4. \A i \in Jobs : o \notin job'[i].store
      BY <1>6, <3>3
    <3>. QED BY <3>1, <3>2, <3>4 DEF ToStore
  <2>2. \A i \in Jobs : ToStore(i) \subseteq Ops
    BY <1>0 DEF ToStore, TypeOK
  <2>. QED BY <1>2, <1>5, <2>1, <2>2 DEF Inv, StoredOnce, Active
<1>9. \A x \in Ops : Counted(x)'
  <2>. TAKE x \in Ops
  <2>1. CASE x = o
    BY <1>2, <1>4, <1>5, <2>1 DEF Counted
  <2>2. CASE x # o
    BY <1>2, <1>5, <2>2, CountedFrame DEF Inv
  <2>. QED BY <2>1, <2>2
<1>10. OneAtATime'
  BY <1>2 DEF Inv, OneAtATime, Active
<1>11. ASSUME NEW p \in Invocations, Active(p)' PROVE BatchInv(run[p])'
  <2>1. BatchInv(run[p]) /\ run[p] \in Running /\ o \notin run[p].todo \cup run[p].batch
    BY <1>0, <1>2, <1>4, <1>11, ActiveRunning DEF Inv, Active
  <2>2. \A x \in run[p].todo \cup run[p].batch : rows'[x] = rows[x] /\ attempts'[x] = attempts[x]
    BY <1>2, <1>5, <2>1 DEF Running
  <2>. QED BY <1>2, <2>1, <2>2 DEF BatchInv, Waits, Marked, Sent, Settled
<1>. QED BY <1>7, <1>8, <1>9, <1>10, <1>11 DEF Inv

LEMMA StoreOpFailsStep ==
  ASSUME Inv, NEW j \in Jobs, StoreOpFails(j)
  PROVE  Inv'
<1>0. TypeOK /\ job[j] \in JobRecord /\ job[j].at = "new"
  BY JobType DEF Inv, StoreOpFails
<1>1. UNCHANGED <<rows, busy, run, world, crashes>> /\ faults' \in Nat
  <2>1. faults \in Nat
    BY <1>0 DEF TypeOK
  <2>2. faults' = faults + 1 /\ UNCHANGED <<rows, busy, run, world, crashes>>
    BY Zenon DEF StoreOpFails
  <2>. QED BY <2>1, <2>2
<1>2. CASE JobStep(j, [job[j] EXCEPT !.at = "done"])
  <2>. DEFINE x == [job[j] EXCEPT !.at = "done"]
  <2>1. x \in JobRecord /\ x.store = job[j].store
    BY <1>0 DEF JobRecord
  <2>. HIDE DEF x
  <2>. QED BY <1>0, <1>1, <1>2, <2>1, JobFrame DEF x
<1>3. ASSUME NEW o \in job[j].store,
             JobStep(j, [job[j] EXCEPT
               !.store = @ \ {o},
               !.at = IF job[j].store = {o} THEN "loop" ELSE @,
               !.rest = IF job[j].store = {o} THEN Asks(j) ELSE @])
      PROVE  Inv'
  <2>. DEFINE x == GiveAway(j, job[j], o)
  <2>1. x \in JobRecord /\ x.store = job[j].store \ {o}
    BY <1>0, GivenAway
  <2>2. JobStep(j, x)
    BY <1>3 DEF GiveAway
  <2>. HIDE DEF x
  <2>. QED BY <1>0, <1>1, <2>1, <2>2, JobFrame
<1>. QED BY <1>2, <1>3 DEF StoreOpFails

LEMMA ResetStep ==
  ASSUME Inv, NEW j \in Jobs, ResetThenAsk(j)
  PROVE  Inv'
<1>0. TypeOK /\ job[j] \in JobRecord /\ KindOf[j] \notin {"record", "all"}
  BY JobType DEF Inv, ResetThenAsk
<1>. DEFINE reset == {o \in Ops : rows[o].status = "Failed" /\ DnaOf[o] \in DnaSet}
            fresh == [status |-> "Pending", retries |-> 0]
<1>1. /\ rows' = [o \in Ops |-> IF o \in reset THEN fresh ELSE rows[o]]
      /\ attempts' = [o \in Ops |-> IF o \in reset THEN 0 ELSE attempts[o]]
      /\ UNCHANGED <<busy, run, accepted, reached, crashes, faults>>
  BY DEF ResetThenAsk, ResetFailed, bounds
<1>2. fresh \in Row /\ fresh.status = "Pending" /\ fresh.retries = 0
  BY DEF Row, Statuses
<1>3. \A o \in reset : o \in Ops /\ rows[o].status = "Failed"
  OBVIOUS
<1>. HIDE DEF reset, fresh
<1>4. rows' \in [Ops -> Row] /\ attempts' \in [Ops -> Nat]
  BY <1>0, <1>1, <1>2 DEF TypeOK
<1>5. \A o \in Ops : \/ rows'[o] = rows[o] /\ attempts'[o] = attempts[o]
                     \/ /\ rows[o].status = "Failed" /\ attempts'[o] = 0
                        /\ rows'[o].status = "Pending" /\ rows'[o].retries = 0
  BY <1>1, <1>2, <1>3
<1>6. job' \in [Jobs -> JobRecord] /\ job'[j].store = job[j].store /\ \A i \in Jobs \ {j} : job'[i] = job[i]
  <2>. DEFINE q == IF KindOf[j] = "retry" /\ rows' = rows THEN <<>> ELSE Asks(j)
  <2>1. q \in Seq(Dnas)
    <3>. HIDE DEF OpsAssumption, JobsAssumption
    <3>. QED BY AsksType
  <2>2. JobStep(j, [job[j] EXCEPT !.at = "loop", !.rest = q])
    BY DEF ResetThenAsk
  <2>. HIDE DEF q
  <2>. DEFINE x == [job[j] EXCEPT !.at = "loop", !.rest = q]
  <2>3. x \in JobRecord /\ x.store = job[j].store
    BY <1>0, <2>1 DEF JobRecord
  <2>. HIDE DEF x
  <2>. QED BY <1>0, <2>2, <2>3 DEF JobStep, TypeOK, x, JobRecord
<1>7. TypeOK'
  BY <1>0, <1>1, <1>4, <1>6 DEF TypeOK, JobRecord
<1>8. StoredOnce'
  <2>1. \A i \in Jobs : ToStore(i)' \subseteq ToStore(i) /\ job'[i].store = job[i].store
                       /\ ToStore(i) \subseteq Ops
    BY <1>0, <1>6 DEF ToStore, TypeOK, JobRecord
  <2>. QED BY <1>1, <1>5, <2>1 DEF Inv, StoredOnce, Active
<1>9. \A o \in Ops : Counted(o)'
  <2>. TAKE o \in Ops
  <2>1. CASE rows'[o] = rows[o] /\ attempts'[o] = attempts[o]
    BY <2>1, CountedFrame DEF Inv
  <2>2. CASE attempts'[o] = 0 /\ rows'[o].status = "Pending" /\ rows'[o].retries = 0
    BY <2>2 DEF Counted
  <2>. QED BY <1>5, <2>1, <2>2
<1>10. OneAtATime'
  BY <1>1 DEF Inv, OneAtATime, Active
<1>11. ASSUME NEW p \in Invocations, Active(p)' PROVE BatchInv(run[p])'
  <2>1. BatchInv(run[p]) /\ run[p] \in Running
    BY <1>0, <1>1, <1>11, ActiveRunning DEF Inv, Active
  <2>2. PICK r \in Running : r = run[p] /\ r = run'[p]
    BY <1>1, <2>1
  <2>3. r.todo \subseteq Ops /\ r.batch \subseteq Ops /\ BatchInv(r)
    BY <2>1, <2>2 DEF Running
  <2>4. BatchInv(r)'
    <3>1. accepted \subseteq accepted'
      BY <1>1
    <3>2. \A o \in r.todo \cup r.batch :
            /\ Waits(o) => Waits(o)'
            /\ Marked(o) => Marked(o)'
            /\ Sent(o) => Sent(o)'
            /\ Settled(o) => Settled(o)'
            /\ rows[o].status = "InFlight" => rows'[o].status = "InFlight"
      <4>. TAKE o \in r.todo \cup r.batch
      <4>1. o \in Ops
        BY <2>3
      <4>. QED BY <1>5, <4>1 DEF Waits, Marked, Sent, Settled
    <3>3. BatchInv(r)
      BY <2>3
    <3>. QED BY <3>1, <3>2, <3>3, BatchKeeps
  <2>. QED BY <2>2, <2>4 DEF BatchInv
<1>. QED BY <1>7, <1>8, <1>9, <1>10, <1>11 DEF Inv

(* A job asks for the next DNA: an invocation starts, or the flag is set.  *)
LEMMA AskStep ==
  ASSUME Inv, NEW j \in Jobs, AskNext(j)
  PROVE  Inv'
<1>. DEFINE rest == IF Awaits(j) THEN Tail(job[j].rest) ELSE <<>>
            x == [job[j] EXCEPT !.rest = rest, !.at = IF Awaits(j) THEN "wait" ELSE @]
            y == [job[j] EXCEPT !.rest = rest]
<1>0. TypeOK /\ job[j] \in JobRecord /\ job[j].at = "loop" /\ job[j].rest \in Seq(Dnas)
      /\ Head(job[j].rest) \in Dnas
  BY JobType DEF Inv, AskNext, JobRecord
<1>1. UNCHANGED <<rows, accepted, reached, attempts, crashes, faults>>
  BY DEF AskNext, world, bounds
<1>2. rest \in Seq(Dnas)
  <2>1. job[j].rest # <<>>
    BY DEF AskNext
  <2>. QED BY <1>0, <2>1
<1>3. x \in JobRecord /\ x.store = job[j].store /\ x.at # "new"
      /\ y \in JobRecord /\ y.store = job[j].store /\ y.at # "new"
  <2>. HIDE DEF rest
  <2>. QED BY <1>0, <1>2 DEF JobRecord
<1>4. \/ Start(Head(job[j].rest), j) /\ JobStep(j, x)
      \/ JobStep(j, y) /\ UNCHANGED <<busy, run>>
  BY DEF AskNext
<1>. HIDE DEF x, y, rest
<1>5. CASE JobStep(j, y) /\ UNCHANGED <<busy, run>>
  BY <1>0, <1>1, <1>3, <1>5, JobFrame DEF world, TypeOK
<1>6. CASE Start(Head(job[j].rest), j) /\ JobStep(j, x)
  <2>. DEFINE d == Head(job[j].rest)
              r == [at |-> "pending", dna |-> d, owner |-> j, todo |-> {}, batch |-> {},
                    left |-> {}, ok |-> {}, lost |-> FALSE]
  <2>1. PICK p \in Invocations : ~busy /\ busy' = TRUE /\ run' = [run EXCEPT ![p] = r]
    BY <1>6 DEF Start
  <2>2. r \in Running /\ r.at = "pending" /\ r.todo = {} /\ r.batch = {} /\ r.left = {} /\ r.ok = {}
    BY <1>0 DEF Running, Places
  <2>. HIDE DEF r
  <2>3. run' \in [Invocations -> {IdleRun} \cup Running] /\ run'[p] = r
        /\ \A q \in Invocations \ {p} : run'[q] = run[q]
    BY <1>0, <2>1, <2>2 DEF TypeOK
  <2>4. \A q \in Invocations : ~Active(q)
    BY <2>1 DEF Inv, OneAtATime
  <2>5. \A q \in Invocations \ {p} : ~Active(q)'
    BY <2>3, <2>4 DEF Active
  <2>6. job' \in [Jobs -> JobRecord] /\ \A i \in Jobs : job'[i].store = job[i].store
                                                     /\ ToStore(i)' \subseteq ToStore(i)
    BY <1>0, <1>3, <1>6 DEF JobStep, TypeOK, JobRecord, ToStore
  <2>7. TypeOK'
    BY <1>0, <1>1, <2>1, <2>3, <2>6 DEF TypeOK, JobRecord
  <2>8. StoredOnce'
    BY <1>1, <2>2, <2>3, <2>5, <2>6 DEF Inv, StoredOnce
  <2>9. \A o \in Ops : Counted(o)'
    BY <1>1 DEF Inv, Counted
  <2>10. OneAtATime'
    BY <2>1, <2>5 DEF OneAtATime
  <2>11. BatchInv(run[p])'
    BY <2>2, <2>3 DEF BatchInv
  <2>. QED BY <2>5, <2>7, <2>8, <2>9, <2>10, <2>11 DEF Inv
<1>. QED BY <1>4, <1>5, <1>6

LEMMA JobEndStep ==
  ASSUME Inv, NEW j \in Jobs, JobEnd(j)
  PROVE  Inv'
<1>. DEFINE l == IF KindOf[j] = "reconnect" THEN "new" ELSE "done"
            x == [job[j] EXCEPT !.at = l]
<1>1. TypeOK /\ job[j] \in JobRecord
  BY JobType DEF Inv
<1>2. JobStep(j, x) /\ UNCHANGED <<rows, busy, run, world, crashes, faults>>
  BY DEF JobEnd, bounds
<1>3. x \in JobRecord /\ x.store = job[j].store /\ x.at = l
  BY <1>1 DEF JobRecord
<1>4. KindOf[j] \in {"record", "all"} => l # "new"
  OBVIOUS
<1>. HIDE DEF x, l
<1>. QED BY <1>1, <1>2, <1>3, <1>4, JobFrame DEF TypeOK

LEMMA CrashStep == ASSUME Inv, Crash PROVE Inv'
<1>0. TypeOK
  BY DEF Inv
<1>1. /\ crashes' \in Nat /\ busy' = FALSE /\ run' = [p \in Invocations |-> IdleRun]
      /\ UNCHANGED <<rows, accepted, reached, attempts, faults>>
  <2>1. crashes \in Nat
    BY <1>0 DEF TypeOK
  <2>2. /\ crashes' = crashes + 1 /\ busy' = FALSE /\ run' = [p \in Invocations |-> IdleRun]
        /\ UNCHANGED <<rows, accepted, reached, attempts, faults>>
    BY Zenon DEF Crash, world
  <2>. QED BY <2>1, <2>2
<1>. DEFINE f(j) == IF KindOf[j] = "reconnect" THEN [job[j] EXCEPT !.at = "new", !.rest = <<>>]
                    ELSE IF job[j].at = "new" /\ job[j].store = OpsOf[j] THEN job[j]
                    ELSE [job[j] EXCEPT !.at = "done", !.rest = <<>>]
<1>2. job' = [j \in Jobs |-> f(j)]
  BY DEF Crash
<1>3. ASSUME NEW j \in Jobs
      PROVE  /\ f(j) \in JobRecord /\ f(j).store = job[j].store
             /\ KindOf[j] \in {"record", "all"} /\ f(j).at = "new" => job[j].at = "new"
  <2>1. job[j] \in JobRecord /\ <<>> \in Seq(Dnas)
    BY <1>0, JobType
  <2>. HIDE DEF OpsAssumption, JobsAssumption
  <2>. QED BY <2>1 DEF JobRecord
<1>. HIDE DEF f
<1>4. job' \in [Jobs -> JobRecord] /\ \A j \in Jobs : job'[j].store = job[j].store
                                                   /\ ToStore(j)' \subseteq ToStore(j)
  BY <1>2, <1>3 DEF ToStore
<1>5. TypeOK'
  BY <1>0, <1>1, <1>4 DEF TypeOK, JobRecord
<1>6. \A p \in Invocations : ~Active(p)'
  BY <1>1 DEF Active
<1>7. StoredOnce'
  BY <1>1, <1>4, <1>6 DEF Inv, StoredOnce
<1>8. \A o \in Ops : Counted(o)'
  BY <1>1 DEF Inv, Counted
<1>. QED BY <1>5, <1>6, <1>7, <1>8 DEF Inv, OneAtATime

(***************************************************************************)
(* The theorems                                                            *)
(***************************************************************************)
LEMMA InvInit == Init => Inv
<1>. SUFFICES ASSUME Init PROVE Inv
  OBVIOUS
<1>1. rows \in [Ops -> Row] /\ attempts \in [Ops -> Nat]
      /\ \A o \in Ops : rows[o].status = "none" /\ rows[o].retries = 0 /\ attempts[o] = 0
  BY DEF Init, Row, Statuses
<1>2. job \in [Jobs -> JobRecord] /\ \A j \in Jobs : job[j].store = OpsOf[j]
  <2>1. \A j \in Jobs : [at |-> "new", store |-> OpsOf[j], rest |-> <<>>] \in JobRecord
    <3>1. \A j \in Jobs : OpsOf[j] \in SUBSET Ops
      OBVIOUS
    <3>2. <<>> \in Seq(Dnas)
      OBVIOUS
    <3>. QED BY <3>1, <3>2 DEF JobRecord
  <2>. QED BY <2>1 DEF Init
<1>3. \A p \in Invocations : ~Active(p)
  BY DEF Init, Active
<1>4. TypeOK
  BY <1>1, <1>2 DEF Init, TypeOK, JobRecord
<1>5. StoredOnce
  BY <1>1, <1>2, <1>3, <1>4 DEF StoredOnce, ToStore
<1>6. \A o \in Ops : Counted(o)
  BY <1>1 DEF Counted
<1>. QED BY <1>3, <1>4, <1>5, <1>6 DEF Inv, OneAtATime

LEMMA InvStep == Inv /\ [Next]_vars => Inv'
<1>. SUFFICES ASSUME Inv, [Next]_vars PROVE Inv'
  OBVIOUS
<1>1. CASE UNCHANGED vars
  BY <1>1 DEF vars, Inv, TypeOK, OneAtATime, StoredOnce, ToStore, Active, Counted, BatchInv,
              Waits, Marked, Sent, Settled
<1>2. CASE Next
  BY <1>2, ProcessStep, StoreOpStep, StoreOpFailsStep, ResetStep, AskStep, JobEndStep, CrashStep
     DEF Next, Ask
<1>. QED BY <1>1, <1>2

(* Whatever jobs, failures, crashes and reconnects there are, Inv holds.   *)
THEOREM Invariance == Spec => []Inv
BY InvInit, InvStep, PTL DEF Spec

(* No op is on its way to the linker twice at once.                        *)
THEOREM SentOnceAtATime == Spec => []InFlightExclusive
<1>1. ASSUME Inv, NEW p \in Invocations, run[p].at \in {"send", "answer"}, NEW o \in run[p].batch
      PROVE  /\ rows[o].status = "InFlight"
             /\ \A q \in Invocations \ {p} : run[q] = IdleRun
  <2>1. Active(p)
    BY <1>1, ActiveRunning DEF Inv, Places
  <2>2. BatchInv(run[p]) /\ \A q \in Invocations \ {p} : ~Active(q)
    BY <1>1, <2>1 DEF Inv, OneAtATime
  <2>. QED BY <1>1, <2>2 DEF BatchInv, Marked, Active
<1>2. Inv => InFlightExclusive
  BY <1>1 DEF InFlightExclusive
<1>. QED BY <1>2, Invariance, PTL

(* No op is sent to the linker more than maxRetries times before a reset.  *)
THEOREM RetriesBounded == Spec => []AttemptsBounded
<1>1. Inv => AttemptsBounded
  BY DEF Inv, Counted, AttemptsBounded
<1>. QED BY <1>1, Invariance, PTL

(***************************************************************************)
(* What becomes of a batch                                                 *)
(***************************************************************************)
LEMMA UpdatedRow ==
  ASSUME TypeOK, NEW x, NEW s, UpdateStatus(x, s)
  PROVE  \A o \in Ops : /\ o # x => rows'[o] = rows[o]
                        /\ o = x => rows'[o] = rows[o] \/ rows'[o].status = s
BY DEF UpdateStatus, TypeOK

LEMMA ProcessActive ==
  ASSUME Inv, NEW p \in Invocations, Process(p)
  PROVE  Active(p) /\ run[p] \in Running
<1>1. run[p].at \in Places
  <2>1. ReadPending(p) \/ Send(p) \/ Answer(p) \/ Settle(p) \/ Remove(p) \/ MarkFailed(p) \/ MarkInFlight(p)
          => run[p].at \in Places
    BY ZenonT(30) DEF ReadPending, MarkInFlight, Send, Answer, Settle, Remove, MarkFailed, At, Places
  <2>2. ReadFailed(p) \/ NextBatch(p) => run[p].at \in Places
    BY ZenonT(30) DEF ReadFailed, NextBatch, At, Places
  <2>. QED BY <2>1, <2>2 DEF Process
<1>. QED BY <1>1, ActiveRunning DEF Inv

(* The steps of an invocation: only what it still has to deal with is      *)
(* InFlight afterwards, and nothing becomes so but what it marks.          *)
LEMMA Deals ==
  ASSUME Inv, Landed, NEW p \in Invocations, Process(p)
  PROVE  /\ \A q \in Invocations \ {p} : run'[q] = run[q]
         /\ Active(p)' => Landing(run'[p], rows')
         /\ \A o \in Ops : rows'[o].status = "InFlight" =>
              \/ rows[o].status = "InFlight" /\ o \notin run[p].batch
              \/ Active(p)' /\ o \in run'[p].batch
<1>0. /\ TypeOK /\ rows \in [Ops -> Row] /\ run \in [Invocations -> {IdleRun} \cup Running]
      /\ Active(p) /\ run[p] \in Running /\ Landing(run[p], rows) /\ BatchInv(run[p])
      /\ run[p].batch \subseteq Ops
  <2>1. Active(p) /\ run[p] \in Running
    BY ProcessActive
  <2>. QED BY <2>1 DEF Inv, TypeOK, Landed, Running
<1>. DEFINE Done == /\ \A q \in Invocations \ {p} : run'[q] = run[q]
                    /\ Active(p)' => Landing(run'[p], rows')
                    /\ \A o \in Ops : rows'[o].status = "InFlight" =>
                         \/ rows[o].status = "InFlight" /\ o \notin run[p].batch
                         \/ Active(p)' /\ o \in run'[p].batch
<1>1. ASSUME NEW r, Step(p, r) PROVE run'[p] = r /\ \A q \in Invocations \ {p} : run'[q] = run[q]
  BY <1>0, <1>1 DEF Step
<1>2. ASSUME UNCHANGED rows, Step(p, IdleRun), \A o \in run[p].batch : rows[o].status # "InFlight" PROVE Done
  BY <1>1, <1>2 DEF Active
<1>3. ASSUME NEW r, r # IdleRun, Step(p, r), Landing(r, rows'), r.batch = run[p].batch,
             \A o \in Ops \ run[p].batch : rows'[o] = rows[o]
      PROVE  Done
  <2>1. run'[p] = r /\ Active(p)'
    BY <1>1, <1>3 DEF Active
  <2>2. Landing(run'[p], rows')
    BY <1>3, <2>1 DEF Landing
  <2>. QED BY <1>1, <1>3, <2>1, <2>2
<1>4. ASSUME UNCHANGED rows, NEW r, r # IdleRun, Step(p, r), Landing(r, rows'),
             \A o \in run[p].batch : rows[o].status # "InFlight"
      PROVE  Done
  <2>1. run'[p] = r /\ Active(p)'
    BY <1>1, <1>4 DEF Active
  <2>2. Landing(run'[p], rows')
    BY <1>4, <2>1 DEF Landing
  <2>. QED BY <1>1, <1>4, <2>2
<1>5. ASSUME NEW o \in run[p].left, NEW l \in {"send", "next"}, NEW s \in {"InFlight", "Failed"},
             UpdateStatus(o, s), Next1(p, o, l), l = "send" => run[p].at = "mark",
             l = "next" => run[p].at \in {"settle", "recover"} /\ s # "InFlight"
      PROVE  Done
  <2>1. PICK r : Following(p, o, l, r)
    BY <1>0, <1>5, FollowingExists DEF Places
  <2>2. \A x \in Ops : (x # o => rows'[x] = rows[x]) /\ (x = o => rows'[x] = rows[x] \/ rows'[x].status = s)
    BY <1>0, <1>5, UpdatedRow
  <2>3. o \in run[p].batch /\ r # IdleRun /\ Step(p, r) /\ r.batch = run[p].batch
    BY <1>0, <2>1 DEF BatchInv, Following, Running, IdleRun, Places
  <2>4. Landing(r, rows')
    <3>1. CASE l = "send"
      BY <1>5, <2>1, <3>1 DEF Following, Landing
    <3>2. CASE l = "next"
      <4>1. rows'[o].status # "InFlight"
        <5>1. UpdateStatus(o, "Failed") /\ o \in Ops
          BY <1>0, <1>5, <2>3, <3>2
        <5>2. rows'[o].status = IF rows[o].status = "none" THEN "none" ELSE "Failed"
          BY <1>0, <5>1 DEF UpdateStatus
        <5>. QED BY <5>2
      <4>2. \A x \in run[p].batch : x # o /\ rows'[x].status = "InFlight" => x \in r.left
        BY <1>0, <1>5, <2>1, <2>2, <3>2 DEF Landing, Following
      <4>3. r.left # {} => r.at \in {"settle", "recover"}
        BY <1>0, <1>5, <2>1, <3>2 DEF Following
      <4>. QED BY <2>3, <4>1, <4>2, <4>3 DEF Landing
    <3>. QED BY <1>5, <3>1, <3>2
  <2>. QED BY <1>3, <2>2, <2>3, <2>4
<1>6. CASE ReadPending(p) \/ ReadFailed(p)
  <2>1. UNCHANGED rows /\ run[p].at \in {"pending", "failed"}
    BY Zenon, <1>6 DEF ReadPending, ReadFailed, At
  <2>2. \A o \in run[p].batch : rows[o].status # "InFlight"
    BY <1>0, <2>1 DEF Landing
  <2>3. CASE Step(p, IdleRun)
    BY <1>2, <2>1, <2>2, <2>3
  <2>4. CASE ~Step(p, IdleRun)
    <3>1. PICK l, t : Step(p, [run[p] EXCEPT !.at = l, !.todo = t])
      BY ZenonT(30), <1>6, <2>4 DEF ReadPending, ReadFailed, Finish
    <3>. DEFINE r == [run[p] EXCEPT !.at = l, !.todo = t]
    <3>2. r # IdleRun /\ r.batch = run[p].batch
      BY <1>0 DEF Running, IdleRun
    <3>3. Step(p, r)
      BY <3>1
    <3>. HIDE DEF r
    <3>4. Landing(r, rows')
      BY <2>1, <2>2, <3>2 DEF Landing
    <3>. QED BY <1>4, <2>1, <2>2, <3>2, <3>3, <3>4
  <2>. QED BY <2>3, <2>4
<1>7. CASE NextBatch(p)
  <2>1. UNCHANGED rows /\ run[p].at = "next"
    BY Zenon, <1>7 DEF NextBatch, At
  <2>2. \A o \in run[p].batch : rows[o].status # "InFlight"
    BY <1>0, <2>1 DEF Landing
  <2>3. CASE Step(p, [run[p] EXCEPT !.at = "pending"])
    <3>. DEFINE r == [run[p] EXCEPT !.at = "pending"]
    <3>1. r # IdleRun /\ r.batch = run[p].batch /\ Step(p, r)
      BY <1>0, <2>3 DEF Running, IdleRun
    <3>. HIDE DEF r
    <3>2. Landing(r, rows')
      BY <2>1, <2>2, <3>1 DEF Landing
    <3>. QED BY <1>4, <2>1, <2>2, <3>1, <3>2
  <2>4. CASE \E b \in (SUBSET run[p].todo) \ {{}} :
               Step(p, [run[p] EXCEPT !.at = "mark", !.todo = @ \ b, !.batch = b, !.left = b])
    <3>1. PICK b \in (SUBSET run[p].todo) \ {{}} :
               Step(p, [run[p] EXCEPT !.at = "mark", !.todo = @ \ b, !.batch = b, !.left = b])
      BY Zenon, <2>4
    <3>. DEFINE r == [run[p] EXCEPT !.at = "mark", !.todo = @ \ b, !.batch = b, !.left = b]
    <3>2. r # IdleRun /\ r.at = "mark" /\ Step(p, r)
      BY <1>0, <3>1 DEF Running, IdleRun
    <3>. HIDE DEF r
    <3>3. Landing(r, rows')
      BY <3>2 DEF Landing
    <3>. QED BY <1>4, <2>1, <2>2, <3>2, <3>3
  <2>. QED BY Zenon, <1>7, <2>3, <2>4 DEF NextBatch
<1>8. CASE MarkInFlight(p)
  BY <1>5, <1>8 DEF MarkInFlight, At
<1>9. CASE Send(p)
  <2>1. PICK k, lost : Step(p, [run[p] EXCEPT !.at = "answer", !.ok = k, !.lost = lost]) /\ UNCHANGED rows
    BY Zenon, <1>9 DEF Send, Request
  <2>. DEFINE r == [run[p] EXCEPT !.at = "answer", !.ok = k, !.lost = lost]
  <2>2. r # IdleRun /\ r.at = "answer" /\ r.batch = run[p].batch /\ Step(p, r)
    BY <1>0, <2>1 DEF Running, IdleRun
  <2>. HIDE DEF r
  <2>3. Landing(r, rows')
    BY <2>2 DEF Landing
  <2>. QED BY <1>3, <2>1, <2>2, <2>3
<1>10. CASE Answer(p)
  <2>. DEFINE l == IF run[p].lost THEN "recover" ELSE "settle"
              r == [run[p] EXCEPT !.at = l, !.left = run[p].batch]
  <2>1. /\ r # IdleRun /\ r.at \in {"recover", "settle"} /\ r.batch = run[p].batch /\ r.left = run[p].batch
        /\ Step(p, r) /\ UNCHANGED rows
    BY <1>0, <1>10 DEF Answer, Running, IdleRun
  <2>. HIDE DEF r
  <2>2. Landing(r, rows')
    BY <2>1 DEF Landing
  <2>. QED BY <1>3, <2>1, <2>2
<1>11. CASE Settle(p)
  <2>1. PICK o \in run[p].left :
          IF o \in run[p].ok
          THEN UpdateStatus(o, "Published") /\ Step(p, [run[p] EXCEPT !.at = "remove"])
          ELSE UpdateStatus(o, "Failed") /\ Next1(p, o, "next")
    BY <1>11 DEF Settle
  <2>2. CASE o \in run[p].ok
    <3>. DEFINE r == [run[p] EXCEPT !.at = "remove"]
    <3>1. /\ r # IdleRun /\ r.at = "remove" /\ r.batch = run[p].batch /\ r.left = run[p].left /\ Step(p, r)
          /\ run[p].at = "settle" /\ o \in run[p].batch
      BY <1>0, <1>11, <2>1, <2>2 DEF Settle, At, Running, IdleRun, BatchInv
    <3>. HIDE DEF r
    <3>2. \A x \in Ops : (x # o => rows'[x] = rows[x]) /\ (x = o => rows'[x] = rows[x] \/ rows'[x].status = "Published")
      BY <1>0, <2>1, <2>2, UpdatedRow
    <3>3. Landing(r, rows')
      BY <1>0, <3>1, <3>2 DEF Landing
    <3>. QED BY <1>3, <3>1, <3>2, <3>3
  <2>3. CASE o \notin run[p].ok
    BY <1>5, <1>11, <2>1, <2>3 DEF Settle, At
  <2>. QED BY <2>2, <2>3
<1>12. CASE Remove(p)
  <2>1. PICK o \in run[p].left :
          /\ rows' = [rows EXCEPT ![o] = [status |-> "none", retries |-> 0]]
          /\ Step(p, [run[p] EXCEPT !.left = @ \ {o},
                                    !.at = IF run[p].left = {o} THEN "next" ELSE "settle"])
    BY Zenon, <1>12 DEF Remove
  <2>. DEFINE r == [run[p] EXCEPT !.left = @ \ {o}, !.at = IF run[p].left = {o} THEN "next" ELSE "settle"]
  <2>2. /\ r # IdleRun /\ r.batch = run[p].batch /\ r.left = run[p].left \ {o} /\ Step(p, r)
        /\ r.left # {} => r.at = "settle"
        /\ run[p].at = "remove" /\ o \in run[p].batch /\ o \in Ops
    BY <1>0, <1>12, <2>1 DEF Remove, At, Running, IdleRun, BatchInv
  <2>. HIDE DEF r
  <2>3. rows'[o].status = "none" /\ \A x \in Ops \ {o} : rows'[x] = rows[x]
    BY <1>0, <2>1, <2>2
  <2>4. Landing(r, rows')
    BY <1>0, <2>2, <2>3 DEF Landing
  <2>. QED BY <1>3, <2>2, <2>3, <2>4
<1>13. CASE MarkFailed(p)
  BY <1>5, <1>13 DEF MarkFailed, At
<1>. QED BY <1>6, <1>7, <1>8, <1>9, <1>10, <1>11, <1>12, <1>13 DEF Process

(* A fault of the store in publishBatch leaves the whole batch to be       *)
(* marked as failed; elsewhere it ends the call.                           *)
LEMMA FaultLands ==
  ASSUME Inv, Landed, NEW p \in Invocations, StoreFault(p)
  PROVE  Landed'
<1>0. /\ run \in [Invocations -> {IdleRun} \cup Running] /\ UNCHANGED rows
      /\ \A q \in Invocations : Active(q) => Landing(run[q], rows)
  BY DEF Inv, TypeOK, Landed, StoreFault
<1>1. CASE Step(p, IdleRun)
  <2>1. \A q \in Invocations : Active(q)' => run'[q] = run[q] /\ Active(q)
    BY <1>0, <1>1 DEF Step, Active
  <2>. QED BY <1>0, <2>1 DEF Landed
<1>2. CASE run[p].at \in {"settle", "remove"} /\ Step(p, [run[p] EXCEPT !.at = "recover", !.left = run[p].batch])
  <2>. DEFINE r == [run[p] EXCEPT !.at = "recover", !.left = run[p].batch]
  <2>1. run[p] \in Running
    BY <1>0, <1>2 DEF IdleRun
  <2>2. r.at = "recover" /\ r.left = r.batch /\ Step(p, r)
    BY <1>2, <2>1 DEF Running
  <2>. HIDE DEF r
  <2>3. Landing(r, rows')
    BY <2>2 DEF Landing
  <2>4. run'[p] = r /\ \A q \in Invocations \ {p} : run'[q] = run[q]
    BY <1>0, <2>2 DEF Step
  <2>. QED BY <1>0, <2>3, <2>4 DEF Landed, Active
<1>. QED BY Zenon, <1>1, <1>2 DEF StoreFault, Finish

(* The job's own steps leave the batches alone, and mark nothing as on its *)
(* way; what a job stores is in no batch.                                  *)
LEMMA JobMarks ==
  ASSUME Inv, NEW j \in Jobs, StoreOp(j) \/ StoreOpFails(j) \/ ResetThenAsk(j) \/ Ask(j)
  PROVE  \A o \in Ops : rows'[o].status = "InFlight" => rows[o].status = "InFlight"
<1>0. rows \in [Ops -> Row]
  BY DEF Inv, TypeOK
<1>1. CASE StoreOp(j)
  <2>1. PICK x \in job[j].store : rows' = [rows EXCEPT ![x] = [status |-> "Pending", retries |-> 0]]
    BY Zenon, <1>1 DEF StoreOp
  <2>. QED BY <1>0, <2>1
<1>2. CASE StoreOpFails(j)
  BY Zenon, <1>2 DEF StoreOpFails
<1>3. CASE ResetThenAsk(j)
  <2>1. ResetFailed(DnaSet)
    BY Zenon, <1>3 DEF ResetThenAsk
  <2>. QED BY <2>1 DEF ResetFailed
<1>4. CASE Ask(j)
  BY <1>4 DEF Ask, AskNext, JobEnd
<1>. QED BY <1>1, <1>2, <1>3, <1>4

LEMMA JobRuns ==
  ASSUME Inv, NEW j \in Jobs, StoreOp(j) \/ StoreOpFails(j) \/ ResetThenAsk(j) \/ Ask(j)
  PROVE  \A p \in Invocations :
           \/ run'[p] = run[p]
           \/ run[p] = IdleRun /\ Active(p)' /\ run'[p].batch = {}
<1>0. run \in [Invocations -> {IdleRun} \cup Running]
  BY DEF Inv, TypeOK
<1>1. ASSUME NEW d, Start(d, j)
      PROVE  \A p \in Invocations :
               \/ run'[p] = run[p]
               \/ run[p] = IdleRun /\ Active(p)' /\ run'[p].batch = {}
  <2>. DEFINE r == [at |-> "pending", dna |-> d, owner |-> j, todo |-> {}, batch |-> {}, left |-> {},
                    ok |-> {}, lost |-> FALSE]
  <2>1. PICK p \in Invocations : run[p] = IdleRun /\ run' = [run EXCEPT ![p] = r]
    BY Zenon, <1>1 DEF Start
  <2>2. r # IdleRun /\ r.batch = {}
    BY DEF IdleRun
  <2>. HIDE DEF r
  <2>. QED BY <1>0, <2>1, <2>2 DEF Active
<1>2. CASE Ask(j)
  <2>1. UNCHANGED run \/ Start(Head(job[j].rest), j)
    BY <1>2 DEF Ask, AskNext, JobEnd
  <2>. QED BY <1>1, <2>1
<1>3. CASE StoreOp(j) \/ StoreOpFails(j) \/ ResetThenAsk(j)
  BY Zenon, <1>3 DEF StoreOp, StoreOpFails, ResetThenAsk
<1>. QED BY <1>2, <1>3

LEMMA LandedStep ==
  ASSUME Inv, Landed, [Next]_vars
  PROVE  Landed'
<1>1. ASSUME NEW p \in Invocations, Process(p) PROVE Landed'
  <2>1. /\ \A q \in Invocations \ {p} : run'[q] = run[q]
        /\ Active(p)' => Landing(run'[p], rows')
    BY <1>1, Deals
  <2>2. Active(p)
    BY <1>1, ProcessActive
  <2>3. \A q \in Invocations \ {p} : ~Active(q)
    BY <2>2 DEF Inv, OneAtATime
  <2>. QED BY <2>1, <2>3 DEF Landed, Active
<1>2. ASSUME NEW p \in Invocations, StoreFault(p) PROVE Landed'
  BY <1>2, FaultLands
<1>3. ASSUME NEW j \in Jobs, StoreOp(j) \/ StoreOpFails(j) \/ ResetThenAsk(j) \/ Ask(j) PROVE Landed'
  <2>1. \A o \in Ops : rows'[o].status = "InFlight" => rows[o].status = "InFlight"
    BY <1>3, JobMarks
  <2>2. ASSUME NEW p \in Invocations, Active(p)' PROVE Landing(run'[p], rows')
    <3>1. CASE run'[p] = run[p]
      <4>1. Active(p) /\ Landing(run[p], rows) /\ run[p].batch \subseteq Ops
        BY <2>2, <3>1 DEF Active, Landed, Inv, TypeOK, Running
      <4>. QED BY <2>1, <3>1, <4>1 DEF Landing
    <3>2. CASE run'[p].batch = {}
      BY <3>2 DEF Landing
    <3>. QED BY <1>3, <3>1, <3>2, JobRuns
  <2>. QED BY <2>2 DEF Landed
<1>4. CASE Crash
  BY Zenon, <1>4 DEF Crash, Landed, Active
<1>5. CASE UNCHANGED vars
  BY <1>5 DEF vars, Landed, Active
<1>. QED BY <1>1, <1>2, <1>3, <1>4, <1>5 DEF Next

LEMMA Landings == Spec => []Landed
<1>1. Init => Landed
  BY DEF Init, Landed, Active
<1>2. Inv /\ Landed /\ [Next]_vars => Landed'
  BY LandedStep
<1>. QED BY <1>1, <1>2, Invariance, PTL DEF Spec

(* Without a crash or a fault of the store, no step leaves an op marked as *)
(* on its way that no invocation has.                                      *)
LEMMA NoneStranded ==
  ASSUME Inv, Landed, Next, NEW o \in Ops, ~Stranded(o), Stranded(o)'
  PROVE  bounds' # bounds
<1>0. /\ crashes \in Nat /\ faults \in Nat
      /\ rows'[o].status = "InFlight"
      /\ \A p \in Invocations : Active(p)' => o \notin run'[p].batch
  BY DEF Inv, TypeOK, Stranded, Active
<1>1. ASSUME NEW p \in Invocations, Process(p) PROVE FALSE
  <2>1. rows[o].status = "InFlight" /\ o \notin run[p].batch
    BY <1>0, <1>1, Deals
  <2>2. Active(p) /\ \A q \in Invocations : Active(q) => q = p
    BY <1>1, ProcessActive DEF Inv, OneAtATime
  <2>. QED BY <2>1, <2>2 DEF Stranded, Active
<1>2. ASSUME NEW p \in Invocations, StoreFault(p) PROVE bounds' # bounds
  <2>1. faults' = faults + 1
    BY <1>2 DEF StoreFault
  <2>. QED BY <1>0, <2>1 DEF bounds
<1>3. ASSUME NEW j \in Jobs, StoreOp(j) \/ StoreOpFails(j) \/ ResetThenAsk(j) \/ Ask(j) PROVE FALSE
  <2>1. rows[o].status = "InFlight"
    BY <1>0, <1>3, JobMarks
  <2>2. \A p \in Invocations : Active(p) => run'[p] = run[p]
    BY <1>3, JobRuns DEF Active
  <2>. QED BY <1>0, <2>1, <2>2 DEF Stranded, Active
<1>4. CASE Crash
  <2>1. crashes' = crashes + 1
    BY Zenon, <1>4 DEF Crash
  <2>. QED BY <1>0, <2>1 DEF bounds
<1>. QED BY <1>1, <1>2, <1>3, <1>4 DEF Next

(* The only step that takes an op out of the states that are shown or      *)
(* retried is the record of its success, after the linker stored it in a   *)
(* request of which a peer got something; and only a crash or a fault of   *)
(* the store leaves one InFlight for good.                                 *)
THEOREM NothingForgotten == Spec => KeptUntilAccepted
<1>1. ASSUME Inv, Next, NEW o \in Ops, rows[o].status \in Unpublished, rows'[o].status \notin Unpublished
      PROVE  o \in accepted
  <2>0. TypeOK /\ rows \in [Ops -> Row]
    BY <1>1 DEF Inv, TypeOK
  <2>1. \A x, s : UpdateStatus(x, s) /\ rows'[o] # rows[o] => x = o /\ rows'[o].status = s
    BY <2>0 DEF UpdateStatus
  <2>2. rows'[o] # rows[o]
    BY <1>1
  <2>3. ASSUME NEW p \in Invocations, Process(p) \/ StoreFault(p) PROVE o \in accepted
    <3>1. CASE MarkInFlight(p) \/ MarkFailed(p)
      BY <1>1, <2>1, <2>2, <3>1 DEF MarkInFlight, MarkFailed, Unpublished
    <3>2. CASE Settle(p)
      <4>1. Active(p) /\ BatchInv(run[p])
        BY <1>1, <2>0, <3>2, ActiveRunning DEF Inv, Settle, At, Places
      <4>. QED BY <1>1, <2>1, <2>2, <3>2, <4>1 DEF Settle, BatchInv, Unpublished
    <3>3. CASE Remove(p)
      BY <1>1, <2>0, <2>2, <3>3 DEF Remove, Unpublished
    <3>. QED BY <2>2, <2>3, <3>1, <3>2, <3>3
             DEF Process, ReadPending, ReadFailed, NextBatch, Send, Request, Answer, StoreFault
  <2>4. ASSUME NEW j \in Jobs, StoreOp(j) PROVE o \in accepted
    BY <1>1, <2>0, <2>2, <2>4 DEF StoreOp, Unpublished
  <2>5. ASSUME NEW j \in Jobs, ResetThenAsk(j) PROVE o \in accepted
    BY <1>1, <2>2, <2>5 DEF ResetThenAsk, ResetFailed, Unpublished
  <2>6. ASSUME NEW j \in Jobs, StoreOpFails(j) \/ Ask(j) PROVE o \in accepted
    BY <2>2, <2>6 DEF StoreOpFails, Ask, AskNext, JobEnd
  <2>7. CASE Crash
    BY <2>2, <2>7 DEF Crash
  <2>. QED BY <1>1, <2>3, <2>4, <2>5, <2>6, <2>7 DEF Next
<1>2. Inv /\ Landed /\ [Next]_vars
        => [\A o \in Ops :
              /\ rows[o].status \in Unpublished /\ rows'[o].status \notin Unpublished => o \in accepted
              /\ ~Stranded(o) /\ Stranded(o)' => bounds' # bounds]_vars
  BY <1>1, NoneStranded
<1>. QED BY <1>2, Invariance, Landings, PTL DEF Spec, KeptUntilAccepted
=============================================================================
