---------------------------- MODULE SourceChain ----------------------------
(***************************************************************************)
(* The ribosome worker's source chain: one SQLite database, one open       *)
(* transaction at most, and the worker messages that read and write it.    *)
(*                                                                         *)
(* CALL_ZOME messages are serialised by a promise chain; RUN_GENESIS,      *)
(* RECOVER_CHAIN and GET_ALL_RECORDS bypass it and run at the await points *)
(* of the call in progress.  A worker may be killed at any moment.         *)
(*                                                                         *)
(* One action per stretch of handler code between two awaits.  An action   *)
(* record of the chain is abstracted to who signed it, its position in the *)
(* chain and its predecessor; its hash is the pair <<by, nth>>, the nth    *)
(* action that task signed.                                                *)
(***************************************************************************)
EXTENDS Naturals, Sequences, FiniteSets

CONSTANTS
  Cells,          \* cell ids (dna hash, agent key)
  Calls,          \* CALL_ZOME messages
  Geneses,        \* RUN_GENESIS messages (each carries a membrane proof)
  CellOf,         \* [Calls \cup Geneses -> Cells]
  RecoverCells,   \* cells a RECOVER_CHAIN message names
  RepublishCells, \* cells a GET_ALL_RECORDS message names
  Past,           \* the signer of a chain that only the DHT still holds
  NoHash, NoHead, NoCall,
  MaxWrites,      \* bound: host-function writes of one call
  MaxPosts,       \* bound: those of one post_commit
  MaxPast,        \* bound: top sequence number of the chain held by the DHT
  MaxCrashes      \* bound: worker restarts

Tasks == Calls \cup Geneses
MemproofCells == {CellOf[g] : g \in Geneses}

(* The cells that only CALL_ZOME messages touch.                           *)
PlainCells == Cells \ (MemproofCells \cup RecoverCells \cup RepublishCells)

ASSUME TasksAssumption ==
  /\ Calls \cap Geneses = {}
  /\ CellOf \in [Tasks -> Cells]
  /\ Past \notin Tasks
  /\ NoCall \notin Tasks
ASSUME CellsAssumption == RecoverCells \subseteq Cells /\ RepublishCells \subseteq Cells
ASSUME NullAssumption ==
  /\ NoHash \notin ((Tasks \cup {Past}) \X Nat)
  /\ NoHead \notin [seq : Nat, hash : (Tasks \cup {Past}) \X Nat]
ASSUME BoundsAssumption ==
  MaxWrites \in Nat /\ MaxPosts \in Nat /\ MaxPast \in Nat /\ MaxCrashes \in Nat

VARIABLES
  db,       \* what the worker's SQL connection reads: rows and chain head of each cell
  saved,    \* the last committed content, while a transaction is open
  inTx,     \* DirectSQLiteStorage.inTransaction
  pc,       \* where each message's handler is
  signed,   \* how many actions each message's handler has signed
  gen,      \* pendingRecords of initializeGenesis
  pend,     \* context.pendingRecords at the commit
  waiting,  \* zomeCallChain: the calls not yet started
  running,  \* the call in progress
  handed,   \* records the worker has handed out for publishing
  crashes

vars == <<db, saved, inTx, pc, signed, gen, pend, waiting, running, handed, crashes>>
storage == <<db, saved, inTx>>
control == <<waiting, running, crashes>>

Hashes == (Tasks \cup {Past}) \X Nat
Action == [by : Tasks \cup {Past}, nth : Nat, seq : Nat, prev : Hashes \cup {NoHash}]
ChainHead == [seq : Nat, hash : Hashes]
Content == [rows : SUBSET Action, head : ChainHead \cup {NoHead}]

HashOf(a) == <<a.by, a.nth>>

(* What survives a crash of the worker: an open transaction does not.      *)
disk == IF inTx THEN saved ELSE db

(***************************************************************************)
(* Storage                                                                 *)
(***************************************************************************)
(* The definitions marked "bug:" are wrong variants of the one that follows*)
(* them; the specification does not use them.                              *)
(* bug: a plain INSERT *)
PlainInsert(rows, a) == rows \cup {a}

(* INSERT OR REPLACE: the primary key is the hash, (cell, seq) is unique.  *)
PutAction(rows, a) ==
  {r \in rows : r.seq # a.seq /\ HashOf(r) # HashOf(a)} \cup {a}

Store(c, rows, head) == db' = [db EXCEPT ![c] = [rows |-> rows, head |-> head]]

HeadAt(a) == [seq |-> a.seq, hash |-> HashOf(a)]

(* The action a write host function builds on the chain head.              *)
NextAction(t, head) ==
  [by |-> t, nth |-> signed[t],
   seq |-> IF head = NoHead THEN 3 ELSE head.seq + 1,
   prev |-> IF head = NoHead THEN NoHash ELSE head.hash]

(* bug: the flag is reset, the statement forgotten *)
RollbackFlagOnly ==
  /\ inTx' = FALSE
  /\ UNCHANGED <<db, saved>>

Rollback ==
  /\ db' = disk
  /\ inTx' = FALSE
  /\ UNCHANGED saved

(***************************************************************************)
(* Scheduling.  WebAssembly runs to completion and a host function blocks  *)
(* the worker thread, so nothing else runs while a task is in one of these.*)
(***************************************************************************)
Sync == {"exec", "postexec", "posthead"}
Turn(t) == \A u \in Tasks \ {t} : pc[u] \notin Sync
Idle == \A u \in Tasks : pc[u] \notin Sync

Goto(t, l) == pc' = [pc EXCEPT ![t] = l]

(* bug: a failed call does not let the promise chain go on *)
FinishOkOnly(t, l) ==
  /\ Goto(t, l)
  /\ running' = IF t = running /\ l = "done" THEN NoCall ELSE running
  /\ UNCHANGED <<waiting, crashes>>

(* The end of a handler; the end of a call lets the promise chain go on.   *)
Finish(t, l) ==
  /\ Goto(t, l)
  /\ running' = IF t = running THEN NoCall ELSE running
  /\ UNCHANGED <<waiting, crashes>>

Init ==
  /\ db = [c \in Cells |-> [rows |-> {}, head |-> NoHead]]
  /\ saved = db
  /\ inTx = FALSE
  /\ pc = [t \in Tasks |-> "new"]
  /\ signed = [t \in Tasks |-> 0]
  /\ gen = [t \in Tasks |-> <<>>]
  /\ pend = [t \in Tasks |-> {}]
  /\ waiting = <<>>
  /\ running = NoCall
  /\ handed = [c \in Cells |-> {}]
  /\ crashes = 0

(***************************************************************************)
(* Arrival of messages                                                     *)
(***************************************************************************)
Enqueue(t) ==
  /\ Idle
  /\ pc[t] = "new"
  /\ Goto(t, "queued")
  /\ waiting' = Append(waiting, t)
  /\ UNCHANGED <<storage, signed, gen, pend, running, handed, crashes>>

(* bug: calls are not chained *)
StartCallUnchained(t) ==
  /\ Idle
  /\ waiting # <<>>
  /\ t = Head(waiting) /\ pc[t] = "queued"
  /\ waiting' = Tail(waiting)
  /\ Goto(t, "headcheck")
  /\ running' = t
  /\ UNCHANGED <<storage, signed, gen, pend, handed, crashes>>

(* handleCallZome: fails at once when no WASM is known for the DNA.        *)
StartCall(t) ==
  /\ Idle
  /\ waiting # <<>>
  /\ t = Head(waiting) /\ pc[t] = "queued"
  /\ running = NoCall
  /\ waiting' = Tail(waiting)
  /\ \/ Goto(t, "headcheck") /\ running' = t
     \/ Goto(t, "failed") /\ UNCHANGED running
  /\ UNCHANGED <<storage, signed, gen, pend, handed, crashes>>

(* RUN_GENESIS: no WASM, or genesis_self_check refuses the proof.          *)
StartGenesis(t) ==
  /\ Idle
  /\ pc[t] = "new"
  /\ \E l \in {"headcheck", "failed"} : Goto(t, l)
  /\ UNCHANGED <<storage, signed, gen, pend, control, handed>>

(***************************************************************************)
(* initializeGenesis, run by calls and by RUN_GENESIS alike                *)
(***************************************************************************)
AfterGenesis(t) == IF t \in Calls THEN "begin" ELSE "reply"

(* bug: genesis whatever the chain holds *)
HeadCheckSkipped(t) ==
  /\ Turn(t)
  /\ pc[t] = "headcheck"
  /\ Goto(t, "genesis")
  /\ UNCHANGED <<storage, signed, gen, pend, control, handed>>

HeadCheck(t) ==
  /\ Turn(t)
  /\ pc[t] = "headcheck"
  /\ Goto(t, IF db[CellOf[t]].head = NoHead THEN "genesis" ELSE AfterGenesis(t))
  /\ UNCHANGED <<storage, signed, gen, pend, control, handed>>

(* The Dna, AgentValidationPkg, Create and InitZomesComplete actions, each *)
(* signed and stored before the next.                                      *)
GenesisAction(t) ==
  [by |-> t, nth |-> signed[t], seq |-> Len(gen[t]),
   prev |-> IF gen[t] = <<>> THEN NoHash ELSE HashOf(gen[t][Len(gen[t])])]

GenesisPut(t) ==
  LET c == CellOf[t]
      a == GenesisAction(t)
  IN /\ Turn(t)
     /\ pc[t] = "genesis"
     /\ Len(gen[t]) < 4
     /\ Store(c, PutAction(db[c].rows, a), db[c].head)
     /\ gen' = [gen EXCEPT ![t] = Append(@, a)]
     /\ signed' = [signed EXCEPT ![t] = @ + 1]
     /\ UNCHANGED <<saved, inTx, pc, pend, control, handed>>

GenesisHead(t) ==
  /\ Turn(t)
  /\ pc[t] = "genesis"
  /\ Len(gen[t]) = 4
  /\ Store(CellOf[t], db[CellOf[t]].rows, HeadAt(gen[t][4]))
  /\ Goto(t, AfterGenesis(t))
  /\ UNCHANGED <<saved, inTx, signed, gen, pend, control, handed>>

(* Signing or storing one of them throws: what was stored stays.           *)
GenesisFail(t) ==
  /\ Turn(t)
  /\ pc[t] = "genesis"
  /\ Finish(t, "failed")
  /\ UNCHANGED <<storage, signed, gen, pend, handed>>

(***************************************************************************)
(* callZome from BEGIN to the answer                                       *)
(***************************************************************************)
(* BEGIN inside a transaction throws, outside of callZome's try.           *)
Begin(t) ==
  /\ Turn(t)
  /\ pc[t] = "begin"
  /\ \/ /\ ~inTx
        /\ inTx' = TRUE
        /\ saved' = db
        /\ Goto(t, "load")
        /\ UNCHANGED <<db, control>>
     \/ /\ inTx
        /\ Finish(t, "failed")
        /\ UNCHANGED storage
  /\ UNCHANGED <<signed, gen, pend, handed>>

(* The module is compiled and instantiated; the zome function is entered.  *)
Load(t) ==
  /\ Turn(t)
  /\ pc[t] = "load"
  /\ Goto(t, "exec")
  /\ UNCHANGED <<storage, signed, gen, pend, control, handed>>

(* create, update, delete, create_link, delete_link.                       *)
HostWrite(t) ==
  LET c == CellOf[t]
      a == NextAction(t, db[c].head)
  IN /\ Turn(t)
     /\ pc[t] = "exec"
     /\ Cardinality(pend[t]) < MaxWrites
     /\ Store(c, PutAction(db[c].rows, a), HeadAt(a))
     /\ pend' = [pend EXCEPT ![t] = @ \cup {a}]
     /\ signed' = [signed EXCEPT ![t] = @ + 1]
     /\ UNCHANGED <<saved, inTx, pc, gen, control, handed>>

(* The zome function returned Ok; inline validation is awaited.            *)
ExecReturn(t) ==
  /\ Turn(t)
  /\ pc[t] = "exec"
  /\ Goto(t, "validate")
  /\ UNCHANGED <<storage, signed, gen, pend, control, handed>>

(* No module, a trap, an Err result, a failed signature, failed inline     *)
(* validation or a failed COMMIT.                                          *)
Abort(t) ==
  /\ Turn(t)
  /\ pc[t] \in {"load", "exec", "validate"}
  /\ Rollback
  /\ Finish(t, "failed")
  /\ UNCHANGED <<signed, gen, pend, handed>>

Commit(t) ==
  /\ Turn(t)
  /\ pc[t] = "validate"
  /\ inTx' = FALSE
  /\ Goto(t, "post")
  /\ UNCHANGED <<db, saved, signed, gen, pend, control, handed>>

(* post_commit is entered only when there are records; its host functions  *)
(* are those of the call, now without a transaction.                       *)
PostCommit(t) ==
  /\ Turn(t)
  /\ pc[t] = "post"
  /\ gen[t] # <<>> \/ pend[t] # {}
  /\ Goto(t, "postexec")
  /\ UNCHANGED <<storage, signed, gen, pend, control, handed>>

PostPut(t) ==
  LET c == CellOf[t]
      a == NextAction(t, db[c].head)
  IN /\ Turn(t)
     /\ pc[t] = "postexec"
     /\ signed[t] < Len(gen[t]) + Cardinality(pend[t]) + MaxPosts
     /\ Store(c, PutAction(db[c].rows, a), db[c].head)
     /\ signed' = [signed EXCEPT ![t] = @ + 1]
     /\ Goto(t, "posthead")
     /\ UNCHANGED <<saved, inTx, gen, pend, control, handed>>

PostHead(t) ==
  LET c == CellOf[t]
      a == NextAction(t, db[c].head)
  IN /\ Turn(t)
     /\ pc[t] = "posthead"
     /\ Store(c, db[c].rows, [seq |-> a.seq, hash |-> <<t, signed[t] - 1>>])
     /\ Goto(t, "postexec")
     /\ UNCHANGED <<saved, inTx, signed, gen, pend, control, handed>>

GenRecords(t) == {gen[t][i] : i \in 1..Len(gen[t])}

(* bug: the answer does not wait for the commit *)
AnswerEarly(t) ==
  /\ Turn(t)
  /\ pc[t] \in {"validate", "post", "postexec"}
  /\ handed' = [handed EXCEPT ![CellOf[t]] = @ \cup GenRecords(t) \cup pend[t]]
  /\ Finish(t, "done")
  /\ UNCHANGED <<storage, signed, gen, pend>>

(* The answer carries the genesis records and the call's own, unless they  *)
(* cannot be converted for publishing (logged, the call still succeeds).   *)
AnswerCall(t) ==
  /\ Turn(t)
  /\ pc[t] \in {"post", "postexec"}
  /\ \/ handed' = [handed EXCEPT ![CellOf[t]] = @ \cup GenRecords(t) \cup pend[t]]
     \/ UNCHANGED handed
  /\ Finish(t, "done")
  /\ UNCHANGED <<storage, signed, gen, pend>>

(* RUN_GENESIS answers valid, whether or not it wrote the chain.           *)
AnswerGenesis(t) ==
  /\ Turn(t)
  /\ pc[t] = "reply"
  /\ handed' = [handed EXCEPT ![CellOf[t]] = @ \cup GenRecords(t)]
  /\ Finish(t, "done")
  /\ UNCHANGED <<storage, signed, gen, pend>>

(***************************************************************************)
(* Messages that are handled in one go                                     *)
(***************************************************************************)
PastAction(n) ==
  [by |-> Past, nth |-> n, seq |-> n, prev |-> IF n = 0 THEN NoHash ELSE <<Past, n - 1>>]

(* RECOVER_CHAIN: the records the DHT returned, any of which may be        *)
(* missing, each stored with the head moved to it.                         *)
Recover(c) ==
  /\ Idle
  /\ \E S \in SUBSET (0..MaxPast) : \E top \in S :
       /\ \A n \in S : n <= top
       /\ Store(c, {r \in db[c].rows : r.seq \notin S} \cup {PastAction(n) : n \in S},
                HeadAt(PastAction(top)))
  /\ UNCHANGED <<saved, inTx, pc, signed, gen, pend, control, handed>>

(* GET_ALL_RECORDS: every row the connection reads, for republishing.      *)
Republish(c) ==
  /\ Idle
  /\ handed' = [handed EXCEPT ![c] = @ \cup db[c].rows]
  /\ UNCHANGED <<storage, pc, signed, gen, pend, control>>

(* The worker is terminated; a new one opens the database.                 *)
Ended == {"done", "failed", "lost"}

Crash ==
  /\ crashes < MaxCrashes
  /\ crashes' = crashes + 1
  /\ Rollback
  /\ pc' = [t \in Tasks |-> IF pc[t] \in Ended \cup {"new"} THEN pc[t] ELSE "lost"]
  /\ waiting' = <<>>
  /\ running' = NoCall
  /\ UNCHANGED <<signed, gen, pend, handed>>

(***************************************************************************)
(* The specification                                                       *)
(***************************************************************************)
GenesisStep(t) ==
  HeadCheck(t) \/ GenesisPut(t) \/ GenesisHead(t) \/ GenesisFail(t)

CallStep(t) ==
  \/ StartCall(t) \/ GenesisStep(t) \/ Begin(t) \/ Load(t) \/ HostWrite(t)
  \/ ExecReturn(t) \/ Abort(t) \/ Commit(t)
  \/ PostCommit(t) \/ PostPut(t) \/ PostHead(t) \/ AnswerCall(t)

GenesisRun(t) == StartGenesis(t) \/ GenesisStep(t) \/ AnswerGenesis(t)

Next ==
  \/ \E t \in Calls : Enqueue(t) \/ CallStep(t)
  \/ \E t \in Geneses : GenesisRun(t)
  \/ \E c \in RecoverCells : Recover(c)
  \/ \E c \in RepublishCells : Republish(c)
  \/ Crash

Spec == Init /\ [][Next]_vars

(* The worker's event loop goes on with a handler that can go on, and zome *)
(* functions return; nothing makes a message arrive or a worker crash.     *)
Fairness ==
  /\ \A t \in Calls : WF_vars(CallStep(t))
  /\ \A g \in Geneses : WF_vars(GenesisStep(g) \/ AnswerGenesis(g))

FairSpec == Spec /\ Fairness

(***************************************************************************)
(* Properties                                                              *)
(***************************************************************************)
GenesisLabels == {"new", "headcheck", "genesis", "reply"} \cup Ended

CallLabels ==
  {"new", "queued", "headcheck", "genesis", "begin", "load", "exec", "validate",
   "post", "postexec", "posthead"} \cup Ended

LabelsOf(t) == IF t \in Calls THEN CallLabels ELSE GenesisLabels

PcTypeOK ==
  /\ pc \in [Tasks -> CallLabels \cup GenesisLabels]
  /\ \A t \in Tasks : pc[t] \in LabelsOf(t)

(* The variables have the values the worker can hold, and a RUN_GENESIS    *)
(* handler never enters callZome, nor a call the other's answer.           *)
TypeOK ==
  /\ db \in [Cells -> Content]
  /\ saved \in [Cells -> Content]
  /\ inTx \in BOOLEAN
  /\ PcTypeOK
  /\ signed \in [Tasks -> Nat]
  /\ gen \in [Tasks -> Seq(Action)]
  /\ pend \in [Tasks -> SUBSET Action]
  /\ waiting \in Seq(Calls)
  /\ running \in Calls \cup {NoCall}
  /\ handed \in [Cells -> SUBSET Action]
  /\ crashes \in Nat

(* A founded chain is one unforked, gapless, hash-linked sequence ending   *)
(* at the chain head; a crash inside a post_commit write may leave one row *)
(* beyond the head, which the next write replaces.  Without a head there   *)
(* is at most what an unfinished genesis left, which the next one replaces.*)
Linked(rows, head) ==
  /\ \E r \in rows : HeadAt(r) = head
  /\ \A n \in 0..head.seq : \E r \in rows : r.seq = n
  /\ \A r \in rows : r.seq <= head.seq + 1
  /\ \A r \in rows : r.seq = 0 => r.prev = NoHash
  /\ \A r \in rows : r.seq > 0 =>
       \E s \in rows : s.seq + 1 = r.seq /\ HashOf(s) = r.prev

Sound(x) ==
  /\ \A r, s \in x.rows : r.seq = s.seq => r = s
  /\ x.head = NoHead => \A r \in x.rows : r.seq <= 3
  /\ x.head # NoHead => Linked(x.rows, x.head)

(* Whatever calls, failures, crashes and other messages do, the chain of a *)
(* cell that only zome calls write is well formed, both as the connection  *)
(* reads it and as a crash would leave it (ribosome/index.ts, genesis.ts). *)
ChainWellFormed == \A c \in PlainCells : Sound(db[c]) /\ Sound(disk[c])

(* The records of a chain up to its head.                                  *)
Chain(x) == IF x.head = NoHead THEN {} ELSE {r \in x.rows : r.seq <= x.head.seq}

(* "all chain updates succeed atomically" (ribosome/index.ts:339): of what *)
(* a zome function wrote, everything or nothing is durable: everything once*)
(* the call is past its commit, nothing when it failed, and one of the two *)
(* when the worker was killed in it.                                       *)
CallAtomic ==
  \A t \in Calls : CellOf[t] \in PlainCells =>
    LET durable == pend[t] \cap Chain(disk[CellOf[t]])
    IN /\ durable \in {{}, pend[t]}
       /\ pc[t] = "failed" => durable = {}
       /\ pc[t] \in {"post", "postexec", "posthead", "done"} => durable = pend[t]

(* "Without this, two concurrent CALL_ZOME messages can both reach         *)
(* beginTransaction()" (ribosome-worker.ts:1438): no call ever reaches     *)
(* BEGIN while a transaction is open.                                      *)
SerialTransactions == \A t \in Calls : pc[t] = "begin" => ~inTx

(* "Track record for publishing after transaction commits" (create.ts:103):*)
(* every record handed out for publishing is on the durable chain of its   *)
(* cell, for good, so that the DHT never holds a record the chain lost.    *)
HandedOnChain == \A c \in PlainCells : handed[c] \subseteq Chain(disk[c])

(* The durable chain as the abstract log of module ChainLog.               *)
LogOf(x) ==
  IF x.head = NoHead THEN <<>>
  ELSE [i \in 1..(x.head.seq + 1) |-> CHOOSE r \in x.rows : r.seq = i - 1]

Log == INSTANCE ChainLog WITH
  Cells <- PlainCells, Records <- Action,
  log <- [c \in PlainCells |-> LogOf(disk[c])],
  published <- [c \in PlainCells |-> handed[c]]

(* The worker implements an append-only log per cell: a chain appears      *)
(* whole with its genesis, grows by whole calls at its end, and only its   *)
(* records are published.                                                  *)
ImplementsLog == Log!Spec

(* "Errors are isolated per-call (the chain always continues)"             *)
(* (ribosome-worker.ts:1681): every queued call ends, after whatever       *)
(* earlier calls failed.                                                   *)
CallsEnd == \A t \in Calls : pc[t] = "queued" ~> pc[t] \in Ended

(* "triggering genesis with the provided proofs" (background/index.ts:1183)*)
(* a RUN_GENESIS that answered valid has founded its cell's chain with its *)
(* membrane proof, which is in the AgentValidationPkg at seq 1.            *)
GenesisHonest ==
  \A g \in Geneses : pc[g] = "done" =>
    \E r \in Chain(db[CellOf[g]]) : r.seq = 1 /\ r.by = g

(* "all DhtOps from local chain records" (background/index.ts:2098): once  *)
(* no transaction is open, what GET_ALL_RECORDS handed out of a zome call's*)
(* writes is still stored.                                                 *)
RepublishedStored ==
  ~inTx => \A t \in Calls : CellOf[t] \in RepublishCells =>
             pend[t] \cap handed[CellOf[t]] \subseteq db[CellOf[t]].rows

(***************************************************************************)
(* The inductive invariant behind ChainWellFormed, HandedOnChain and       *)
(* SerialTransactions                                                      *)
(***************************************************************************)
TxLabels == {"load", "exec", "validate"}
FoundedLabels == {"begin", "post", "postexec", "posthead"} \cup TxLabels
ActiveLabels == {"headcheck", "genesis"} \cup FoundedLabels

(* The call in progress is the only one, and the one with a transaction.   *)
Serial ==
  /\ \A t \in Calls : pc[t] \in ActiveLabels => running = t
  /\ inTx => running # NoCall /\ pc[running] \in TxLabels
  /\ \A t \in Calls : pc[t] \in TxLabels => inTx

(* No stored action carries the hash a task is about to sign.              *)
Fresh(rows) == \A a \in rows : a.by \in Tasks => a.nth < signed[a.by]
HashesFresh == \A c \in Cells : Fresh(db[c].rows) /\ Fresh(saved[c].rows)

(* A post_commit write sets the head for a row it signed.                  *)
PostSigned == \A t \in Calls : pc[t] = "posthead" => signed[t] > 0

CellInv(c) ==
  /\ Sound(db[c])
  /\ Sound(saved[c])
  /\ inTx => Chain(saved[c]) \subseteq Chain(db[c])
  /\ handed[c] \subseteq Chain(disk[c])

(* What initializeGenesis has stored of the records it collected.          *)
GenesisStored(t) ==
  /\ Len(gen[t]) <= 4
  /\ \A i \in 1..Len(gen[t]) :
       /\ gen[t][i] \in db[CellOf[t]].rows
       /\ gen[t][i].seq = i - 1
       /\ gen[t][i].prev = IF i = 1 THEN NoHash ELSE HashOf(gen[t][i - 1])

(* A post_commit write between its row and its head.                       *)
Dangling(t) ==
  \E a \in db[CellOf[t]].rows :
    /\ a.by = t /\ a.nth + 1 = signed[t]
    /\ a.seq = db[CellOf[t]].head.seq + 1

CallInv(t) ==
  /\ pc[t] \in {"new", "queued", "headcheck"} => gen[t] = <<>>
  /\ pc[t] \in {"new", "queued", "headcheck", "genesis"} => pend[t] = {}
  /\ pc[t] = "genesis" => db[CellOf[t]].head = NoHead /\ GenesisStored(t)
  /\ pc[t] \in FoundedLabels => db[CellOf[t]].head # NoHead
  /\ pc[t] \in FoundedLabels => GenRecords(t) \cup pend[t] \subseteq Chain(db[CellOf[t]])
  /\ pc[t] = "posthead" => Dangling(t)

PlainCalls == {t \in Calls : CellOf[t] \in PlainCells}

Inv ==
  /\ TypeOK
  /\ Serial
  /\ HashesFresh
  /\ PostSigned
  /\ \A c \in PlainCells : CellInv(c)
  /\ \A t \in PlainCalls : CallInv(t)

(***************************************************************************)
(* What CallAtomic and ImplementsLog need besides                          *)
(***************************************************************************)
(* What the call wrote is stored nowhere; it is on the durable chain.      *)
Gone(t) == pend[t] \cap (db[CellOf[t]].rows \cup disk[CellOf[t]].rows) = {}
Kept(t) == pend[t] \subseteq Chain(disk[CellOf[t]])

Outcome(t) ==
  /\ \A a \in pend[t] : a.by = t
  /\ pc[t] \in {"new", "queued", "headcheck", "genesis", "begin"} => pend[t] = {}
  /\ pc[t] \in TxLabels => pend[t] \cap disk[CellOf[t]].rows = {}
  /\ pc[t] = "failed" => Gone(t)
  /\ pc[t] \in {"post", "postexec", "posthead", "done"} => Kept(t)
  /\ pc[t] = "lost" => Gone(t) \/ Kept(t)

(* A transaction changes the cell of its call only, and a founded one.     *)
TxLocal ==
  inTx => \A c \in PlainCells :
            IF c = CellOf[running] THEN saved[c].head # NoHead ELSE saved[c] = db[c]

LogInv == TxLocal /\ \A t \in PlainCalls : Outcome(t)
=============================================================================
