------------------------------ MODULE KeyVault ------------------------------
(***************************************************************************)
(* The Lair keystore of the background: LairLock (the lock record and the  *)
(* master key), EncryptedKeyStorage (seeds at rest) and the handlers that  *)
(* interleave at their awaits.  A master key is a number, one for each     *)
(* salt; cryptography is abstract: what one key encrypted only that key    *)
(* opens.  HappContextManager keeps a LairClient of its own on the plain   *)
(* storage, so it writes and deletes whatever the lock says.               *)
(***************************************************************************)
EXTENDS Naturals, FiniteSets

CONSTANTS
  Procs,        \* handlers that may run at once
  Tags,         \* tags of seeds
  MaxKeys,      \* bound: passphrases ever set
  MaxAttempts,  \* wrong passphrases before unlock refuses (5 in the code)
  Scenarios,    \* the settings Init chooses from
  NoTag

AllOps == {"change", "unlock", "guess", "lock", "new", "import", "derive", "export", "sign",
           "delete", "agentkey", "uninstall"}

(* May handlers overlap, the operations that are requested; and the bounds *)
(* on passphrases, LAIR_* requests, restarts of the service worker.        *)
Scenario == [overlap : BOOLEAN, ops : SUBSET AllOps, keys : 0..MaxKeys, requests : Nat, restarts : Nat]

ASSUME TagsAssumption == NoTag \notin Tags
ASSUME BoundsAssumption == MaxKeys \in Nat /\ MaxAttempts \in Nat \ {0}
ASSUME ScenarioAssumption == Scenarios \subseteq Scenario

NoKey == 0               \* no passphrase, no master key, or a seed stored plain
Wiped == MaxKeys + 1     \* a key buffer that was filled with zeros
NoSeed == [id |-> 0, by |-> NoKey]

VARIABLES
  sc,        \* the scenario
  record,    \* chrome.storage.local: the lock record
  state,     \* LairLock.currentState
  mk,        \* LairLock.masterKey_
  attempts,  \* LairLock.unlockAttempts
  enc,       \* the EncryptedKeyStorage, once getLairClient made it
  seeds,     \* IndexedDB: the seed of each tag and the key it is encrypted with
  proc,      \* the running handlers
  keys, made, requests, restarts,
  misread    \* tags whose ciphertext was taken for the seed

vars == <<sc, record, state, mk, attempts, enc, seeds, proc, keys, made, requests, restarts, misread>>
lockVars == <<record, state, mk, attempts, keys>>
storeVars == <<enc, seeds, made, misread>>
counters == <<requests, restarts>>

Idle == [op |-> "none", pc |-> "idle", tag |-> NoTag, src |-> NoTag, key |-> NoKey, old |-> NoKey, todo |-> {}]
NoStorage == [up |-> FALSE, enabled |-> FALSE, key |-> NoKey]

Init ==
  /\ sc \in Scenarios
  /\ record = [locked |-> FALSE, key |-> NoKey]
  /\ state = record /\ mk = NoKey /\ attempts = 0
  /\ enc = NoStorage
  /\ seeds = [t \in Tags |-> NoSeed]
  /\ proc = [p \in Procs |-> Idle]
  /\ keys = 0 /\ made = 0 /\ requests = 0 /\ restarts = 0
  /\ misread = {}

Stored == {t \in Tags : seeds[t] # NoSeed}
Todo == {[tag |-> t, id |-> seeds[t].id] : t \in Stored}
Unlocked == state.key = NoKey \/ ~state.locked
Encrypts == enc.enabled
Throws == enc.enabled /\ enc.key = NoKey   \* "Storage is locked"

(* getLairClient: the storage is made once and takes the master key of     *)
(* the lock, if there is one.                                              *)
Client == IF enc.up THEN enc ELSE [up |-> TRUE, enabled |-> mk # NoKey, key |-> mk]
WithKey(k) == [up |-> TRUE, enabled |-> TRUE, key |-> k]

At(p, pc) == proc[p].pc = pc
Goto(p, pc) == proc' = [proc EXCEPT ![p].pc = pc]
Done(p) == proc' = [proc EXCEPT ![p] = Idle]

Quiet == \A p \in Procs : proc[p] = Idle

(* A request: handler p starts operation op.                               *)
Asked(p, op) ==
  /\ op \in sc.ops /\ proc[p] = Idle /\ (sc.overlap \/ Quiet)
  /\ requests < sc.requests /\ requests' = requests + 1 /\ UNCHANGED restarts
Request(p, op, r) == Asked(p, op) /\ proc' = [proc EXCEPT ![p] = [r EXCEPT !.op = op]]

(* masterKey_.fill(0): handlers of unlock that hold the buffer see zeros.  *)
Fill(ps) == [p \in Procs |->
  IF ps[p].op = "unlock" /\ ps[p].pc = "apply" /\ ps[p].key # NoKey THEN [ps[p] EXCEPT !.key = Wiped] ELSE ps[p]]

-----------------------------------------------------------------------------
(* LAIR_SET_PASSPHRASE.                                                     *)

(* The user gives the right old passphrase; its key is derived with the    *)
(* salt of now.                                                            *)
StartChange(p) ==
  /\ Request(p, "change", [Idle EXCEPT !.pc = IF state.key = NoKey THEN "commit" ELSE "verify", !.old = state.key])
  /\ keys < sc.keys
  /\ UNCHANGED <<lockVars, storeVars>>

(* ... and its hash compared with the one of the record after the await.   *)
VerifyOld(p) ==
  /\ At(p, "verify")
  /\ IF proc[p].old = state.key THEN Goto(p, "commit") ELSE Done(p)
  /\ UNCHANGED <<lockVars, storeVars, counters>>

(* Mutant: the lock record is not saved.                                    *)
CommitKeyUnsaved(p) ==
  /\ At(p, "commit") /\ keys < sc.keys
  /\ keys' = keys + 1 /\ mk' = keys + 1
  /\ state' = [locked |-> FALSE, key |-> keys + 1]
  /\ proc' = [Fill(proc) EXCEPT ![p].pc = "apply", ![p].key = keys + 1]
  /\ UNCHANGED <<record, attempts, storeVars, counters>>

CommitKey(p) ==
  /\ At(p, "commit") /\ keys < sc.keys
  /\ keys' = keys + 1 /\ mk' = keys + 1
  /\ state' = [locked |-> FALSE, key |-> keys + 1]
  /\ record' = state'
  /\ proc' = [Fill(proc) EXCEPT ![p].pc = "apply", ![p].key = keys + 1]
  /\ UNCHANGED <<attempts, storeVars, counters>>

(* reEncrypt decrypts every seed before it writes the first one; a seed    *)
(* the old key does not open ends the handler.                             *)
ReadAll(p) ==
  /\ At(p, "apply") /\ proc[p].op = "change" /\ proc[p].old # NoKey
  /\ enc' = [Client EXCEPT !.enabled = TRUE]
  /\ IF \A t \in Stored : seeds[t].by \in {NoKey, proc[p].old}
       THEN proc' = [proc EXCEPT ![p].pc = "write", ![p].todo = Todo]
       ELSE Done(p)
  /\ UNCHANGED <<lockVars, seeds, made, misread, counters>>

WriteBack(p) ==
  /\ At(p, "write")
  /\ \E u \in proc[p].todo :
       /\ seeds' = [seeds EXCEPT ![u.tag] = [id |-> u.id, by |-> proc[p].key]]
       /\ proc' = [proc EXCEPT ![p].todo = @ \ {u}]
  /\ UNCHANGED <<lockVars, enc, made, misread, counters>>

(* Mutant: the storage keeps the old key.                                   *)
FinishChangeKeepsKey(p) ==
  /\ proc[p].op = "change" /\ proc[p].pc \in {"write", "migrate"} /\ proc[p].todo = {}
  /\ Done(p)
  /\ UNCHANGED <<lockVars, storeVars, counters>>

FinishChange(p) ==
  /\ proc[p].op = "change" /\ proc[p].pc \in {"write", "migrate"} /\ proc[p].todo = {}
  /\ enc' = WithKey(proc[p].key)
  /\ Done(p)
  /\ UNCHANGED <<lockVars, seeds, made, misread, counters>>

(* The first passphrase: the key is set and plain seeds are encrypted.      *)
FirstKey(p) ==
  /\ At(p, "apply") /\ proc[p].op = "change" /\ proc[p].old = NoKey
  /\ enc' = WithKey(proc[p].key)
  /\ proc' = [proc EXCEPT ![p].pc = "migrate", ![p].todo = Todo]
  /\ UNCHANGED <<lockVars, seeds, made, misread, counters>>

(* migrateToEncrypted reads one entry after the other and encrypts with    *)
(* the storage's key of that moment; without one it throws.                *)
Migrate(p) ==
  /\ At(p, "migrate")
  /\ \E u \in proc[p].todo :
       IF seeds[u.tag] # NoSeed /\ seeds[u.tag].by = NoKey
         THEN IF enc.key = NoKey
                THEN Done(p) /\ UNCHANGED seeds
                ELSE /\ seeds' = [seeds EXCEPT ![u.tag].by = enc.key]
                     /\ proc' = [proc EXCEPT ![p].todo = @ \ {u}]
         ELSE proc' = [proc EXCEPT ![p].todo = @ \ {u}] /\ UNCHANGED seeds
  /\ UNCHANGED <<lockVars, enc, made, misread, counters>>

-----------------------------------------------------------------------------
(* LAIR_UNLOCK and LAIR_LOCK.                                               *)

StartUnlock(p) ==
  /\ Request(p, "unlock", [Idle EXCEPT !.pc = "check", !.old = state.key])
  /\ state.key # NoKey
  /\ \/ attempts < MaxAttempts /\ UNCHANGED attempts
     \/ attempts >= MaxAttempts /\ attempts' = 0   \* 30 s have passed
  /\ UNCHANGED <<record, state, mk, keys, storeVars>>

(* The hash of the current record is compared after the derivation with    *)
(* the salt read before it.                                                *)
RightPassphrase(p) ==
  /\ At(p, "check") /\ proc[p].old = state.key
  /\ mk' = state.key
  /\ state' = [state EXCEPT !.locked = FALSE]
  /\ record' = state'
  /\ attempts' = 0
  /\ proc' = [Fill(proc) EXCEPT ![p].pc = "take"]
  /\ UNCHANGED <<keys, storeVars, counters>>

WrongPassphrase(p) ==
  /\ At(p, "check") /\ ("guess" \in sc.ops \/ proc[p].old # state.key)
  /\ attempts' = attempts + 1
  /\ Done(p)
  /\ UNCHANGED <<record, state, mk, keys, storeVars, counters>>

(* getMasterKey returns the buffer itself, not a copy.  Making the client    *)
(* takes several awaits; if it is there, the handler goes on at once.       *)
TakeKey(p) ==
  /\ At(p, "take")
  /\ IF mk # NoKey /\ enc.up
       THEN /\ enc' = WithKey(mk)
            /\ proc' = [proc EXCEPT ![p].pc = "migrate", ![p].todo = Todo]
       ELSE /\ proc' = [proc EXCEPT ![p].pc = "apply", ![p].key = mk]
            /\ UNCHANGED enc
  /\ UNCHANGED <<lockVars, seeds, made, misread, counters>>

ApplyKey(p) ==
  /\ At(p, "apply") /\ proc[p].op = "unlock"
  /\ IF proc[p].key = NoKey
       THEN enc' = Client /\ Done(p)
       ELSE /\ enc' = WithKey(proc[p].key)
            /\ proc' = [proc EXCEPT ![p].pc = "migrate", ![p].todo = Todo]
  /\ UNCHANGED <<lockVars, seeds, made, misread, counters>>

FinishUnlock(p) ==
  /\ proc[p].op = "unlock" /\ At(p, "migrate") /\ proc[p].todo = {}
  /\ Done(p)
  /\ UNCHANGED <<lockVars, storeVars, counters>>

StartLock(p) ==
  /\ Asked(p, "lock") /\ state.key # NoKey
  /\ mk' = NoKey
  /\ state' = [state EXCEPT !.locked = TRUE]
  /\ record' = state'
  /\ proc' = [Fill(proc) EXCEPT ![p] = [Idle EXCEPT !.op = "lock", !.pc = "clear"]]
  /\ UNCHANGED <<attempts, keys, storeVars>>

ClearKey(p) ==
  /\ At(p, "clear")
  /\ enc' = [enc EXCEPT !.key = NoKey]
  /\ Done(p)
  /\ UNCHANGED <<lockVars, seeds, made, misread, counters>>

-----------------------------------------------------------------------------
(* Seeds.  Each handler asks the lock first, then opens the storage.        *)

(* Mutant: the tag is not looked up first.                                  *)
StartNewAnyTag(p) ==
  /\ Unlocked
  /\ \E t \in Tags : Request(p, "new", [Idle EXCEPT !.pc = "put", !.tag = t])
  /\ enc' = Client
  /\ UNCHANGED <<lockVars, seeds, made, misread>>

(* newSeed and the imports: the tag must be free now, and is written at a   *)
(* later step.                                                             *)
StartNew(p) ==
  /\ Unlocked
  /\ \E t \in Tags \ Stored : Request(p, "new", [Idle EXCEPT !.pc = "put", !.tag = t])
  /\ enc' = Client
  /\ UNCHANGED <<lockVars, seeds, made, misread>>

StartImport(p) ==
  /\ Unlocked
  /\ \E t \in Tags \ Stored : Request(p, "import", [Idle EXCEPT !.pc = "put", !.tag = t])
  /\ enc' = Client
  /\ UNCHANGED <<lockVars, seeds, made, misread>>

PutSeed(p, by) ==
  /\ made' = made + 1
  /\ seeds' = [seeds EXCEPT ![proc[p].tag] = [id |-> made + 1, by |-> by]]

Put(p) ==
  /\ At(p, "put") /\ proc[p].op \in {"new", "import", "derive"}
  /\ IF Throws THEN UNCHANGED <<seeds, made>> ELSE PutSeed(p, IF Encrypts THEN enc.key ELSE NoKey)
  /\ Done(p)
  /\ UNCHANGED <<lockVars, enc, misread, counters>>

(* getEntry: without encryption the stored bytes are the seed.              *)
Reads(t) == ~Throws /\ seeds[t] # NoSeed /\ (Encrypts => seeds[t].by \in {NoKey, enc.key})
Misread(t) == misread' = IF Reads(t) /\ ~Encrypts /\ seeds[t].by # NoKey THEN misread \cup {t} ELSE misread

StartDerive(p) ==
  /\ Unlocked
  /\ \E t \in Tags \ Stored, s \in Stored :
       Request(p, "derive", [Idle EXCEPT !.pc = "source", !.tag = t, !.src = s])
  /\ enc' = Client
  /\ UNCHANGED <<lockVars, seeds, made, misread>>

DeriveFrom(p) ==
  /\ At(p, "source")
  /\ Misread(proc[p].src)
  /\ IF Reads(proc[p].src) THEN Goto(p, "put") ELSE Done(p)
  /\ UNCHANGED <<lockVars, enc, seeds, made, counters>>

(* Exports and secret boxes use the first 32 bytes of what getEntry gives.  *)
StartExport(p) ==
  /\ Unlocked
  /\ \E t \in Stored : Request(p, "export", [Idle EXCEPT !.pc = "read", !.tag = t])
  /\ enc' = Client
  /\ UNCHANGED <<lockVars, seeds, made, misread>>

ExportSeed(p) ==
  /\ At(p, "read")
  /\ Misread(proc[p].tag)
  /\ Done(p)
  /\ UNCHANGED <<lockVars, enc, seeds, made, counters>>

(* Signing throws unless what it gets has the length of a private key; it   *)
(* changes nothing but may be what makes the storage.                       *)
StartSign(p) ==
  /\ Unlocked /\ \E t \in Stored : Request(p, "sign", [Idle EXCEPT !.pc = "sign", !.tag = t])
  /\ enc' = Client
  /\ UNCHANGED <<lockVars, seeds, made, misread>>

Sign(p) == At(p, "sign") /\ Done(p) /\ UNCHANGED <<lockVars, storeVars, counters>>

StartDelete(p) ==
  /\ Unlocked
  /\ \E t \in Stored : Request(p, "delete", [Idle EXCEPT !.pc = "remove", !.tag = t])
  /\ enc' = Client
  /\ UNCHANGED <<lockVars, seeds, made, misread>>

(* HappContextManager: installHapp and getOrCreateAgentKey look for the key *)
(* of the domain and make it if there is none; uninstallHapp deletes it.    *)
StartAgentKey(p) ==
  /\ \E t \in Tags \ Stored : Request(p, "agentkey", [Idle EXCEPT !.pc = "put", !.tag = t])
  /\ UNCHANGED <<lockVars, storeVars>>

PutAgentKey(p) ==
  /\ At(p, "put") /\ proc[p].op = "agentkey"
  /\ PutSeed(p, NoKey)
  /\ Done(p)
  /\ UNCHANGED <<lockVars, enc, misread, counters>>

StartUninstall(p) ==
  /\ \E t \in Stored : Request(p, "uninstall", [Idle EXCEPT !.pc = "remove", !.tag = t])
  /\ UNCHANGED <<lockVars, storeVars>>

Remove(p) ==
  /\ At(p, "remove")
  /\ seeds' = [seeds EXCEPT ![proc[p].tag] = NoSeed]
  /\ Done(p)
  /\ UNCHANGED <<lockVars, enc, made, misread, counters>>

(* The service worker stops and starts again: memory is lost.              *)
Restart ==
  /\ restarts < sc.restarts /\ restarts' = restarts + 1
  /\ state' = record /\ mk' = NoKey /\ attempts' = 0
  /\ enc' = NoStorage
  /\ proc' = [p \in Procs |-> Idle]
  /\ UNCHANGED <<record, seeds, keys, made, requests, misread>>

Handling(p) ==
  \/ StartChange(p) \/ VerifyOld(p) \/ CommitKey(p) \/ ReadAll(p) \/ WriteBack(p)
  \/ FirstKey(p) \/ Migrate(p) \/ FinishChange(p)
  \/ StartUnlock(p) \/ RightPassphrase(p) \/ WrongPassphrase(p) \/ TakeKey(p) \/ ApplyKey(p)
  \/ FinishUnlock(p) \/ StartLock(p) \/ ClearKey(p)
  \/ StartNew(p) \/ Put(p) \/ StartImport(p) \/ StartDerive(p) \/ DeriveFrom(p)
  \/ StartExport(p) \/ ExportSeed(p) \/ StartSign(p) \/ Sign(p)
  \/ StartDelete(p) \/ StartAgentKey(p) \/ PutAgentKey(p) \/ StartUninstall(p) \/ Remove(p)

Next == UNCHANGED sc /\ (Restart \/ \E p \in Procs : Handling(p))

Spec == Init /\ [][Next]_vars

-----------------------------------------------------------------------------
Locks == [locked : BOOLEAN, key : 0..MaxKeys]
AnyKey == 0..Wiped
Handlers ==
  [op : AllOps \cup {"none"},
   pc : {"idle", "verify", "commit", "apply", "write", "migrate", "check", "take", "clear",
         "put", "source", "read", "sign", "remove"},
   tag : Tags \cup {NoTag}, src : Tags \cup {NoTag}, key : AnyKey, old : 0..MaxKeys,
   todo : SUBSET [tag : Tags, id : Nat]]

TypeOK ==
  /\ sc \in Scenario
  /\ record \in Locks /\ state \in Locks
  /\ mk \in 0..MaxKeys /\ attempts \in Nat
  /\ enc \in [up : BOOLEAN, enabled : BOOLEAN, key : AnyKey]
  /\ seeds \in [Tags -> [id : Nat, by : AnyKey]]
  /\ proc \in [Procs -> Handlers]
  /\ keys \in 0..MaxKeys /\ made \in Nat /\ requests \in Nat /\ restarts \in Nat /\ misread \subseteq Tags \cup {NoTag}

(* One request after the other, without restarts.                          *)
InTurn == ~sc.overlap /\ sc.restarts = 0

(* What can leave seeds under a key that nobody has: a change of a         *)
(* passphrase already set that a restart stops or another request meets;   *)
(* an unlock that another handler meets.                                   *)
Safe == InTurn \/ (sc.keys <= 1 /\ (sc.overlap => "unlock" \notin sc.ops))

(* Unless a change of the passphrase is under way, the passphrase of the   *)
(* durable lock record opens every stored seed: no order of requests, no   *)
(* failure and no restart leaves a seed that only another key would open.  *)
SeedsReadable ==
  (\A p \in Procs : proc[p].op # "change") => \A t \in Tags : seeds[t].by \in {NoKey, record.key}
AllSeedsReadable == Safe => SeedsReadable

(* Once the handlers are done, the storage agrees with the lock record: it *)
(* has the record's key if the record says unlocked, and none otherwise.   *)
LockAgrees ==
  Quiet /\ enc.up /\ record.key # NoKey =>
    enc.enabled /\ enc.key = (IF record.locked THEN NoKey ELSE record.key)

(* What is exported or derived from is the seed, never its ciphertext.     *)
ReadsTrue == misread = {}

(* In turn, the storage agrees with the lock, and no ciphertext is taken   *)
(* for a seed.                                                             *)
InTurnLockAgrees == InTurn => LockAgrees /\ ReadsTrue

(* A seed is replaced by no other seed, and what appears under a free tag  *)
(* is new: a key once told to a page stays the key of its tag, and a       *)
(* deleted one does not come back.                                         *)
SeedsKept == \A t \in Tags : seeds'[t].id \in {0, IF seeds[t] = NoSeed THEN made + 1 ELSE seeds[t].id}
SeedsStable == [][SeedsKept]_vars
InTurnSeedsStable == [][InTurn => SeedsKept]_vars

-----------------------------------------------------------------------------
(* The inductive invariants.  Of all scenarios: what is asked for, the      *)
(* record is what the lock has in memory, its key the last one made.        *)
AskedInv ==
  /\ \A p \in Procs : proc[p].op \in sc.ops \cup {"none"}
  /\ ~sc.overlap => \A p, q \in Procs : proc[p] # Idle /\ proc[q] # Idle => p = q
  /\ state = record /\ record.key = keys /\ keys <= sc.keys

(* Of safe scenarios: no zeros are taken for a key.                        *)
NoneWiped ==
  /\ mk <= keys /\ enc.key <= keys
  /\ \A t \in Tags : seeds[t].by <= keys
  /\ \A p \in Procs : proc[p].key <= keys
SafeInv == Safe => NoneWiped

(* Of requests in turn: what the handler relies on.                        *)
Working(r) == r.pc \in {"apply", "write"}
TodoIs(r) == \A u \in r.todo : u.tag \in Stored /\ seeds[u.tag].id = u.id

TurnHandlerInv(r) ==
  /\ r.pc \in {"verify", "commit", "check"} => r.old = keys
  /\ r.pc \in {"verify", "commit", "apply", "write"} => r.op = "change"
  /\ r.pc \in {"check", "take"} => r.op = "unlock"
  /\ r.pc \in {"apply", "write", "migrate"} /\ r.op = "change" => r.key = keys
  /\ r.pc \in {"check", "apply", "write", "take", "migrate"} => keys # NoKey
  /\ r.pc \in {"apply", "write", "take", "migrate"} => ~record.locked
  /\ r.pc = "apply" => \A t \in Tags : seeds[t].by \in {NoKey, r.old}
  /\ r.pc = "write" => \A t \in Tags : seeds[t].by \in {NoKey, keys} \/ \E u \in r.todo : u.tag = t
  /\ r.pc \in {"write", "migrate"} => TodoIs(r)
  /\ r.pc = "migrate" => enc.key = keys
  /\ r.pc = "clear" => record.locked
  /\ r.pc \in {"put", "source"} => r.tag \notin Stored
  /\ r.pc = "source" => r.src \in Tags
  /\ r.pc = "read" => r.tag \in Tags

TurnInv ==
  /\ \A p \in Procs : TurnHandlerInv(proc[p])
  /\ mk = (IF record.locked THEN NoKey ELSE keys) /\ misread = {}
  /\ (\A p \in Procs : ~Working(proc[p])) => \A t \in Tags : seeds[t].by \in {NoKey, keys}
  /\ keys # NoKey =>
       \/ enc.up /\ enc.enabled /\ (enc.key = mk \/ \E p \in Procs : Working(proc[p]) \/ proc[p].pc \in {"take", "clear"})
       \/ \E p \in Procs : proc[p].pc = "apply" /\ proc[p].old = NoKey
InTurnInv == InTurn => TurnInv
=============================================================================
