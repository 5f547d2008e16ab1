---------------------------- MODULE HappContexts ----------------------------
(***************************************************************************)
(* HappContextManager and HappContextStorage with the background's         *)
(* handlers that use them: install, membrane proofs, enable and disable,   *)
(* zome calls, remote signals, chain recovery with its seal, uninstall.    *)
(* Handlers interleave at their awaits and share the context objects of    *)
(* the cache.  A context has one DNA, and contexts of one agent key have   *)
(* the same; `enabled` always is status = "enabled"; lastUsed is left out. *)
(* The worker's chain is reduced to how it was founded and what was        *)
(* written since it was recovered.  What a request that timed out does in  *)
(* the worker it does before the worker's next request.                    *)
(***************************************************************************)
EXTENDS Naturals, FiniteSets

CONSTANTS
  Procs,        \* handlers that may run at once
  Domains,
  Tags,         \* tags of keys in Lair
  MaxInstalls,  \* bound: installations and keys, numbered together
  Scenarios,    \* the settings Init chooses from
  Nil

AllOps == {"install", "provide", "call", "signal", "recover", "uninstall", "enable", "disable", "newkey", "delkey"}

Ids == 1..MaxInstalls

(* The tag that is derived from the domain.                                 *)
OwnTag(d) == <<d, "agent">>

(* May handlers overlap, the domains, the tags a page may name, the         *)
(* requests that are made, may reading and deleting keys fail; and the      *)
(* bounds.                                                                  *)
Scenario ==
  [overlap : BOOLEAN, domains : SUBSET Domains, tags : SUBSET Tags, ops : SUBSET AllOps, lairFails : BOOLEAN,
   installs : 0..MaxInstalls, requests : Nat, restarts : Nat]

Contexts == [domain : Domains, tag : Tags, deferred : BOOLEAN,
             status : {"awaiting", "enabled", "disabled"}, sealed : {"undefined", "open", "sealed"}]

ASSUME BoundsAssumption == MaxInstalls \in Nat
ASSUME TagsAssumption == \A d \in Domains : OwnTag(d) \in Tags
ASSUME NilAssumption == Nil \notin Ids \cup Domains \cup Contexts
ASSUME ScenarioAssumption == Scenarios \subseteq Scenario

VARIABLES
  sc,      \* the scenario
  disk,    \* IndexedDB: the contexts
  obj,     \* the context objects in memory, shared by cache and handlers
  cached,  \* contextCache
  dom,     \* domainToIdCache
  agent,   \* agentPubKey of each context object, 0 before there is one
  keys,    \* Lair: the key under each tag, 0 if there is none
  chain,   \* the worker's chain of each agent key
  forked,  \* for each agent key, the writes a recovery ran over
  proc,    \* the running handlers
  made, requests, restarts

vars == <<sc, disk, obj, cached, dom, agent, keys, chain, forked, proc, made, requests, restarts>>
contexts == <<disk, obj, cached, dom>>
worker == <<chain, forked>>
counters == <<requests, restarts>>

Idle == [op |-> "none", pc |-> "idle", domain |-> Nil, tag |-> Nil, id |-> Nil, key |-> 0,
         deferred |-> FALSE, proofs |-> FALSE]

(* How the chain was founded; was it recovered, and did RECOVER_CHAIN say   *)
(* so; the writes since then: those of calls that were answered, after a    *)
(* recovery that was reported, and all others.                              *)
NoChain == [founded |-> "no", recovered |-> "no", since |-> {}]

Init ==
  /\ sc \in Scenarios
  /\ disk = [i \in Ids |-> Nil] /\ obj = disk
  /\ cached = {} /\ dom = [d \in Domains |-> Nil]
  /\ agent = [i \in Ids |-> 0] /\ keys = [t \in Tags |-> 0]
  /\ chain = [k \in Ids |-> NoChain] /\ forked = [k \in Ids |-> {}]
  /\ proc = [p \in Procs |-> Idle]
  /\ made = 0 /\ requests = 0 /\ restarts = 0

Durable == {i \in Ids : disk[i] # Nil}
Id(p) == proc[p].id
Key(p) == agent[Id(p)]
At(p, pc) == proc[p].pc = pc
Goto(p, pc) == proc' = [proc EXCEPT ![p].pc = pc]
Done(p) == proc' = [proc EXCEPT ![p] = Idle]

Quiet == \A p \in Procs : proc[p] = Idle

Request(op) ==
  /\ op \in sc.ops /\ (sc.overlap \/ Quiet)
  /\ requests < sc.requests /\ requests' = requests + 1 /\ UNCHANGED restarts
Handler(p, op, r) == proc[p] = Idle /\ Request(op) /\ proc' = [proc EXCEPT ![p] = [r EXCEPT !.op = op]]

(* getContextByDomain: the caches, else the domain index.                   *)
ByDomain(d) ==
  IF dom[d] # Nil THEN {dom[d]} \cap cached ELSE {i \in Durable : disk[i].domain = d}

(* Mutant: the domain index is not unique.                                  *)
NotRefused(i, d) == FALSE

(* The domain index is unique: a second row of a domain is refused.         *)
Refused(i, d) == \E j \in Durable \ {i} : disk[j].domain = d

(* putContext of the object of i, changed to c: the object changes at once, *)
(* for everybody who has it; then the row, if it is not refused, and the    *)
(* caches.                                                                  *)
Put(i, c) ==
  /\ obj' = [obj EXCEPT ![i] = c]
  /\ IF Refused(i, c.domain)
       THEN UNCHANGED <<disk, cached, dom>>
       ELSE /\ disk' = [disk EXCEPT ![i] = c]
            /\ cached' = cached \cup {i}
            /\ dom' = [dom EXCEPT ![c.domain] = i]

-----------------------------------------------------------------------------
(* Installation.                                                            *)

(* The page may name the tag of its agent key.                              *)
StartInstall(p) ==
  /\ \E d \in sc.domains, deferred, proofs \in BOOLEAN : \E t \in {OwnTag(d)} \cup sc.tags :
       /\ ByDomain(d) = {}
       /\ Handler(p, "install", [Idle EXCEPT !.pc = "key", !.domain = d, !.tag = t,
                                             !.deferred = deferred, !.proofs = proofs])
  /\ UNCHANGED <<contexts, agent, keys, worker, made>>

(* The key under the tag, or a new one.  A bundle that cannot be read ends  *)
(* the installation before or after.                                        *)
MakeKey(p) ==
  LET t == proc[p].tag IN
  /\ At(p, "key")
  /\ \/ Done(p) /\ UNCHANGED <<keys, made>>
     \/ /\ made < sc.installs /\ made' = made + 1
        /\ keys' = [keys EXCEPT ![t] = IF @ = 0 THEN made + 1 ELSE @]
        /\ \/ proc' = [proc EXCEPT ![p] = [@ EXCEPT !.pc = "store", !.id = made + 1, !.key = keys'[t]]]
           \/ Done(p)
  /\ UNCHANGED <<contexts, agent, worker, counters>>

(* Of two concurrent installations one is refused.  Genesis follows if the  *)
(* proofs came with the request.                                            *)
StoreContext(p) ==
  LET r == proc[p] IN
  /\ At(p, "store")
  /\ Put(r.id, [domain |-> r.domain, tag |-> r.tag, deferred |-> r.deferred, sealed |-> "undefined",
                status |-> IF r.deferred THEN "awaiting" ELSE "enabled"])
  /\ agent' = [agent EXCEPT ![r.id] = r.key]
  /\ IF r.deferred /\ r.proofs /\ ~Refused(r.id, r.domain) THEN Goto(p, "genesis") ELSE Done(p)
  /\ UNCHANGED <<keys, worker, made, counters>>

(* LAIR_NEW_SEED, and the agent key that is made before a page joins.       *)
NewKey(p) ==
  /\ proc[p] = Idle /\ Request("newkey") /\ made < sc.installs
  /\ \E t \in Tags : keys[t] = 0 /\ keys' = [keys EXCEPT ![t] = made + 1]
  /\ made' = made + 1
  /\ UNCHANGED <<contexts, agent, worker, proc>>

(* LAIR_DELETE_ENTRY.                                                       *)
DeleteEntry(p) ==
  /\ proc[p] = Idle /\ Request("delkey")
  /\ \E t \in Tags : keys[t] # 0 /\ keys' = [keys EXCEPT ![t] = 0]
  /\ UNCHANGED <<contexts, agent, worker, proc, made>>

(* PROVIDE_MEMPROOFS.                                                       *)
StartProvide(p) ==
  /\ \E i \in cached :
       obj[i].status = "awaiting" /\ Handler(p, "provide", [Idle EXCEPT !.pc = "genesis", !.id = i])
  /\ UNCHANGED <<contexts, agent, keys, worker, made>>

(* Lair signs with any key it holds, whatever its tag.                      *)
Signs(p) == \E t \in Tags : keys[t] = Key(p)

(* RUN_GENESIS: nothing to do if the chain has a head; otherwise the proof  *)
(* may be refused and Lair must sign.  The answer may come too late.        *)
Genesis(p) ==
  /\ At(p, "genesis")
  /\ \/ Done(p) /\ UNCHANGED chain
     \/ /\ chain[Key(p)].founded # "no" \/ Signs(p)
        /\ chain' = [chain EXCEPT ![Key(p)].founded = IF @ = "no" THEN "proof" ELSE @]
        /\ Goto(p, "complete") \/ Done(p)
  /\ UNCHANGED <<contexts, agent, keys, forked, made, counters>>

CompleteMemproofs(p) ==
  /\ At(p, "complete")
  /\ IF Id(p) \in cached THEN Put(Id(p), [obj[Id(p)] EXCEPT !.status = "enabled"]) ELSE UNCHANGED contexts
  /\ Done(p)
  /\ UNCHANGED <<agent, keys, worker, made, counters>>

(* Mutant: a hApp that awaits its proofs can be enabled.                    *)
SetContextEnabledAwaiting(p, i, enabled) ==
  /\ proc[p] = Idle /\ Request(IF enabled THEN "enable" ELSE "disable")
  /\ i \in cached
  /\ Put(i, [obj[i] EXCEPT !.status = IF enabled THEN "enabled" ELSE "disabled"])
  /\ UNCHANGED <<agent, keys, worker, proc, made>>

(* ENABLE_HAPP and DISABLE_HAPP.                                            *)
SetContextEnabled(p, i, enabled) ==
  /\ proc[p] = Idle /\ Request(IF enabled THEN "enable" ELSE "disable")
  /\ i \in cached /\ obj[i].status # "awaiting"
  /\ Put(i, [obj[i] EXCEPT !.status = IF enabled THEN "enabled" ELSE "disabled"])
  /\ UNCHANGED <<agent, keys, worker, proc, made>>

-----------------------------------------------------------------------------
(* Zome calls and remote signals.                                           *)

(* handleCallZome finds the context by its id, or by the page's domain (as  *)
(* do requests that only read).                                             *)
StartCall(p) ==
  /\ \/ \E i \in cached :
          obj[i].status = "enabled" /\ Handler(p, "call", [Idle EXCEPT !.pc = "exec", !.id = i])
     \/ \E d \in Domains : \E i \in ByDomain(d) : Handler(p, "call", [Idle EXCEPT !.pc = "validate", !.id = i])
  /\ UNCHANGED <<contexts, agent, keys, worker, made>>

(* validateAgentKey: a missing key, and one that cannot be read, makes the  *)
(* context stale.  Then the status is looked at.                            *)
Validate(p) ==
  LET c == obj[Id(p)] IN
  /\ At(p, "validate")
  /\ \/ (keys[c.tag] = 0 \/ sc.lairFails) /\ Goto(p, "drop")
     \/ keys[c.tag] # 0 /\ c.status = "enabled" /\ Goto(p, "exec")
     \/ keys[c.tag] # 0 /\ c.status # "enabled" /\ Done(p)
  /\ UNCHANGED <<contexts, agent, keys, worker, made, counters>>

(* handleRemoteSignal: any context, enabled or not.                         *)
StartSignal(p) ==
  /\ \E i \in cached : Handler(p, "signal", [Idle EXCEPT !.pc = "exec", !.id = i])
  /\ UNCHANGED <<contexts, agent, keys, worker, made>>

(* The call in the worker: it commits nothing, or founds the chain without  *)
(* a proof if there is none, and writes.  What it committed stays also if   *)
(* it is then an error: the result has the form of one, the executor gave   *)
(* up waiting, its document was closed.  Only a page's call that is         *)
(* answered seals.                                                          *)
Exec(p) ==
  /\ At(p, "exec")
  /\ \/ Done(p) /\ UNCHANGED chain
     \/ /\ Signs(p)
        /\ chain' = [chain EXCEPT ![Key(p)].founded = IF @ = "no" THEN "none" ELSE @,
                                  ![Key(p)].since = IF chain[Key(p)].recovered = "no" THEN @ ELSE @ \cup {"unanswered"}]
        /\ Done(p) \/ (proc[p].op = "call" /\ Goto(p, "seal"))
  /\ UNCHANGED <<contexts, agent, keys, forked, made, counters>>

Seal(p) ==
  /\ At(p, "seal")
  /\ IF obj[Id(p)].sealed = "open" /\ Id(p) \in cached
       THEN Put(Id(p), [obj[Id(p)] EXCEPT !.sealed = "sealed"])
       ELSE UNCHANGED contexts
  /\ chain' = [chain EXCEPT ![Key(p)].since = IF chain[Key(p)].recovered = "reported" THEN @ \cup {"answered"} ELSE @]
  /\ Done(p)
  /\ UNCHANGED <<agent, keys, forked, made, counters>>

-----------------------------------------------------------------------------
(* RECOVER_CHAIN.                                                           *)

(* Mutant: the seal is not looked at.                                       *)
StartRecoverSealed(p) ==
  /\ \E i \in cached : Handler(p, "recover", [Idle EXCEPT !.pc = "recover", !.id = i])
  /\ UNCHANGED <<contexts, agent, keys, worker, made>>

StartRecover(p) ==
  /\ \E i \in cached :
       obj[i].sealed # "sealed" /\ Handler(p, "recover", [Idle EXCEPT !.pc = "recover", !.id = i])
  /\ UNCHANGED <<contexts, agent, keys, worker, made>>

(* The worker may have nothing to store.  Otherwise it stores the DHT's     *)
(* chain and moves the head to its end; what it reports may come too late.  *)
RecoverChain(p) ==
  LET k == Key(p) IN
  /\ At(p, "recover")
  /\ \/ UNCHANGED worker
     \/ /\ forked' = [forked EXCEPT ![k] = @ \cup chain[k].since]
        /\ chain' = [chain EXCEPT ![k] =
             [founded |-> IF @.founded = "no" THEN "proof" ELSE @.founded,
              recovered |-> IF @.recovered = "no" THEN "unreported" ELSE @.recovered, since |-> {}]]
  /\ Goto(p, "mark") \/ Done(p)
  /\ UNCHANGED <<contexts, agent, keys, made, counters>>

Report(p) == chain' = [chain EXCEPT ![Key(p)].recovered = IF @ = "no" THEN @ ELSE "reported"]

(* Mutant: the seal may have been set since the recovery began.             *)
MarkRecoveryRunSealed(p) ==
  /\ At(p, "mark")
  /\ IF Id(p) \in cached THEN Put(Id(p), [obj[Id(p)] EXCEPT !.sealed = "open"]) ELSE UNCHANGED contexts
  /\ Report(p) /\ Done(p)
  /\ UNCHANGED <<agent, keys, forked, made, counters>>

MarkRecoveryRun(p) ==
  /\ At(p, "mark")
  /\ IF Id(p) \in cached /\ obj[Id(p)].sealed # "sealed"
       THEN Put(Id(p), [obj[Id(p)] EXCEPT !.sealed = "open"])
       ELSE UNCHANGED contexts
  /\ Report(p) /\ Done(p)
  /\ UNCHANGED <<agent, keys, forked, made, counters>>

-----------------------------------------------------------------------------
(* Uninstallation, and the deletion of a stale context.                     *)

StartUninstall(p) ==
  /\ \E i \in cached : Handler(p, "uninstall", [Idle EXCEPT !.pc = "unkey", !.id = i])
  /\ UNCHANGED <<contexts, agent, keys, worker, made>>

(* Mutant: the tag is derived from the domain, not the context's.           *)
DeleteKeyOfDomain(p) ==
  /\ At(p, "unkey")
  /\ keys' = [keys EXCEPT ![OwnTag(obj[Id(p)].domain)] = 0]
  /\ Goto(p, "drop")
  /\ UNCHANGED <<contexts, agent, worker, made, counters>>

(* Whoever shares the tag loses the key as well.                            *)
DeleteKey(p) ==
  /\ At(p, "unkey")
  /\ \/ keys' = [keys EXCEPT ![obj[Id(p)].tag] = 0]
     \/ sc.lairFails /\ UNCHANGED keys
  /\ Goto(p, "drop")
  /\ UNCHANGED <<contexts, agent, worker, made, counters>>

(* deleteContext: the row first, the caches when the request has succeeded. *)
(* A row put meanwhile is put behind the deletion, and enters the caches    *)
(* again.                                                                   *)
DeleteRow(p) ==
  /\ At(p, "drop")
  /\ disk' = [disk EXCEPT ![Id(p)] = Nil]
  /\ proc' = [proc EXCEPT ![p] =
       [@ EXCEPT !.pc = "uncache", !.domain = IF Id(p) \in cached THEN obj[Id(p)].domain ELSE Nil]]
  /\ UNCHANGED <<obj, cached, dom, agent, keys, worker, made, counters>>

Uncache(p) ==
  /\ At(p, "uncache")
  /\ cached' = IF Id(p) \in Durable THEN cached ELSE cached \ {Id(p)}
  /\ dom' = [d \in Domains |-> IF d = proc[p].domain /\ dom[d] \notin Durable THEN Nil ELSE dom[d]]
  /\ Done(p)
  /\ UNCHANGED <<disk, obj, agent, keys, worker, made, counters>>

(* The service worker stops and starts: the caches are read again.          *)
Restart ==
  /\ restarts < sc.restarts /\ restarts' = restarts + 1
  /\ obj' = disk /\ cached' = Durable
  /\ dom' = [d \in Domains |-> IF \E i \in Durable : disk[i].domain = d
                                 THEN CHOOSE i \in Durable : disk[i].domain = d ELSE Nil]
  /\ proc' = [p \in Procs |-> Idle]
  /\ UNCHANGED <<disk, agent, keys, worker, made, requests>>

Handling(p) ==
  \/ StartInstall(p) \/ MakeKey(p) \/ StoreContext(p) \/ NewKey(p) \/ DeleteEntry(p)
  \/ StartProvide(p) \/ Genesis(p) \/ CompleteMemproofs(p)
  \/ StartCall(p) \/ Validate(p) \/ StartSignal(p) \/ Exec(p) \/ Seal(p)
  \/ StartRecover(p) \/ RecoverChain(p) \/ MarkRecoveryRun(p)
  \/ StartUninstall(p) \/ DeleteKey(p) \/ DeleteRow(p) \/ Uncache(p)
  \/ \E i \in Ids, enabled \in BOOLEAN : SetContextEnabled(p, i, enabled)

Next == UNCHANGED sc /\ (Restart \/ \E p \in Procs : Handling(p))

Spec == Init /\ [][Next]_vars

-----------------------------------------------------------------------------
Handlers ==
  [op : AllOps \cup {"none"},
   pc : {"idle", "key", "store", "genesis", "complete", "validate", "exec", "seal", "recover", "mark",
         "unkey", "drop", "uncache"},
   domain : Domains \cup {Nil}, tag : Tags \cup {Nil}, id : Ids \cup {Nil}, key : Ids \cup {0}, deferred : BOOLEAN, proofs : BOOLEAN]

TypeOK ==
  /\ sc \in Scenario
  /\ disk \in [Ids -> Contexts \cup {Nil}] /\ obj \in [Ids -> Contexts \cup {Nil}]
  /\ cached \subseteq {i \in Ids : obj[i] # Nil} /\ dom \in [Domains -> Ids \cup {Nil}]
  /\ agent \in [Ids -> Ids \cup {0}] /\ keys \in [Tags -> Ids \cup {0}]
  /\ chain \in [Ids -> [founded : {"no", "none", "proof"}, recovered : {"no", "unreported", "reported"},
                        since : SUBSET {"answered", "unanswered"}]]
  /\ forked \in [Ids -> SUBSET {"answered", "unanswered"}]
  /\ proc \in [Procs -> Handlers]
  /\ made \in 0..MaxInstalls /\ requests \in Nat /\ restarts \in Nat

(* One request after the other: handlers that overlap can break what is     *)
(* promised of requests in turn.                                           *)
InTurn == ~sc.overlap

(* No other context has, or had, the agent key of i: contexts share a key  *)
(* when a page names the tag of another, or when Lair failed to delete it. *)
Alone(i) == \A j \in Ids \ {i} : agent[j] # agent[i]
Installed == {i \in Ids : agent[i] # 0}
OwnKeys == \A i \in Installed : Alone(i)

(* Recovery never runs over a chain written since the last recovery        *)
(* ("Re-running would fork the chain", background/index.ts:2236).          *)
RecoveryKeepsWrites == forked = [k \in Ids |-> {}]

(* In turn, whatever restarts and fails, it never runs over a write of a   *)
(* call the page has an answer to, made after a recovery that was reported:*)
(* the seal is set before anybody can ask again.                           *)
InTurnRecoveryKeepsWrites ==
  InTurn => \A i \in Installed : Alone(i) => "answered" \notin forked[agent[i]]

(* "the chain is always initialised before a context goes live"            *)
(* (happ-context-manager.ts): the chain of a hApp with deferred membrane   *)
(* proofs is founded with the proof, and before the context is enabled.    *)
GenesisFirst ==
  \A i \in Durable : disk[i].deferred /\ Alone(i) =>
    /\ disk[i].status # "awaiting" => chain[agent[i]].founded # "no"
    /\ chain[agent[i]].founded # "none"
InTurnGenesisFirst == InTurn /\ "signal" \notin sc.ops => GenesisFirst

(* A context that nobody is uninstalling has its agent key in Lair, under  *)
(* its tag: as long as every context got a key of its own, uninstalling    *)
(* one hApp never takes the key of another, however pages chose the tags.  *)
InstalledHasKey ==
  \A i \in Durable : (\A p \in Procs : proc[p].op = "uninstall" => Id(p) # i) => keys[disk[i].tag] = agent[i]
InTurnInstalledHasKey ==
  InTurn /\ OwnKeys /\ sc.restarts = 0 /\ "delkey" \notin sc.ops => InstalledHasKey

(* "true: writes occurred post-recovery (recovery permanently blocked)"    *)
(* (core/src/index.ts:143): a durable seal is never opened again, whatever *)
(* runs at the same time and whenever the service worker restarts.         *)
SealsKept ==
  \A i \in Durable : disk[i].sealed = "sealed" /\ disk'[i] # Nil => disk'[i].sealed = "sealed"

(* An uninstalled context does not come back.                              *)
GoneKept == \A i \in Ids : obj[i] # Nil /\ disk[i] = Nil => disk'[i] = Nil
UninstalledStaysGone == [][GoneKept]_vars

(* A disabled hApp is enabled again by ENABLE_HAPP only.                   *)
DisabledKept ==
  \A i \in Durable : disk[i].status = "disabled" /\ disk'[i] # Nil /\ disk'[i].status = "enabled"
    => \E p \in Procs : SetContextEnabled(p, i, TRUE)
DisabledStays == [][DisabledKept]_vars

(* A context is deleted only when the key under its tag is gone from Lair  *)
(* ("if not, deletes the stale context", happ-context-manager.ts:341).     *)
StaleOnly == \A i \in Durable : disk'[i] = Nil => keys[disk[i].tag] = 0
OnlyStaleDeleted == [][StaleOnly]_vars

(* A seal on disk never opens again, whatever overlaps, fails or restarts; *)
(* in turn, an uninstalled hApp stays gone, a disabled one disabled, and,  *)
(* if Lair does not fail, a context is deleted only when its key is.       *)
ContextsStay ==
  [][SealsKept /\ (InTurn => GoneKept /\ DisabledKept /\ (~sc.lairFails => StaleOnly))]_vars

(* When no handler runs, the caches show exactly what is on disk: one      *)
(* context for a domain, found by its id and by its domain.                *)
AllCachesAgree ==
  Quiet => /\ cached = Durable
           /\ \A i \in Durable : obj[i] = disk[i] /\ ByDomain(disk[i].domain) = {i}

-----------------------------------------------------------------------------
(* The inductive invariants.  Of handlers that overlap: ids are fresh, a    *)
(* handler's context has an object, and a durable row is what its object    *)
(* says, in both caches, alone in its domain.                               *)
Uses(r) == r.pc \notin {"idle", "key", "store"}

HandlerInv(r) ==
  /\ r.pc = "idle" => r = Idle
  /\ r.pc \in {"key", "store"} => r.domain \in Domains
  /\ r.pc \in {"key", "store"} => r.tag \in Tags
  /\ r.pc = "store" => r.id \in 1..made /\ r.key \in 1..made /\ agent[r.id] = 0 /\ obj[r.id] = Nil /\ disk[r.id] = Nil
  /\ Uses(r) => r.id \in Ids /\ obj[r.id] # Nil

RowInv(i) ==
  disk[i] # Nil => i \in cached /\ obj[i] = disk[i] /\ dom[disk[i].domain] = i

CacheInv ==
  /\ \A p \in Procs : HandlerInv(proc[p])
  /\ \A p, q \in Procs : At(p, "store") /\ At(q, "store") /\ Id(p) = Id(q) => p = q
  /\ \A i \in Ids : i > made => obj[i] = Nil
  /\ \A i \in Ids : agent[i] <= made /\ (agent[i] = 0 => obj[i] = Nil) /\ (i > made => agent[i] = 0)
  /\ \A t \in Tags : keys[t] <= made
  /\ \A i \in Ids : RowInv(i)
  /\ \A i \in cached \ Durable : \E p \in Procs : At(p, "uncache") /\ Id(p) = i

(* Of requests in turn: what the one handler may rely on at each of its     *)
(* awaits, and what ties a context to its agent key and its chain.          *)
TurnHandlerInv(r) ==
  /\ r.pc \in {"key", "store"} => \A i \in Durable : disk[i].domain # r.domain
  /\ r.pc = "store" => keys[r.tag] = r.key
  /\ Uses(r) /\ r.pc # "uncache" => r.id \in Durable
  /\ r.pc \in {"genesis", "complete"} => disk[r.id].status = "awaiting"
  /\ r.pc = "complete" => chain[agent[r.id]].founded # "no"
  /\ r.pc \in {"validate", "seal"} => r.op = "call"
  /\ r.pc = "exec" => \/ r.op = "call" /\ disk[r.id].status = "enabled"
                      \/ r.op = "signal" /\ "signal" \in sc.ops
  /\ r.pc \in {"recover", "mark"} => disk[r.id].sealed # "sealed"
  /\ r.pc \in {"unkey", "drop"} => r.op \in {"uninstall", "call"}
  /\ r.pc = "unkey" => r.op = "uninstall"
  /\ r.pc = "drop" => sc.lairFails \/ keys[disk[r.id].tag] = 0

AloneInv(i) ==
  LET c == chain[agent[i]]
  IN /\ disk[i].deferred /\ "signal" \notin sc.ops =>
          c.founded # "none" /\ (disk[i].status # "awaiting" => c.founded # "no")
     /\ c.recovered = "reported" => disk[i].sealed # "undefined"
     /\ "answered" \in c.since => disk[i].sealed = "sealed"

ChainsInv ==
  /\ \A i \in Durable : Alone(i) => AloneInv(i)
  /\ \A k \in Ids : (\A i \in Ids : agent[i] # k) => chain[k] = NoChain /\ forked[k] = {}
  /\ \A i \in Installed : Alone(i) => "answered" \notin forked[agent[i]]

Uninstalling(i) == \E p \in Procs : At(p, "drop") /\ proc[p].op = "uninstall" /\ Id(p) = i

KeysInv ==
  OwnKeys /\ sc.restarts = 0 /\ "delkey" \notin sc.ops =>
    \A i \in Durable : keys[disk[i].tag] = agent[i] \/ Uninstalling(i)

TurnInv ==
  /\ \A p, q \in Procs : proc[p] # Idle /\ proc[q] # Idle => p = q
  /\ \A p \in Procs : TurnHandlerInv(proc[p])
  /\ ChainsInv /\ KeysInv

InTurnInv == InTurn => TurnInv
=============================================================================
