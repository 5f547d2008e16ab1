----------------------------- MODULE CachedStore -----------------------------
(***************************************************************************)
(* SourceChainStorage, the storage provider over IndexedDB that the tests  *)
(* of the ribosome run on.  IndexedDB is asynchronous and host functions   *)
(* are not, so a call reads from a session cache: the chain of its cell is *)
(* loaded before the call, writes go to the cache and to a list, and the   *)
(* list becomes one IndexedDB transaction when the call commits.           *)
(*                                                                         *)
(* One call at a time.  The order of the cache's Maps is abstracted: a     *)
(* read that takes the first match answers with any of them.               *)
(***************************************************************************)
EXTENDS ChainActions

CONSTANTS MaxFailures, MaxRollbacks, MaxReloads   \* bounds

VARIABLES
  idb,      \* the object stores
  pending,  \* pendingTransaction, or None
  cache,    \* sessionCache; a chain head that is absent was not loaded
  call,     \* the cell of the running call, or None
  bounds

NoCache == [act |-> <<>>, entry |-> {}, link |-> <<>>, head |-> <<>>]
NoPending == [act |-> <<>>, entry |-> <<>>, link |-> <<>>, gone |-> <<>>, head |-> None]

(***************************************************************************)
(* The refinement: a row store that sees the object stores and, over them, *)
(* the pending lists in the order in which the commit applies them.        *)
(***************************************************************************)
Over(f, s) ==
  LET LastOf(k) == Max({i \in DOMAIN s : s[i].key = k})
  IN Overlay([k \in {s[i].key : i \in DOMAIN s} |-> s[LastOf(k)].value], f)

HeadOver(heads, h) == IF h = None THEN heads ELSE [heads EXCEPT ![h.cell] = [seq |-> h.seq, act |-> h.act]]

(* bug: linkDeletes is left out *)
AppliedUndeleted(store, p) ==
  [act |-> Over(store.act, p.act), entry |-> Over(store.entry, p.entry),
   link |-> Over(store.link, p.link), head |-> HeadOver(store.head, p.head)]

Applied(store, p) ==
  LET links == Over(store.link, p.link)
  IN [act |-> Over(store.act, p.act), entry |-> Over(store.entry, p.entry),
      link |-> Restrict(Over(links, p.gone), DOMAIN links), head |-> HeadOver(store.head, p.head)]

Rows == INSTANCE RowStore WITH
  rows <- IF pending = None THEN idb ELSE Applied(idb, pending),
  saved <- IF pending = None THEN None ELSE idb

CachedInit ==
  /\ idb = Rows!NoRows /\ pending = None /\ cache = NoCache /\ call = None
  /\ bounds = [failures |-> MaxFailures, rollbacks |-> MaxRollbacks, reloads |-> MaxReloads]

(***************************************************************************)
(* Reads, all of them from the cache                                       *)
(***************************************************************************)
getChainHead(c) == cache.head[c]
WithEntry(e) == {a \in DOMAIN cache.act : About[a].entry = e}
getLinks(b) == {a \in DOMAIN cache.link : Base(a) = b}

getDetails(e) ==
  IF e \notin cache.entry \/ WithEntry(e) = {} THEN None
  ELSE [updates |-> {a \in DOMAIN cache.act : About[a].type = "Update" /\ OriginalEntry(a) = e},
        deletes |-> {a \in DOMAIN cache.act : About[a].type = "Delete" /\ OriginalEntry(a) = e}]

(***************************************************************************)
(* Writes inside a transaction: to the list and to the cache               *)
(***************************************************************************)
Both(p, k) == [pending |-> p, cache |-> k]

Listed(list, k, v) == Append(list, [key |-> k, value |-> v])

putAction(s, a, n, z) ==
  Both([s.pending EXCEPT !.act = Listed(@, a, Row(n, z))], [s.cache EXCEPT !.act = Upsert(@, a, Row(n, z))])
putEntry(s, e, c) ==
  Both([s.pending EXCEPT !.entry = Listed(@, e, c)], [s.cache EXCEPT !.entry = @ \cup {e}])
putLink(s, a) ==
  Both([s.pending EXCEPT !.link = Listed(@, a, None)], [s.cache EXCEPT !.link = Upsert(@, a, None)])
deleteLink(s, a, d) ==
  Both([s.pending EXCEPT !.gone = Listed(@, a, d)],
       IF a \in DOMAIN s.cache.link THEN [s.cache EXCEPT !.link[a] = d] ELSE s.cache)
updateChainHead(s, c, n, a) ==
  Both([s.pending EXCEPT !.head = [cell |-> c, seq |-> n, act |-> a]],
       [s.cache EXCEPT !.head = Upsert(@, c, [seq |-> n, act |-> a])])

(* The host functions, as they use the provider.                           *)
Write(s, a, z) ==
  LET c == About[a].cell
      n == Rows!NextSeq(getChainHead(c))
      content == IF isEntryAction(a) THEN putEntry(s, About[a].entry, c) ELSE s
      acted == putAction(content, a, n, z)
      linked == CASE About[a].type = "CreateLink" -> putLink(acted, a)
                  [] About[a].type = "DeleteLink" -> deleteLink(acted, About[a].original, a)
                  [] OTHER -> acted
  IN updateChainHead(linked, c, n, a)

WriteAction(a) ==
  /\ call = About[a].cell /\ Rows!Writable(DOMAIN cache.act, a)
  /\ \E running \in Zomes \cup {None} :
       LET s == Write(Both(pending, cache), a, RecordedZome(a, running))
       IN pending' = s.pending /\ cache' = s.cache
  /\ UNCHANGED <<idb, call, bounds>>

(* Genesis is written without a transaction: each write is awaited, and    *)
(* enters the cache when the object store has it.                          *)
FoundChain(c) ==
  /\ call = None /\ pending = None /\ (IF c \in DOMAIN cache.head THEN cache.head[c] ELSE idb.head[c]) = None
  /\ idb' = Rows!Found(idb, c)
  /\ cache' = [act |-> Overlay(Restrict(idb'.act, Range(Genesis[c])), cache.act),
               entry |-> cache.entry \cup {About[a].entry : a \in {b \in Range(Genesis[c]) : isEntryAction(b)}},
               link |-> cache.link, head |-> Upsert(cache.head, c, idb'.head[c])]
  /\ UNCHANGED <<pending, call, bounds>>

(***************************************************************************)
(* A call                                                                  *)
(***************************************************************************)
(* preloadChainForCell: actions and entries join what is cached, the links *)
(* and the head are replaced.                                              *)
(* bug: a head that is cached is kept *)
PreloadedKeepingHead(c) ==
  [act |-> Overlay(Restrict(idb.act, {a \in DOMAIN idb.act : About[a].cell = c}), cache.act),
   entry |-> cache.entry \cup {e \in DOMAIN idb.entry : idb.entry[e] = c},
   link |-> Restrict(idb.link, {a \in DOMAIN idb.link : About[a].cell = c}),
   head |-> IF c \in DOMAIN cache.head THEN cache.head ELSE Upsert(cache.head, c, idb.head[c])]

Preloaded(c) ==
  [act |-> Overlay(Restrict(idb.act, {a \in DOMAIN idb.act : About[a].cell = c}), cache.act),
   entry |-> cache.entry \cup {e \in DOMAIN idb.entry : idb.entry[e] = c},
   link |-> Restrict(idb.link, {a \in DOMAIN idb.link : About[a].cell = c}),
   head |-> Upsert(cache.head, c, idb.head[c])]

(* callZome: the chain of the cell is loaded, then the transaction begins. *)
BeginCall(c) ==
  /\ call = None /\ idb.head[c] # None
  /\ cache' = Preloaded(c) /\ pending' = NoPending /\ call' = c /\ UNCHANGED <<idb, bounds>>

commitTransaction ==
  /\ pending # None /\ idb' = Applied(idb, pending)
  /\ pending' = None /\ call' = None /\ UNCHANGED <<cache, bounds>>

(* The IndexedDB transaction fails or is aborted: the chain heads stay in  *)
(* the cache.                                                              *)
CommitAborted ==
  /\ pending # None /\ bounds.failures > 0 /\ bounds' = [bounds EXCEPT !.failures = @ - 1]
  /\ cache' = [NoCache EXCEPT !.head = cache.head]
  /\ pending' = None /\ call' = None /\ UNCHANGED idb

(* The call fails or is rejected by the validation.                        *)
rollbackTransaction ==
  /\ pending # None /\ bounds.rollbacks > 0 /\ bounds' = [bounds EXCEPT !.rollbacks = @ - 1]
  /\ cache' = NoCache /\ pending' = None /\ call' = None /\ UNCHANGED idb

(* The page is loaded again: a new instance over the same database.        *)
Reload ==
  /\ bounds.reloads > 0 /\ bounds' = [bounds EXCEPT !.reloads = @ - 1]
  /\ cache' = NoCache /\ pending' = None /\ call' = None /\ UNCHANGED idb

clear ==
  /\ call = None /\ bounds.reloads > 0 /\ bounds' = [bounds EXCEPT !.reloads = @ - 1]
  /\ idb' = Rows!NoRows /\ cache' = NoCache /\ UNCHANGED <<pending, call>>

CachedNext ==
  \/ commitTransaction \/ CommitAborted \/ rollbackTransaction \/ Reload \/ clear
  \/ \E c \in Cells : FoundChain(c) \/ BeginCall(c)
  \/ \E a \in Acts : WriteAction(a)

(***************************************************************************)
(* Properties                                                              *)
(***************************************************************************)
R == IF pending = None THEN idb ELSE Applied(idb, pending)
OfTheCall(d) == [f \in DOMAIN d |-> {a \in d[f] : About[a].cell = call}]

(* While a call runs, what its host functions read synchronously is what   *)
(* the row store would answer: the head, every action, link and entry of   *)
(* the cell, and the updates and deletes of an entry; whatever was left in *)
(* the cache by rollbacks, aborted commits and calls of other cells.  Only *)
(* an entry that another cell wrote last may be missing, and only details  *)
(* of other cells may be added.                                            *)
SameAnswers ==
  LET r == R IN
  call # None =>
    /\ getChainHead(call) = r.head[call]
    /\ \A a \in Acts : About[a].cell = call =>
         /\ a \in DOMAIN cache.act <=> a \in DOMAIN r.act
         /\ a \in DOMAIN cache.act => cache.act[a] = r.act[a]
    /\ \A e \in Entries :
         /\ e \in cache.entry => e \in DOMAIN r.entry
         /\ (e \in DOMAIN r.entry /\ r.entry[e] = call) => e \in cache.entry
         /\ (e \in cache.entry /\ Rows!getDetails(r, e, call) # None) =>
              OfTheCall(getDetails(e)) = Rows!getDetails(r, e, call)
    /\ \A b \in Entries \cup Acts :
         {a \in getLinks(b) : cache.link[a] = None} = Rows!getLinks(r, b, call)

(* Seen as rows, a call is a transaction: its writes are committed at once *)
(* or taken back, an aborted commit like a rollback, and a reload drops    *)
(* the open transaction.                                                   *)
ImplementsRows == Rows!StoreSpec

(***************************************************************************)
(* The invariant behind the two                                            *)
(***************************************************************************)
Lists(D, V) == Seq([key : D, value : V])
Pendings == [act : Lists(Acts, [seq : Nat, zome : Zomes \cup {None}]), entry : Lists(Entries, Cells),
             link : Lists(Acts, {None}), gone : Lists(Acts, Acts),
             head : [cell : Cells, seq : Nat, act : Acts] \cup {None}]
Caches == [act : Tables(Acts, [seq : Nat, zome : Zomes \cup {None}]), entry : SUBSET Entries,
           link : Tables(Acts, Acts \cup {None}), head : Tables(Cells, [seq : Nat, act : Acts])]

CachedTypeOK ==
  /\ Rows!RowsInv(idb) /\ Rows!RowsInv(R)
  /\ call \in Cells \cup {None} /\ (pending = None <=> call = None)
  /\ pending # None => pending \in Pendings
  /\ cache \in Caches

(* Whatever is cached is true of the rows, also what an earlier call left; *)
(* a chain head may be one that an aborted commit left.                    *)
CacheTrue ==
  /\ \A a \in DOMAIN cache.act : a \in DOMAIN R.act /\ cache.act[a] = R.act[a]
  /\ cache.entry \subseteq DOMAIN R.entry

(* Of the cell of a running call, all that counts is cached.               *)
CacheWhole ==
  call # None =>
    /\ R.head[call] # None /\ call \in DOMAIN cache.head /\ cache.head[call] = R.head[call]
    /\ Rows!OfCell(R, call) \subseteq DOMAIN cache.act
    /\ \A e \in DOMAIN R.entry : R.entry[e] = call => e \in cache.entry
    /\ cache.link = Restrict(R.link, {a \in DOMAIN R.link : About[a].cell = call})
    /\ \A i \in DOMAIN pending.gone : pending.gone[i].key \in DOMAIN R.act
    /\ pending.head # None => pending.head.cell = call

CachedInv == CachedTypeOK /\ CacheTrue /\ CacheWhole
=============================================================================
