------------------------------- MODULE DhtView -------------------------------
(***************************************************************************)
(* What a zome function sees of the DHT: the cascade over the agent's own  *)
(* rows, the worker's network cache and the linker.  Reads happen inside a *)
(* call, that is inside a transaction that may be rolled back; writes      *)
(* queue operations on the cache that are applied after the commit.        *)
(*                                                                         *)
(* One base address.  A link is abstracted to its identity, type, DNA and  *)
(* author; a copy of it to the create_link_hash it carries: the action's,  *)
(* or the surrogate computed from the linker's wire ops.  An action is     *)
(* abstracted to its entry.  The linker may lag: it answers with any of    *)
(* the links that were ever published, or with an error.                   *)
(***************************************************************************)
EXTENDS Naturals, Sequences, SequencesExt, FiniteSets

CONSTANTS
  Links, Own,        \* links, and those this agent creates
  Types, TypeOf,     \* link types
  Dnas, DnaOf,       \* the DNA of each link; the agent has a cell in each
  Actions, Entries, EntryOf,  \* actions that create entries; two may create the same one
  Mine,              \* the actions of this agent
  MaxLinkKeys, MaxRecords,    \* the capacities of the caches
  Formats,           \* how the linker sends links: "links" (with hashes) or "wire"
  Zomes,             \* what the zome functions work with: "links" or "records"
  Callers,           \* who writes links: the called zome function ("zome"), one
                     \* it calls in another zome ("nested"), post_commit ("post")
  MaxCalls, MaxWrites, MaxRestarts,  \* bounds
  None

ASSUME ViewAssumption ==
  /\ Own \subseteq Links /\ Mine \subseteq Actions /\ Actions \cap Entries = {}
  /\ TypeOf \in [Links -> Types] /\ DnaOf \in [Links -> Dnas] /\ EntryOf \in [Actions -> Entries]
  /\ {MaxLinkKeys, MaxRecords} \subseteq Nat \ {0} /\ Formats \subseteq {"links", "wire"}
  /\ Zomes \subseteq {"links", "records"} /\ Callers \subseteq {"zome", "nested", "post"}
  /\ None \notin Actions \cup Entries \cup Dnas
  /\ {MaxCalls, MaxWrites, MaxRestarts} \subseteq Nat

Keys == Types \cup {"all"}      \* keys of the link caches: base or base:type
Hashes == Actions \cup Entries  \* keys of the record cache

VARIABLES
  format,     \* the linker's
  zome,       \* the zome functions'
  disk,       \* committed rows: links, deleted links (and those of them that a called
              \* zome function has deleted itself), actions
  rows,       \* the same, as the running call sees and changes them
  call,       \* the DNA of the running call, or None
  posting,    \* the call is committed and runs post_commit
  ops,        \* pendingCacheOps: a link is deleted after it is created, if both
  links,      \* the link cache, least recently used key first
  details,    \* the link details cache
  records,    \* the record cache, with its aliases
  published,  \* links and actions the DHT has seen
  back,       \* history: deleted links that the linker has sent since
  left        \* what remains of the bounds

vars == <<format, zome, disk, rows, call, posting, ops, links, details, records, published, back, left>>

NoRows == [links |-> {}, gone |-> {}, direct |-> {}, actions |-> {}]
NoRecords == [lru |-> <<>>, alias |-> [h \in Hashes |-> None]]

Init ==
  /\ format \in Formats /\ zome \in Zomes /\ disk = NoRows /\ rows = NoRows /\ call = None
  /\ posting = FALSE /\ ops = {}
  /\ links = <<>> /\ details = <<>> /\ records = NoRecords
  /\ published = [links |-> {}, actions |-> {}] /\ back = {}
  /\ left = [calls |-> MaxCalls, writes |-> MaxWrites, restarts |-> MaxRestarts]

(***************************************************************************)
(* The caches: a Map in insertion order is a sequence of keys and values   *)
(***************************************************************************)
Holds(c, k) == \E i \in DOMAIN c : c[i].key = k
Value(c, k) == (CHOOSE e \in Range(c) : e.key = k).value
Without(c, k) ==
  IF Holds(c, k) THEN RemoveAt(c, CHOOSE i \in DOMAIN c : c[i].key = k) ELSE c
Touch(c, k) ==
  IF Holds(c, k) THEN Append(Without(c, k), [key |-> k, value |-> Value(c, k)]) ELSE c
Put(c, k, v, max) ==
  LET more == Append(Without(c, k), [key |-> k, value |-> v])
  IN IF Len(more) > max THEN Tail(more) ELSE more
Each(c, F(_, _)) == [i \in DOMAIN c |-> [c[i] EXCEPT !.value = F(c[i].key, c[i].value)]]

OwnCopy(l) == [link |-> l, hash |-> "own"]
Matches(l, k) == k = "all" \/ TypeOf[l] = k

(* mergeLinkIntoCache and removeLinkFromCache, of all ops of a call: a     *)
(* created link joins the lists that are held, of its base and of its      *)
(* type; a deleted one leaves every list.                                  *)
Created(k) == {OwnCopy(op.link) : op \in {p \in ops : p.type = "create" /\ Matches(p.link, k)}}
Deleted == {OwnCopy(op.link) : op \in {p \in ops : p.type = "delete"}}

(* bug: the list of its type keeps the link *)
LinkListUntyped(k, list) ==
  IF k = "all" THEN (list \cup Created(k)) \ Deleted ELSE list \cup Created(k)

LinkList(k, list) == (list \cup Created(k)) \ Deleted

(* mergeLinkDetailIntoCache and addDeleteToLinkDetailsCache, the same.     *)
DetailList(k, list) ==
  LET known == list.live \cup (Created(k) \ list.dead)
  IN [live |-> known \ Deleted, dead |-> list.dead \cup (known \cap Deleted)]

(* The record cache: a record is found under the hash it was cached by     *)
(* and, by an alias, under its other one.                                  *)
Canonical(h) == IF records.alias[h] # None THEN records.alias[h] ELSE h
Cached(h) ==
  IF Holds(records.lru, Canonical(h)) THEN Value(records.lru, Canonical(h)) ELSE None

(* bug: the aliases of an evicted record stay *)
CacheRecordLeaks(h, a) ==
  LET other == IF h = a THEN EntryOf[a] ELSE a
  IN records' = [lru |-> Put(records.lru, h, a, MaxRecords),
                 alias |-> [records.alias EXCEPT ![other] = h]]

CacheRecord(h, a) ==
  LET other == IF h = a THEN EntryOf[a] ELSE a
      lru == Put(records.lru, h, a, MaxRecords)
      alias == [j \in Hashes |-> IF records.alias[j] = None \/ Holds(lru, records.alias[j])
                                 THEN records.alias[j] ELSE None]
  IN records' = [lru |-> lru, alias |-> [alias EXCEPT ![other] = h]]

(***************************************************************************)
(* Calls                                                                   *)
(***************************************************************************)
Reading == UNCHANGED <<format, zome, disk, rows, call, posting, ops, published, left>>

Begin(d) ==
  /\ call = None /\ left.calls > 0 /\ call' = d /\ left' = [left EXCEPT !.calls = @ - 1]
  /\ UNCHANGED <<format, zome, disk, rows, posting, ops, links, details, records, published, back>>

(* In post_commit there is no transaction: a write is in the store at once.*)
Wrote(r) ==
  /\ left.writes > 0 /\ left' = [left EXCEPT !.writes = @ - 1]
  /\ rows' = r /\ disk' = IF posting THEN r ELSE disk
  /\ UNCHANGED <<format, zome, call, posting, links, details, records, published, back>>

(* A called zome function queues what it does to the links.  One it calls  *)
(* in another zome has a copy of its context: the queue is the caller's if *)
(* the caller has one already, otherwise one of its own that nobody reads. *)
(* What post_commit queues comes too late.                                 *)
Queued(how, op) ==
  IF how = "zome" \/ (how = "nested" /\ ops # {}) THEN ops \cup {op} ELSE ops

Writes(how) == how \in Callers /\ (how = "post") = posting

CreateLink(l, how) ==
  /\ call = DnaOf[l] /\ zome = "links" /\ Writes(how) /\ l \in Own \ rows.links
  /\ Wrote([rows EXCEPT !.links = @ \cup {l}])
  /\ ops' = Queued(how, [type |-> "create", link |-> l])

DeleteLink(l, how) ==
  /\ call = DnaOf[l] /\ Writes(how) /\ l \in rows.links
  /\ Wrote([rows EXCEPT !.gone = @ \cup {l}, !.direct = IF how = "zome" THEN @ \cup {l} ELSE @])
  /\ ops' = Queued(how, [type |-> "delete", link |-> l])

Create(a) ==
  /\ call # None /\ zome = "records" /\ a \in Mine \ rows.actions
  /\ Wrote([rows EXCEPT !.actions = @ \cup {a}]) /\ UNCHANGED ops

(* The transaction is committed, then the operations on the caches are     *)
(* applied, then post_commit may run: if the zomes have one, and the call, *)
(* or genesis before it, has made records.                                 *)
Commit ==
  /\ call # None /\ ~posting /\ disk' = rows /\ ops' = {}
  /\ \/ call' = None /\ UNCHANGED posting
     \/ "post" \in Callers /\ posting' = TRUE /\ UNCHANGED call
  /\ links' = Each(links, LinkList) /\ details' = Each(details, DetailList)
  /\ UNCHANGED <<format, zome, rows, records, published, back, left>>

(* post_commit ends; if it fails, its writes stay.                         *)
EndPost ==
  /\ posting /\ posting' = FALSE /\ call' = None
  /\ UNCHANGED <<format, zome, disk, rows, ops, links, details, records, published, back, left>>

Rollback ==
  /\ call # None /\ ~posting /\ call' = None /\ rows' = disk /\ ops' = {}
  /\ UNCHANGED <<format, zome, disk, posting, links, details, records, published, back, left>>

(***************************************************************************)
(* Reads                                                                   *)
(***************************************************************************)
(* Answers of the linker about the links of a key, None if it was not      *)
(* asked (strategy Local, no linker) or gave an error.  A timeout, a 404   *)
(* and an answer that cannot be parsed count as no links at all.           *)
Answers(k) ==
  {None} \cup
  {{[link |-> l, hash |-> IF format = "links" THEN "own" ELSE "surrogate"] : l \in some} :
     some \in SUBSET {l \in published.links : DnaOf[l] = call /\ Matches(l, k)}}

LocalCopies(k) == {OwnCopy(l) : l \in {m \in rows.links \ rows.gone : DnaOf[m] = call /\ Matches(m, k)}}
ListHeld(k) == IF Holds(links, k) THEN Value(links, k) ELSE {}
DetailsHeld(k) == IF Holds(details, k) THEN Value(details, k) ELSE [live |-> {}, dead |-> {}]

(* fetchLinks                                                              *)
Fetched(k, answer) ==
  IF answer # None THEN answer \cup LocalCopies(k)
  ELSE LocalCopies(k) \cup ListHeld(k) \cup DetailsHeld(k).live

FetchLinks(k, answer) ==
  links' = IF answer # None THEN Put(links, k, answer, MaxLinkKeys) ELSE Touch(links, k)

(* The linker has sent links this agent had deleted.                       *)
Returned(answer) ==
  back' = IF answer = None THEN back
          ELSE back \cup {l \in disk.gone : \E c \in answer : c.link = l}

(* get_links, count_links                                                  *)
GetLinks(k, answer) ==
  /\ call # None /\ zome = "links" /\ FetchLinks(k, answer) /\ Returned(answer)
  /\ details' = IF answer = None THEN Touch(details, k) ELSE details
  /\ UNCHANGED records /\ Reading

(* get_links_details: what was fetched and what the details cache holds,   *)
(* with the deletes known of either; the cache keeps both.                 *)
(* bug: creates that the linker no longer sends are forgotten *)
MergedFetched(k, answer) ==
  LET found == Fetched(k, answer)
  IN [live |-> found \ DetailsHeld(k).dead, dead |-> found \cap DetailsHeld(k).dead]

Merged(k, answer) ==
  [live |-> (Fetched(k, answer) \ DetailsHeld(k).dead) \cup DetailsHeld(k).live,
   dead |-> DetailsHeld(k).dead]

GetLinksDetails(k, answer) ==
  /\ call # None /\ zome = "links" /\ FetchLinks(k, answer) /\ Returned(answer)
  /\ details' = Put(details, k, Merged(k, answer), MaxLinkKeys)
  /\ UNCHANGED records /\ Reading

(* get, must_get_*: by action or entry hash, the agent's own rows first,   *)
(* then the cache, then the linker, whose answer, if it has one, is cached *)
(* under the hash asked for.                                               *)
LocalRecord(h) == \E a \in rows.actions : h \in {a, EntryOf[a]}
GetCached(h) ==
  /\ call # None /\ zome = "records" /\ ~LocalRecord(h) /\ Cached(h) # None
  /\ records' = [records EXCEPT !.lru = Touch(@, Canonical(h))]
  /\ UNCHANGED <<links, details, back>> /\ Reading

GetFromLinker(h, a) ==
  /\ call # None /\ zome = "records" /\ ~LocalRecord(h) /\ Cached(h) = None
  /\ a \in published.actions /\ h \in {a, EntryOf[a]} /\ CacheRecord(h, a)
  /\ UNCHANGED <<links, details, back>> /\ Reading

(***************************************************************************)
(* The DHT and the browser                                                 *)
(***************************************************************************)
(* Other agents publish at any time, this one what it has committed.       *)
Publish ==
  /\ \/ \E l \in Links \ published.links :
          /\ zome = "links" /\ (l \in Own => l \in disk.links)
          /\ published' = [published EXCEPT !.links = @ \cup {l}]
     \/ \E a \in Actions \ published.actions :
          /\ zome = "records" /\ (a \in Mine => a \in disk.actions)
          /\ published' = [published EXCEPT !.actions = @ \cup {a}]
  /\ UNCHANGED <<format, zome, disk, rows, call, posting, ops, links, details, records, back, left>>

(* The worker ends with its document: the transaction is rolled back by    *)
(* the next connection, and the caches were in memory.                     *)
Restart ==
  /\ left.restarts > 0 /\ left' = [left EXCEPT !.restarts = @ - 1]
  /\ call' = None /\ posting' = FALSE /\ rows' = disk /\ ops' = {}
  /\ links' = <<>> /\ details' = <<>> /\ records' = NoRecords
  /\ UNCHANGED <<format, zome, disk, published, back>>

Next ==
  \/ \E d \in Dnas : Begin(d)
  \/ \E l \in Links, how \in Callers : CreateLink(l, how) \/ DeleteLink(l, how)
  \/ \E a \in Actions : Create(a)
  \/ Commit \/ EndPost \/ Rollback
  \/ \E k \in Keys : \E answer \in Answers(k) : GetLinks(k, answer) \/ GetLinksDetails(k, answer)
  \/ \E h \in Hashes : GetCached(h) \/ \E a \in Actions : GetFromLinker(h, a)
  \/ Publish \/ Restart

Spec == Init /\ [][Next]_vars

(***************************************************************************)
(* Properties                                                              *)
(***************************************************************************)
Copies == [link : Links, hash : {"own", "surrogate"}]
Rows == [links : SUBSET Links, gone : SUBSET Links, direct : SUBSET Links, actions : SUBSET Actions]
CachedList == [key : Keys, value : SUBSET Copies]
CachedDetails == [key : Keys, value : [live : SUBSET Copies, dead : SUBSET Copies]]
CachedRecord == [key : Hashes, value : Actions]

(* The types of the variables (NetworkCache, PendingCacheOp).              *)
TypeOK ==
  /\ format \in Formats /\ zome \in Zomes /\ disk \in Rows /\ rows \in Rows
  /\ call \in Dnas \cup {None} /\ posting \in BOOLEAN /\ ops \subseteq [type : {"create", "delete"}, link : Links]
  /\ links \in Seq(CachedList) /\ details \in Seq(CachedDetails)
  /\ records \in [lru : Seq(CachedRecord), alias : [Hashes -> Hashes \cup {None}]]
  /\ published \in [links : SUBSET Links, actions : SUBSET Actions] /\ back \subseteq Links
  /\ left \in [calls : 0..MaxCalls, writes : 0..MaxWrites, restarts : 0..MaxRestarts]

(* What the called zome function itself has deleted is queued for the      *)
(* caches; a call creates no link that is in the rows; what post_commit    *)
(* writes is in the store.                                                 *)
CallInv ==
  /\ disk.gone \subseteq rows.gone /\ disk.links \subseteq rows.links
  /\ disk.direct \subseteq rows.direct /\ rows.direct \subseteq rows.gone /\ disk.direct \subseteq disk.gone
  /\ rows.gone \subseteq rows.links /\ disk.gone \subseteq disk.links
  /\ posting => rows = disk /\ ops = {}
  /\ \A l \in rows.direct \ disk.direct : [type |-> "delete", link |-> l] \in ops
  /\ \A op \in ops : op.type = "create" => op.link \notin disk.links

(* A key is held once.                                                     *)
Unique(c) == \A i, j \in DOMAIN c : c[i].key = c[j].key => i = j

(* A record and its alias are found under the hashes the record has.       *)
Names(a) == {a, EntryOf[a]}
RecordsInv ==
  /\ \A i \in DOMAIN records.lru : records.lru[i].key \in Names(records.lru[i].value)
  /\ \A h \in Hashes : records.alias[h] # None =>
       \E i \in DOMAIN records.lru :
         records.lru[i].key = records.alias[h] /\ h \in Names(records.lru[i].value)

CachesInv == Unique(links) /\ Unique(details) /\ Unique(records.lru) /\ RecordsInv

HeldOf(l) ==
  \/ \E i \in DOMAIN links : OwnCopy(l) \in links[i].value
  \/ \E i \in DOMAIN details : OwnCopy(l) \in details[i].value.live

(* A link that a called zome function has deleted itself, and whose        *)
(* deletion is committed, does not come back from the caches: with the     *)
(* linker unreachable, get_links does not return it unless the linker      *)
(* itself has sent it since.  This needs hashes in the linker's answers.   *)
DeletedStaysHidden == format = "links" => \A l \in disk.direct \ back : ~HeldOf(l)

(* The same of every deletion that is committed: "Queue optimistic cache   *)
(* remove -- applied after transaction commits successfully"               *)
(* (delete_link.ts).  It is not kept for a zome function called by another *)
(* one, nor for post_commit: what they queue is lost.                      *)
CommittedDeletesHidden == format = "links" => \A l \in disk.gone \ back : ~HeldOf(l)

(* "Monotonically growing, safe to cache forever": the details held of a   *)
(* base lose neither a create nor a delete.                                *)
LinkDetailsGrow ==
  [][\A k \in Keys : Holds(details, k) /\ Holds(details', k) =>
       LET old == Value(details, k)
           new == Value(details', k)
       IN old.dead \subseteq new.dead /\ old.live \subseteq new.live \cup new.dead]_vars

(* A record in the cache is found under the hash it was cached by, and     *)
(* whatever is found has the hash asked for: no alias hides or swaps one.  *)
RecordsFound ==
  /\ \A i \in DOMAIN records.lru : Cached(records.lru[i].key) # None
  /\ \A h \in Hashes : Cached(h) # None => h \in {Cached(h), EntryOf[Cached(h)]}

(* "Optimistic cache merge -- applied after transaction commits            *)
(* successfully": between calls, the caches hold links that exist.         *)
UncommittedHidden ==
  call = None =>
    /\ \A i \in DOMAIN links : \A c \in links[i].value : c.link \in disk.links \cup published.links
    /\ \A i \in DOMAIN details : \A c \in details[i].value.live :
         c.link \in disk.links \cup published.links

(* What get_links or get_links_details would return now: no link twice, and *)
(* none of another DNA.                                                    *)
EachLinkOnce ==
  call # None => \A k \in Keys : \A answer \in Answers(k) : \A c, d \in Fetched(k, answer) :
    c.link = d.link => c = d
LinksOfOwnDna ==
  call # None => \A k \in Keys : \A answer \in Answers(k) :
    \A c \in Fetched(k, answer) \cup Merged(k, answer).live : DnaOf[c.link] = call
=============================================================================
