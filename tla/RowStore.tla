------------------------------ MODULE RowStore ------------------------------
(***************************************************************************)
(* What a storage provider promises: rows of actions, entries, links and   *)
(* chain heads, read by the host functions of a call as the call has left  *)
(* them, and committed or taken back as a whole.  This is the worker's own *)
(* DirectSQLiteStorage, one connection to one database.                    *)
(***************************************************************************)
EXTENDS ChainActions

VARIABLES
  rows,    \* what a statement on the connection sees
  saved    \* the committed rows while a transaction is open, or None

storeVars == <<rows, saved>>

NoRows == [act |-> <<>>, entry |-> <<>>, link |-> <<>>, head |-> [c \in Cells |-> None]]

StoreInit == rows = NoRows /\ saved = None

(***************************************************************************)
(* The statements that write                                               *)
(***************************************************************************)
(* INSERT OR REPLACE: the unique index on cell and sequence number takes   *)
(* away the row it collides with.                                          *)
putAction(r, a, n, z) ==
  LET Collides(b) == b = a \/ (About[b].cell = About[a].cell /\ r.act[b].seq = n)
  IN [r EXCEPT !.act = Upsert(Restrict(r.act, {b \in DOMAIN r.act : ~Collides(b)}), a, Row(n, z))]

(* One row per entry hash, whichever cell wrote it last.                   *)
putEntry(r, e, c) == [r EXCEPT !.entry = Upsert(@, e, c)]

(* A link is live while nothing has deleted it.                            *)
putLink(r, a) == [r EXCEPT !.link = Upsert(@, a, None)]
deleteLink(r, a, d) == IF a \in DOMAIN r.link THEN [r EXCEPT !.link[a] = d] ELSE r

updateChainHead(r, c, n, a) == [r EXCEPT !.head[c] = [seq |-> n, act |-> a]]

(***************************************************************************)
(* The queries                                                             *)
(***************************************************************************)
OfCell(r, c) == {a \in DOMAIN r.act : About[a].cell = c}
queryActions(r, c) == SetToSortSeq(OfCell(r, c), LAMBDA a, b : r.act[a].seq < r.act[b].seq)

WithEntry(r, e) == {a \in DOMAIN r.act : About[a].entry = e}
getActionByEntryHash(r, e) ==
  IF WithEntry(r, e) = {} THEN None
  ELSE CHOOSE a \in WithEntry(r, e) : \A b \in WithEntry(r, e) : r.act[a].seq <= r.act[b].seq

UpdatesOf(r, e, c) == {a \in OfCell(r, c) : About[a].type = "Update" /\ OriginalEntry(a) = e}
DeletesOf(r, e, c) == {a \in OfCell(r, c) : About[a].type = "Delete" /\ OriginalEntry(a) = e}

getEntryDetails(r, e, c) ==
  IF e \notin DOMAIN r.entry THEN None
  ELSE [actions |-> WithEntry(r, e) \cap OfCell(r, c),
        updates |-> UpdatesOf(r, e, c), deletes |-> DeletesOf(r, e, c)]

(* The details of the record that made the entry: of which one, the first  *)
(* row decides.                                                            *)
getDetails(r, e, c) ==
  IF e \notin DOMAIN r.entry \/ WithEntry(r, e) \cap OfCell(r, c) = {} THEN None
  ELSE [updates |-> UpdatesOf(r, e, c), deletes |-> DeletesOf(r, e, c)]

getLinks(r, b, c) == {a \in DOMAIN r.link : About[a].cell = c /\ Base(a) = b /\ r.link[a] = None}

(***************************************************************************)
(* The host functions that write, in the order of their statements         *)
(***************************************************************************)
NextSeq(head) == IF head = None THEN 3 ELSE head.seq + 1

(* update, delete and delete_link look their original up; an action is     *)
(* written once: its hash covers its time and its place in the chain.      *)
Writable(known, a) ==
  /\ About[a].type \in AppTypes /\ a \notin known
  /\ About[a].original # None => About[a].original \in known

Write(r, a, z) ==
  LET c == About[a].cell
      n == NextSeq(r.head[c])
      content == IF isEntryAction(a) THEN putEntry(r, About[a].entry, c) ELSE r
      acted == putAction(content, a, n, z)
      linked == CASE About[a].type = "CreateLink" -> putLink(acted, a)
                  [] About[a].type = "DeleteLink" -> deleteLink(acted, About[a].original, a)
                  [] OTHER -> acted
  IN updateChainHead(linked, c, n, a)

(* initializeGenesis: its actions are put one by one, numbered from 0, and *)
(* the chain head follows the last of them.                                *)
Found(r, c) ==
  LET founding == Range(Genesis[c])
      n == Len(Genesis[c])
      Nth(a) == CHOOSE i \in 1..n : Genesis[c][i] = a
      kept == {b \in DOMAIN r.act : About[b].cell = c => r.act[b].seq >= n}
      acted == [a \in founding |-> Row(Nth(a) - 1, About[a].zome)]
      content == [e \in {About[a].entry : a \in founding} \ {None} |-> c]
  IN updateChainHead([r EXCEPT !.act = Overlay(acted, Restrict(@, kept)), !.entry = Overlay(content, @)],
                     c, n - 1, Genesis[c][n])

(***************************************************************************)
(* Steps                                                                   *)
(***************************************************************************)
beginTransaction == saved = None /\ saved' = rows /\ UNCHANGED rows
commitTransaction == saved # None /\ saved' = None /\ UNCHANGED rows
rollbackTransaction == saved # None /\ rows' = saved /\ saved' = None

WriteAction(a) ==
  /\ saved # None /\ rows.head[About[a].cell] # None /\ Writable(DOMAIN rows.act, a)
  /\ \E running \in Zomes \cup {None} : rows' = Write(rows, a, RecordedZome(a, running))
  /\ UNCHANGED saved

FoundChain(c) == saved = None /\ rows.head[c] = None /\ rows' = Found(rows, c) /\ UNCHANGED saved

clear == saved = None /\ rows' = NoRows /\ UNCHANGED saved

StoreNext ==
  \/ beginTransaction \/ commitTransaction \/ rollbackTransaction \/ clear
  \/ \E a \in Acts : WriteAction(a)
  \/ \E c \in Cells : FoundChain(c)

StoreSpec == StoreInit /\ [][StoreNext]_storeVars

(***************************************************************************)
(* What the statements keep true of the rows                               *)
(***************************************************************************)
(* A chain is numbered without doubles up to its head, starts with its     *)
(* genesis, and a cell without a head has no rows.                         *)
ChainRows(r) ==
  /\ \A a \in DOMAIN r.act :
       r.head[About[a].cell] # None /\ r.act[a].seq <= r.head[About[a].cell].seq
  /\ \A a, b \in DOMAIN r.act : About[a].cell = About[b].cell /\ r.act[a].seq = r.act[b].seq => a = b
  /\ \A c \in Cells : r.head[c] # None =>
       /\ Range(Genesis[c]) \subseteq DOMAIN r.act
       /\ r.head[c].act \in OfCell(r, c) /\ r.act[r.head[c].act].seq = r.head[c].seq

(* An action's entry and its original are there.                           *)
ClosedRows(r) ==
  \A a \in DOMAIN r.act :
    /\ isEntryAction(a) => About[a].entry \in DOMAIN r.entry
    /\ About[a].original # None => About[a].original \in DOMAIN r.act

(* The links are those of the actions, dead if one of the actions says so. *)
LinkRows(r) ==
  /\ DOMAIN r.link = {a \in DOMAIN r.act : About[a].type = "CreateLink"}
  /\ \A l \in DOMAIN r.link :
       r.link[l] = None <=> \A x \in DOMAIN r.act : About[x].type = "DeleteLink" => About[x].original # l

RowsInv(r) == r \in Contents /\ ChainRows(r) /\ ClosedRows(r) /\ LinkRows(r)
=============================================================================
