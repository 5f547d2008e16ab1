--------------------------- MODULE StorageProofs ---------------------------
(***************************************************************************)
(* For any cells, actions, entries, zomes and calls of Storage.  Of calls  *)
(* over the row store: what was published agrees with the author's rows,   *)
(* was validated in the zomes it belongs to, and brings the chain back to  *)
(* a device that lost it.  Of calls over the cached store: it implements   *)
(* the row store, and its cache answers as that does.                      *)
(***************************************************************************)
EXTENDS Storage, SequenceTheorems, FiniteSetTheorems, TLAPS

(***************************************************************************)
(* Tables                                                                  *)
(***************************************************************************)
(* A table is a function on some of the keys.                              *)
LEMMA TableFacts ==
  ASSUME NEW D, NEW V, NEW f
  PROVE  f \in Tables(D, V) <=>
           /\ f = [x \in DOMAIN f |-> f[x]] /\ DOMAIN f \subseteq D
           /\ \A x \in DOMAIN f : f[x] \in V
<1>1. ASSUME f \in Tables(D, V)
      PROVE  /\ f = [x \in DOMAIN f |-> f[x]] /\ DOMAIN f \subseteq D
             /\ \A x \in DOMAIN f : f[x] \in V
  BY <1>1 DEF Tables
<1>2. ASSUME f = [x \in DOMAIN f |-> f[x]], DOMAIN f \subseteq D, \A x \in DOMAIN f : f[x] \in V
      PROVE  f \in Tables(D, V)
  <2>1. f \in [DOMAIN f -> V]
    BY <1>2
  <2>. QED BY <1>2, <2>1 DEF Tables
<1>. QED BY <1>1, <1>2

(* INSERT OR REPLACE of one row.                                           *)
LEMMA UpsertType ==
  ASSUME NEW D, NEW V, NEW f \in Tables(D, V), NEW k \in D, NEW v \in V
  PROVE  Upsert(f, k, v) \in Tables(D, V)
<1>1. DOMAIN f \subseteq D /\ \A x \in DOMAIN f : f[x] \in V
  BY TableFacts
<1>. QED BY <1>1, TableFacts DEF Upsert

(* One table over another.                                                 *)
LEMMA OverlayType ==
  ASSUME NEW D, NEW V, NEW f \in Tables(D, V), NEW g \in Tables(D, V)
  PROVE  Overlay(f, g) \in Tables(D, V)
<1>1. DOMAIN f \cup DOMAIN g \subseteq D /\ (\A x \in DOMAIN f : f[x] \in V) /\ \A x \in DOMAIN g : g[x] \in V
  BY TableFacts
<1>. QED BY <1>1, TableFacts DEF Overlay

(* Some rows of a table.                                                   *)
LEMMA RestrictType ==
  ASSUME NEW D, NEW V, NEW f \in Tables(D, V), NEW S \in SUBSET DOMAIN f
  PROVE  Restrict(f, S) \in Tables(D, V)
<1>1. DOMAIN f \subseteq D /\ (\A x \in DOMAIN f : f[x] \in V)
  BY TableFacts
<1>. QED BY <1>1, TableFacts DEF Restrict

(***************************************************************************)
(* The row store: what a host function and genesis write                   *)
(***************************************************************************)
RowType == [seq : Nat, zome : Zomes \cup {None}]
HeadType == [seq : Nat, act : Acts]

(* A content is four tables.                                               *)
LEMMA ContentFacts ==
  ASSUME NEW r
  PROVE  r \in Contents <=>
           /\ r = [act |-> r.act, entry |-> r.entry, link |-> r.link, head |-> r.head]
           /\ r.act \in Tables(Acts, RowType) /\ r.entry \in Tables(Entries, Cells)
           /\ r.link \in Tables(Acts, Acts \cup {None}) /\ r.head \in [Cells -> HeadType \cup {None}]
BY DEF Contents, RowType, HeadType

(* What the rows, entries, links and heads of a content are.               *)
LEMMA RowFacts ==
  ASSUME NEW r \in Contents
  PROVE  /\ \A a \in DOMAIN r.act : a \in Acts /\ r.act[a] \in RowType /\ r.act[a].seq \in Nat
         /\ \A e \in DOMAIN r.entry : e \in Entries /\ r.entry[e] \in Cells
         /\ \A l \in DOMAIN r.link : l \in Acts /\ r.link[l] \in Acts \cup {None}
         /\ \A c \in Cells : r.head[c] # None => r.head[c] \in HeadType /\ r.head[c].seq \in Nat /\ r.head[c].act \in Acts
<1>1. \A a \in DOMAIN r.act : a \in Acts /\ r.act[a] \in RowType
  BY ContentFacts, TableFacts
<1>2. \A e \in DOMAIN r.entry : e \in Entries /\ r.entry[e] \in Cells
  BY ContentFacts, TableFacts
<1>3. \A l \in DOMAIN r.link : l \in Acts /\ r.link[l] \in Acts \cup {None}
  BY ContentFacts, TableFacts
<1>4. \A c \in Cells : r.head[c] # None => r.head[c] \in HeadType
  BY ContentFacts
<1>. QED BY <1>1, <1>2, <1>3, <1>4 DEF RowType, HeadType

(* What About says of any action (ChainActionsAssumption).                 *)
LEMMA AboutFacts ==
  ASSUME NEW a \in Acts
  PROVE  /\ About[a].cell \in Cells /\ About[a].type \in GenesisTypes \cup AppTypes
         /\ isEntryAction(a) => About[a].entry \in Entries
         /\ ~isEntryAction(a) => About[a].entry = None
         /\ About[a].type \in {"Update", "Delete", "DeleteLink"} => About[a].original \in Acts
         /\ About[a].type \notin {"Update", "Delete", "DeleteLink"} => About[a].original = None
         /\ About[a].type = "DeleteLink" => About[About[a].original].type = "CreateLink"
         /\ About[a].zome \in Zomes \cup {None}
BY ChainActionsAssumption DEF isEntryAction

(* A row that collides with no other is put beside them.                   *)
LEMMA PutFresh ==
  ASSUME NEW r, NEW a, NEW n, NEW z, r.act \in Tables(Acts, RowType), a \notin DOMAIN r.act,
         \A b \in DOMAIN r.act : About[b].cell = About[a].cell => r.act[b].seq # n
  PROVE  putAction(r, a, n, z) = [r EXCEPT !.act = Upsert(r.act, a, Row(n, z))]
<1>. DEFINE kept == {b \in DOMAIN r.act : ~(b = a \/ (About[b].cell = About[a].cell /\ r.act[b].seq = n))}
<1>1. kept = DOMAIN r.act
  OBVIOUS
<1>2. Restrict(r.act, kept) = r.act
  BY <1>1, TableFacts DEF Restrict
<1>3. putAction(r, a, n, z) = [r EXCEPT !.act = Upsert(Restrict(r.act, kept), a, Row(n, z))]
  BY DEF putAction
<1>. QED BY <1>2, <1>3

(* The content after a write, said at once.                                *)
WrittenLinks(r, a) ==
  IF About[a].type = "CreateLink" THEN Upsert(r.link, a, None)
  ELSE IF About[a].type = "DeleteLink" /\ About[a].original \in DOMAIN r.link
  THEN [r.link EXCEPT ![About[a].original] = a] ELSE r.link
Written(r, a, z) ==
  LET c == About[a].cell
      n == r.head[c].seq + 1
  IN [act |-> Upsert(r.act, a, Row(n, z)),
      entry |-> IF isEntryAction(a) THEN Upsert(r.entry, About[a].entry, c) ELSE r.entry,
      link |-> WrittenLinks(r, a), head |-> [r.head EXCEPT ![c] = [seq |-> n, act |-> a]]]

(* No row collides with the next of its chain.                             *)
LEMMA WriteIsWritten ==
  ASSUME NEW r, RowsInv(r), NEW a \in Acts, NEW z, a \notin DOMAIN r.act, r.head[About[a].cell] # None
  PROVE  Write(r, a, z) = Written(r, a, z)
<1>. DEFINE c == About[a].cell
            n == r.head[c].seq + 1
            content == IF isEntryAction(a) THEN putEntry(r, About[a].entry, c) ELSE r
            acted == putAction(content, a, n, z)
            linked == CASE About[a].type = "CreateLink" -> putLink(acted, a)
                  [] About[a].type = "DeleteLink" -> deleteLink(acted, About[a].original, a)
                  [] OTHER -> acted
<1>1. r \in Contents /\ ChainRows(r)
  BY DEF RowsInv
<1>2. r.head[c] \in HeadType /\ n \in Nat /\ NextSeq(r.head[c]) = n
  BY <1>1, ContentFacts, AboutFacts DEF NextSeq, HeadType
<1>3. r = [act |-> r.act, entry |-> r.entry, link |-> r.link, head |-> r.head]
  BY <1>1, ContentFacts
<1>4. content = [act |-> r.act, entry |-> IF isEntryAction(a) THEN Upsert(r.entry, About[a].entry, c) ELSE r.entry,
                 link |-> r.link, head |-> r.head]
  BY <1>3 DEF putEntry
<1>5. \A b \in DOMAIN r.act : About[b].cell = About[a].cell => r.act[b].seq # n
  BY <1>1, <1>2, RowFacts DEF ChainRows, HeadType
<1>6. content.act = r.act /\ r.act \in Tables(Acts, RowType)
  BY <1>1, <1>4, ContentFacts
<1>7. acted = [act |-> Upsert(r.act, a, Row(n, z)),
               entry |-> IF isEntryAction(a) THEN Upsert(r.entry, About[a].entry, c) ELSE r.entry,
               link |-> r.link, head |-> r.head]
  <2>. HIDE DEF content
  <2>1. acted = [content EXCEPT !.act = Upsert(r.act, a, Row(n, z))]
    BY <1>5, <1>6, PutFresh
  <2>. QED BY <1>4, <2>1
<1>8. linked = [act |-> Upsert(r.act, a, Row(n, z)),
                entry |-> IF isEntryAction(a) THEN Upsert(r.entry, About[a].entry, c) ELSE r.entry,
                link |-> WrittenLinks(r, a), head |-> r.head]
  <2>. HIDE DEF acted
  <2>1. CASE About[a].type = "CreateLink"
    BY <1>7, <2>1 DEF putLink, WrittenLinks
  <2>2. CASE About[a].type = "DeleteLink"
    BY <1>7, <2>2 DEF deleteLink, WrittenLinks
  <2>3. CASE About[a].type \notin {"CreateLink", "DeleteLink"}
    BY <1>7, <2>3 DEF WrittenLinks
  <2>. QED BY <2>1, <2>2, <2>3
<1>9. Write(r, a, z) = updateChainHead(linked, c, n, a)
  BY <1>2 DEF Write
<1>. HIDE DEF linked
<1>. QED BY <1>8, <1>9 DEF updateChainHead, Written

(* The links after a write are a table still.                              *)
LEMMA WrittenLinksType ==
  ASSUME NEW r, NEW a \in Acts, r.link \in Tables(Acts, Acts \cup {None})
  PROVE  WrittenLinks(r, a) \in Tables(Acts, Acts \cup {None})
<1>. DEFINE w == WrittenLinks(r, a)
<1>1. CASE About[a].type = "CreateLink"
  BY <1>1, UpsertType DEF WrittenLinks
<1>2. CASE About[a].type # "CreateLink" /\ About[a].type = "DeleteLink" /\ About[a].original \in DOMAIN r.link
  <2>1. w = [r.link EXCEPT ![About[a].original] = a]
    BY <1>2 DEF WrittenLinks
  <2>2. r.link = [x \in DOMAIN r.link |-> r.link[x]] /\ DOMAIN r.link \subseteq Acts
        /\ \A x \in DOMAIN r.link : r.link[x] \in Acts \cup {None}
    BY TableFacts
  <2>. HIDE DEF w
  <2>3. w = [x \in DOMAIN w |-> w[x]] /\ DOMAIN w = DOMAIN r.link /\ \A x \in DOMAIN w : w[x] \in Acts \cup {None}
    BY <2>1, <2>2
  <2>4. w \in Tables(Acts, Acts \cup {None})
    BY <2>2, <2>3, TableFacts
  <2>. QED BY <2>4 DEF w
<1>3. CASE w = r.link
  BY <1>3
<1>. QED BY <1>1, <1>2, <1>3 DEF WrittenLinks

(* What a write does to the parts of a content.                            *)
LEMMA WrittenParts ==
  ASSUME NEW r \in Contents, NEW a \in Acts, NEW z \in Zomes \cup {None},
         a \notin DOMAIN r.act, r.head[About[a].cell] # None,
         NEW w, w = Written(r, a, z), NEW n, n = r.head[About[a].cell].seq + 1
  PROVE  /\ w \in Contents /\ n \in Nat
         /\ DOMAIN w.act = DOMAIN r.act \cup {a} /\ w.act[a] = Row(n, z)
         /\ \A b \in DOMAIN r.act : w.act[b] = r.act[b]
         /\ DOMAIN w.entry = DOMAIN r.entry \cup (IF isEntryAction(a) THEN {About[a].entry} ELSE {})
         /\ w.link = WrittenLinks(r, a)
         /\ w.head[About[a].cell] = [seq |-> n, act |-> a]
         /\ \A d \in Cells : d # About[a].cell => w.head[d] = r.head[d]
<1>. DEFINE c == About[a].cell
<1>2. c \in Cells /\ n \in Nat
  BY RowFacts, AboutFacts
<1>3. Row(n, z) \in RowType /\ [seq |-> n, act |-> a] \in HeadType
  BY <1>2 DEF Row, RowType, HeadType
<1>4. w.act = Upsert(r.act, a, Row(n, z)) /\ w.link = WrittenLinks(r, a)
      /\ w.entry = (IF isEntryAction(a) THEN Upsert(r.entry, About[a].entry, c) ELSE r.entry)
      /\ w.head = [r.head EXCEPT ![c] = [seq |-> n, act |-> a]]
      /\ w = [act |-> w.act, entry |-> w.entry, link |-> w.link, head |-> w.head]
  BY DEF Written
<1>5. w.act \in Tables(Acts, RowType)
  BY <1>3, <1>4, UpsertType, ContentFacts
<1>6. w.entry \in Tables(Entries, Cells)
  <2>1. r.entry \in Tables(Entries, Cells)
    BY ContentFacts
  <2>2. CASE isEntryAction(a)
    <3>1. About[a].entry \in Entries
      BY <2>2, AboutFacts
    <3>. QED BY <1>2, <1>4, <2>1, <2>2, <3>1, UpsertType
  <2>3. CASE ~isEntryAction(a)
    BY <1>4, <2>1, <2>3
  <2>. QED BY <2>2, <2>3
<1>7. w.link \in Tables(Acts, Acts \cup {None})
  <2>1. r.link \in Tables(Acts, Acts \cup {None})
    BY ContentFacts
  <2>. QED BY <1>4, <2>1, WrittenLinksType
<1>8. w.head \in [Cells -> HeadType \cup {None}] /\ w.head[c] = [seq |-> n, act |-> a]
      /\ \A d \in Cells : d # c => w.head[d] = r.head[d]
  BY <1>2, <1>3, <1>4, ContentFacts
<1>9. w \in Contents
  BY <1>4, <1>5, <1>6, <1>7, <1>8, ContentFacts
<1>10. DOMAIN w.act = DOMAIN r.act \cup {a} /\ w.act[a] = Row(n, z)
  BY <1>4 DEF Upsert
<1>11. \A b \in DOMAIN r.act : w.act[b] = r.act[b]
  BY <1>4 DEF Upsert
<1>12. DOMAIN w.entry = DOMAIN r.entry \cup (IF isEntryAction(a) THEN {About[a].entry} ELSE {})
  BY <1>4 DEF Upsert
<1>. QED BY <1>2, <1>4, <1>8, <1>9, <1>10, <1>11, <1>12

(* The host functions keep the chains, the entries and the links in order. *)
LEMMA WriteKeepsRows ==
  ASSUME NEW r, RowsInv(r), NEW a \in Acts, NEW z \in Zomes \cup {None},
         Writable(DOMAIN r.act, a), r.head[About[a].cell] # None
  PROVE  RowsInv(Write(r, a, z)) /\ Write(r, a, z) = Written(r, a, z)
<1>. DEFINE w == Written(r, a, z)
            c == About[a].cell
            n == r.head[c].seq + 1
<1>1. r \in Contents /\ ChainRows(r) /\ ClosedRows(r) /\ LinkRows(r) /\ a \notin DOMAIN r.act
  BY DEF RowsInv, Writable
<1>2. Write(r, a, z) = w
  BY <1>1, WriteIsWritten
<1>3. c \in Cells /\ r.head[c].seq \in Nat
  BY <1>1, RowFacts, AboutFacts
<1>4. /\ w \in Contents
      /\ DOMAIN w.act = DOMAIN r.act \cup {a} /\ w.act[a] = Row(n, z) /\ n = r.head[c].seq + 1
      /\ \A b \in DOMAIN r.act : w.act[b] = r.act[b]
      /\ DOMAIN w.entry = DOMAIN r.entry \cup (IF isEntryAction(a) THEN {About[a].entry} ELSE {})
      /\ w.head[c] = [seq |-> n, act |-> a]
      /\ \A d \in Cells : d # c => w.head[d] = r.head[d]
      /\ w.link = WrittenLinks(r, a)
  <2>. HIDE DEF w, n
  <2>1. w = Written(r, a, z) /\ n = r.head[About[a].cell].seq + 1
    BY DEF w, n
  <2>. QED BY <1>1, <2>1, WrittenParts
<1>. HIDE DEF w
<1>5. [seq |-> n, act |-> a] # None
  BY <1>3, NoneAssumption
<1>6. \A b \in DOMAIN r.act : b \in Acts /\ r.act[b].seq \in Nat /\ About[b].cell \in Cells
  BY <1>1, RowFacts, AboutFacts
<1>7. ChainRows(w)
  <2>1. w.act[a].seq = n
    BY <1>4 DEF Row
  <2>2. ASSUME NEW b \in DOMAIN w.act
        PROVE  w.head[About[b].cell] # None /\ w.act[b].seq <= w.head[About[b].cell].seq
    <3>1. CASE b = a
      BY <1>3, <1>4, <1>5, <2>1, <3>1
    <3>2. CASE b # a
      <4>1. b \in DOMAIN r.act /\ w.act[b] = r.act[b]
        BY <1>4, <3>2
      <4>2. r.head[About[b].cell] # None /\ r.act[b].seq <= r.head[About[b].cell].seq /\ About[b].cell \in Cells
        BY <1>1, <1>6, <4>1 DEF ChainRows
      <4>. QED BY <1>3, <1>4, <1>5, <1>6, <4>1, <4>2
    <3>. QED BY <3>1, <3>2
  <2>3. ASSUME NEW b \in DOMAIN w.act, NEW d \in DOMAIN w.act,
               About[b].cell = About[d].cell, w.act[b].seq = w.act[d].seq
        PROVE  b = d
    <3>1. ASSUME NEW e \in DOMAIN r.act, About[e].cell = c PROVE w.act[e].seq # n
      BY <1>1, <1>3, <1>4, <1>6, <3>1 DEF ChainRows
    <3>2. CASE b # a /\ d # a
      BY <1>1, <1>4, <2>3, <3>2 DEF ChainRows
    <3>. QED BY <1>4, <2>1, <2>3, <3>1, <3>2
  <2>4. ASSUME NEW d \in Cells, w.head[d] # None
        PROVE  /\ Range(Genesis[d]) \subseteq DOMAIN w.act
               /\ w.head[d].act \in OfCell(w, d) /\ w.act[w.head[d].act].seq = w.head[d].seq
    <3>1. CASE d = c
      BY <1>1, <1>3, <1>4, <2>1, <3>1 DEF ChainRows, OfCell
    <3>2. CASE d # c
      BY <1>1, <1>4, <2>4, <3>2 DEF ChainRows, OfCell
    <3>. QED BY <3>1, <3>2
  <2>. QED BY <2>2, <2>3, <2>4 DEF ChainRows
<1>8. ClosedRows(w)
  BY <1>1, <1>4 DEF ClosedRows, Writable
<1>9. LinkRows(w)
  <2>1. a \notin DOMAIN r.link
    BY <1>1 DEF LinkRows
  <2>2. CASE About[a].type = "CreateLink"
    <3>1. w.link = Upsert(r.link, a, None)
      BY <1>4, <2>2 DEF WrittenLinks
    <3>2. DOMAIN w.link = DOMAIN r.link \cup {a} /\ w.link[a] = None /\ \A l \in DOMAIN r.link : w.link[l] = r.link[l]
      BY <2>1, <3>1 DEF Upsert
    <3>3. \A x \in DOMAIN w.act : About[x].type = "DeleteLink" => About[x].original # a
      <4>1. ASSUME NEW x \in DOMAIN r.act, About[x].type = "DeleteLink" PROVE About[x].original \in DOMAIN r.act
        BY <1>1, <1>6, <4>1, NoneAssumption, ChainActionsAssumption DEF ClosedRows
      <4>. QED BY <1>1, <1>4, <2>2, <4>1
    <3>. QED BY <1>1, <1>4, <2>2, <3>2, <3>3 DEF LinkRows
  <2>3. CASE About[a].type = "DeleteLink"
    <3>1. About[a].original \in DOMAIN r.link
      <4>1. About[a].original \in Acts /\ About[a].original # None /\ About[About[a].original].type = "CreateLink"
        BY <2>3, AboutFacts, ChainActionsAssumption
      <4>. QED BY <1>1, <4>1 DEF Writable, LinkRows
    <3>2. w.link = [r.link EXCEPT ![About[a].original] = a]
      BY <1>4, <2>3, <3>1 DEF WrittenLinks
    <3>3. a # None
      BY ChainActionsAssumption
    <3>. QED BY <1>1, <1>4, <2>3, <3>1, <3>2, <3>3 DEF LinkRows
  <2>4. CASE About[a].type \notin {"CreateLink", "DeleteLink"}
    BY <1>1, <1>4, <2>4 DEF WrittenLinks, LinkRows
  <2>. QED BY <2>2, <2>3, <2>4
<1>. QED BY <1>2, <1>4, <1>7, <1>8, <1>9 DEF RowsInv, w

(***************************************************************************)
(* Genesis                                                                 *)
(***************************************************************************)
Place(c, a) == CHOOSE i \in 1..Len(Genesis[c]) : Genesis[c][i] = a
FoundingRows(c) == [a \in Range(Genesis[c]) |-> Row(Place(c, a) - 1, About[a].zome)]
FoundingEntries(c) == [e \in {About[a].entry : a \in Range(Genesis[c])} \ {None} |-> c]

(* The actions of genesis are of their cell, and each has one place.       *)
LEMMA GenesisFacts ==
  ASSUME NEW c \in Cells
  PROVE  /\ Len(Genesis[c]) \in Nat \ {0}
         /\ \A a \in Range(Genesis[c]) :
              /\ a \in Acts /\ About[a].cell = c /\ About[a].type \in GenesisTypes \cup {"Create"}
              /\ Place(c, a) \in 1..Len(Genesis[c]) /\ Genesis[c][Place(c, a)] = a
         /\ \A i \in 1..Len(Genesis[c]) : Genesis[c][i] \in Range(Genesis[c]) /\ Place(c, Genesis[c][i]) = i
<1>. DEFINE g == Genesis[c]
<1>1. g \in Seq(Acts) /\ g # <<>> /\ DOMAIN g = 1..Len(g) /\ Len(g) \in Nat
  BY GenesisAssumption
<1>2. Len(g) # 0
  BY <1>1
<1>3. Range(g) = {g[i] : i \in 1..Len(g)}
  BY <1>1 DEF Range
<1>4. \A i \in 1..Len(g) : g[i] \in Acts
  BY <1>1
<1>5. ASSUME NEW a \in Range(g)
      PROVE  Place(c, a) \in 1..Len(g) /\ g[Place(c, a)] = a
  BY <1>3 DEF Place
<1>6. ASSUME NEW i \in 1..Len(g)
      PROVE  g[i] \in Range(g) /\ Place(c, g[i]) = i
  <2>1. g[i] \in Range(g)
    BY <1>3
  <2>. QED BY <1>1, <1>5, <2>1, GenesisAssumption
<1>. QED BY <1>1, <1>2, <1>3, <1>4, <1>5, <1>6, GenesisAssumption

(* Genesis over rows that lack the cell.                                   *)
LEMMA FoundKeepsRows ==
  ASSUME NEW r, RowsInv(r), NEW c \in Cells, r.head[c] = None, NEW f, f = Found(r, c)
  PROVE  /\ RowsInv(f)
         /\ f = [act |-> Overlay(FoundingRows(c), r.act), entry |-> Overlay(FoundingEntries(c), r.entry),
                 link |-> r.link,
                 head |-> [r.head EXCEPT ![c] = [seq |-> Len(Genesis[c]) - 1, act |-> Genesis[c][Len(Genesis[c])]]]]
         /\ \A a \in DOMAIN r.act : About[a].cell # c
         /\ DOMAIN f.act = Range(Genesis[c]) \cup DOMAIN r.act
         /\ \A a \in DOMAIN r.act : a \notin Range(Genesis[c]) /\ f.act[a] = r.act[a]
<1>. DEFINE G == Range(Genesis[c])
            n == Len(Genesis[c])
            last == Genesis[c][n]
<1>1. r \in Contents /\ ChainRows(r) /\ ClosedRows(r) /\ LinkRows(r)
  BY DEF RowsInv
<1>2. \A a \in DOMAIN r.act : About[a].cell # c
  BY <1>1 DEF ChainRows
<1>3. n \in Nat \ {0} /\ last \in G /\ Place(c, last) = n /\ last \in Acts
  BY GenesisFacts
<1>4. /\ r = [act |-> r.act, entry |-> r.entry, link |-> r.link, head |-> r.head]
      /\ r.act \in Tables(Acts, RowType) /\ r.entry \in Tables(Entries, Cells)
      /\ r.link \in Tables(Acts, Acts \cup {None}) /\ r.head \in [Cells -> HeadType \cup {None}]
  BY <1>1, ContentFacts
<1>5. f = [act |-> Overlay(FoundingRows(c), r.act), entry |-> Overlay(FoundingEntries(c), r.entry),
           link |-> r.link, head |-> [r.head EXCEPT ![c] = [seq |-> n - 1, act |-> last]]]
  <2>. DEFINE kept == {b \in DOMAIN r.act : About[b].cell = c => r.act[b].seq >= n}
  <2>1. kept = DOMAIN r.act
    BY <1>2
  <2>2. Restrict(r.act, kept) = r.act
    <3>. HIDE DEF kept
    <3>1. r.act = [x \in DOMAIN r.act |-> r.act[x]]
      BY <1>4, TableFacts
    <3>. QED BY <2>1, <3>1 DEF Restrict
  <2>3. f = updateChainHead([r EXCEPT !.act = Overlay(FoundingRows(c), Restrict(r.act, kept)),
                                      !.entry = Overlay(FoundingEntries(c), r.entry)], c, n - 1, last)
    BY DEF Found, FoundingRows, FoundingEntries, Place
  <2>. HIDE DEF kept, last, n
  <2>. QED BY <1>4, <2>2, <2>3 DEF updateChainHead
<1>6. \A a \in G : /\ a \in Acts /\ About[a].cell = c /\ About[a].type \in GenesisTypes \cup {"Create"}
                   /\ Place(c, a) \in 1..n /\ Genesis[c][Place(c, a)] = a
  BY GenesisFacts
<1>7. /\ DOMAIN FoundingRows(c) = G
      /\ \A a \in G : FoundingRows(c)[a] = Row(Place(c, a) - 1, About[a].zome)
                      /\ FoundingRows(c)[a].seq = Place(c, a) - 1
  BY DEF FoundingRows, Row
<1>8. FoundingRows(c) \in Tables(Acts, RowType)
  <2>1. \A a \in G : FoundingRows(c)[a] \in RowType
    BY <1>3, <1>6, <1>7, AboutFacts DEF Row, RowType
  <2>2. FoundingRows(c) = [a \in G |-> FoundingRows(c)[a]]
    BY DEF FoundingRows
  <2>. QED BY <1>6, <1>7, <2>1, <2>2, TableFacts
<1>9. DOMAIN FoundingEntries(c) = {About[a].entry : a \in G} \ {None}
      /\ FoundingEntries(c) \in Tables(Entries, Cells)
  <2>1. \A a \in G : About[a].entry \in Entries \cup {None}
    BY <1>6, ChainActionsAssumption
  <2>2. DOMAIN FoundingEntries(c) = {About[a].entry : a \in G} \ {None}
        /\ FoundingEntries(c) = [e \in DOMAIN FoundingEntries(c) |-> FoundingEntries(c)[e]]
        /\ \A e \in DOMAIN FoundingEntries(c) : FoundingEntries(c)[e] = c
    BY DEF FoundingEntries
  <2>. QED BY <2>1, <2>2, TableFacts
<1>10. /\ f.act = Overlay(FoundingRows(c), r.act) /\ f.entry = Overlay(FoundingEntries(c), r.entry)
       /\ f.link = r.link /\ f.head = [r.head EXCEPT ![c] = [seq |-> n - 1, act |-> last]]
       /\ f = [act |-> f.act, entry |-> f.entry, link |-> f.link, head |-> f.head]
  BY <1>5
<1>11. [seq |-> n - 1, act |-> last] \in HeadType /\ [seq |-> n - 1, act |-> last] # None
  BY <1>3, NoneAssumption DEF HeadType
<1>. HIDE DEF n, last
<1>12. f \in Contents
  <2>1. f.head \in [Cells -> HeadType \cup {None}]
    BY <1>4, <1>10, <1>11
  <2>2. f.act \in Tables(Acts, RowType) /\ f.entry \in Tables(Entries, Cells)
    BY <1>4, <1>8, <1>9, <1>10, OverlayType
  <2>. QED BY <1>4, <1>10, <2>1, <2>2, ContentFacts
<1>13. /\ DOMAIN f.act = G \cup DOMAIN r.act /\ \A a \in G : f.act[a].seq = Place(c, a) - 1
       /\ \A a \in DOMAIN r.act : a \notin G /\ f.act[a] = r.act[a]
       /\ DOMAIN f.entry = ({About[a].entry : a \in G} \ {None}) \cup DOMAIN r.entry
  BY <1>2, <1>6, <1>7, <1>9, <1>10 DEF Overlay
<1>14. f.head[c] = [seq |-> n - 1, act |-> last] /\ \A d \in Cells : d # c => f.head[d] = r.head[d]
  BY <1>4, <1>10
<1>15. \A b \in DOMAIN r.act : b \in Acts /\ r.act[b].seq \in Nat /\ About[b].cell \in Cells
  BY <1>1, RowFacts, AboutFacts
<1>16. ChainRows(f)
  <2>1. ASSUME NEW a \in DOMAIN f.act
        PROVE  f.head[About[a].cell] # None /\ f.act[a].seq <= f.head[About[a].cell].seq
    <3>1. CASE a \in G
      BY <1>3, <1>6, <1>11, <1>13, <1>14, <3>1
    <3>2. CASE a \in DOMAIN r.act
      BY <1>1, <1>2, <1>13, <1>14, <1>15, <3>2 DEF ChainRows
    <3>. QED BY <1>13, <3>1, <3>2
  <2>2. ASSUME NEW a \in DOMAIN f.act, NEW b \in DOMAIN f.act,
               About[a].cell = About[b].cell, f.act[a].seq = f.act[b].seq
        PROVE  a = b
    <3>1. CASE a \in G /\ b \in G
      <4>1. Place(c, a) = Place(c, b)
        BY <1>3, <1>6, <1>13, <2>2, <3>1
      <4>. QED BY <1>6, <3>1, <4>1
    <3>2. CASE a \in DOMAIN r.act /\ b \in DOMAIN r.act
      BY <1>1, <1>13, <2>2, <3>2 DEF ChainRows
    <3>. QED BY <1>2, <1>6, <1>13, <2>2, <3>1, <3>2
  <2>3. ASSUME NEW d \in Cells, f.head[d] # None
        PROVE  /\ Range(Genesis[d]) \subseteq DOMAIN f.act
               /\ f.head[d].act \in OfCell(f, d) /\ f.act[f.head[d].act].seq = f.head[d].seq
    <3>1. CASE d = c
      <4>1. last \in DOMAIN f.act /\ About[last].cell = c /\ f.act[last].seq = n - 1
        BY <1>3, <1>6, <1>13
      <4>. QED BY <1>13, <1>14, <3>1, <4>1 DEF OfCell
    <3>2. CASE d # c
      BY <1>1, <1>13, <1>14, <2>3, <3>2 DEF ChainRows, OfCell
    <3>. QED BY <3>1, <3>2
  <2>. QED BY <2>1, <2>2, <2>3 DEF ChainRows
<1>17. ClosedRows(f)
  <2>1. ASSUME NEW a \in G
        PROVE  (isEntryAction(a) => About[a].entry \in DOMAIN f.entry) /\ About[a].original = None
    <3>1. isEntryAction(a) => About[a].entry # None
      BY <1>6, ChainActionsAssumption
    <3>2. About[a].original = None
      BY <1>6, AboutFacts DEF GenesisTypes
    <3>. QED BY <1>13, <3>1, <3>2
  <2>2. ASSUME NEW a \in DOMAIN r.act
        PROVE  /\ isEntryAction(a) => About[a].entry \in DOMAIN f.entry
               /\ About[a].original # None => About[a].original \in DOMAIN f.act
    BY <1>1, <1>13 DEF ClosedRows
  <2>. QED BY <1>13, <2>1, <2>2 DEF ClosedRows
<1>18. LinkRows(f)
  <2>1. \A a \in G : About[a].type # "CreateLink" /\ About[a].type # "DeleteLink"
    BY <1>6 DEF GenesisTypes
  <2>. QED BY <1>1, <1>10, <1>13, <2>1 DEF LinkRows
<1>. QED BY <1>2, <1>5, <1>12, <1>13, <1>16, <1>17, <1>18 DEF RowsInv, n, last

(* The empty store.                                                        *)
LEMMA NoRowsInv == RowsInv(NoRows)
<1>1. \A D, V : <<>> \in Tables(D, V)
  BY SMT DEF Tables
<1>2. NoRows \in Contents
  BY <1>1 DEF NoRows, Contents
<1>3. DOMAIN NoRows.act = {} /\ DOMAIN NoRows.link = {} /\ \A c \in Cells : NoRows.head[c] = None
  BY DEF NoRows
<1>. QED BY <1>2, <1>3 DEF RowsInv, ChainRows, ClosedRows, LinkRows

(***************************************************************************)
(* The ops of the rows                                                     *)
(***************************************************************************)
OpOf(t, a) == [type |-> t, act |-> a, basis |-> Basis(t, a)]

(* The record of a row has its entry, so that all its ops are produced.    *)
LEMMA OpsOfFacts ==
  ASSUME NEW r, ClosedRows(r), NEW S \in SUBSET DOMAIN r.act, NEW q
  PROVE  q \in OpsOf(S, r) <=> \E a \in S : \E t \in OpTypes(a) : q = OpOf(t, a)
<1>. DEFINE O(a) == produceOps(buildRecord(a, DOMAIN r.entry))
<1>1. ASSUME NEW a \in S PROVE q \in O(a) <=> \E t \in OpTypes(a) : q = OpOf(t, a)
  <2>1. isEntryAction(a) => About[a].entry \in DOMAIN r.entry
    BY DEF ClosedRows
  <2>2. "StoreEntry" \in OpTypes(a) => isEntryAction(a)
    BY DEF OpTypes, isEntryAction
  <2>3. buildRecord(a, DOMAIN r.entry).act = a
        /\ ("StoreEntry" \in OpTypes(a) => buildRecord(a, DOMAIN r.entry).present)
    BY <2>1, <2>2 DEF buildRecord
  <2>. HIDE DEF O
  <2>4. O(a) = {OpOf(t, a) : t \in {u \in OpTypes(a) : u = "StoreEntry" => buildRecord(a, DOMAIN r.entry).present}}
    BY <2>3 DEF O, produceOps, OpOf
  <2>. QED BY <2>3, <2>4
<1>2. OpsOf(S, r) = UNION {O(a) : a \in S}
  BY DEF OpsOf
<1>. HIDE DEF O
<1>. QED BY <1>1, <1>2

(* What is known at an address of a queue in step with rows.               *)
LEMMA AtFacts ==
  ASSUME NEW r, ClosedRows(r), queued = OpsOf(DOMAIN r.act, r), NEW b, NEW t, NEW c
  PROVE  At(b, t, c) = {a \in DOMAIN r.act : About[a].cell = c /\ t \in OpTypes(a) /\ Basis(t, a) = b}
<1>1. \A q : q \in queued <=> \E a \in DOMAIN r.act : \E u \in OpTypes(a) : q = OpOf(u, a)
  BY OpsOfFacts
<1>2. ASSUME NEW a \in At(b, t, c)
      PROVE  a \in DOMAIN r.act /\ About[a].cell = c /\ t \in OpTypes(a) /\ Basis(t, a) = b
  <2>1. PICK q \in queued : q.basis = b /\ q.type = t /\ About[q.act].cell = c /\ a = q.act
    BY DEF At
  <2>2. PICK x \in DOMAIN r.act : \E u \in OpTypes(x) : q = OpOf(u, x)
    BY <1>1
  <2>3. PICK u \in OpTypes(x) : q = OpOf(u, x)
    BY <2>2
  <2>4. q.act = x /\ q.type = u /\ q.basis = Basis(u, x)
    BY <2>3 DEF OpOf
  <2>. QED BY <2>1, <2>2, <2>3, <2>4
<1>3. ASSUME NEW a \in DOMAIN r.act, About[a].cell = c, t \in OpTypes(a), Basis(t, a) = b
      PROVE  a \in At(b, t, c)
  <2>1. OpOf(t, a) \in queued
    BY <1>1, <1>3
  <2>2. OpOf(t, a).act = a /\ OpOf(t, a).type = t /\ OpOf(t, a).basis = b
    BY <1>3 DEF OpOf
  <2>. QED BY <1>3, <2>1, <2>2 DEF At
<1>. QED BY <1>2, <1>3

(* Which actions have an op of a type, and where it is kept.               *)
LEMMA BasisFacts ==
  ASSUME NEW a \in Acts
  PROVE  /\ "RegisterAgentActivity" \in OpTypes(a) /\ Basis("RegisterAgentActivity", a) = Author
         /\ "StoreRecord" \in OpTypes(a) /\ Basis("StoreRecord", a) = a
         /\ "StoreEntry" \in OpTypes(a) <=> isEntryAction(a)
         /\ Basis("StoreEntry", a) = About[a].entry
         /\ "RegisterUpdatedContent" \in OpTypes(a) <=> About[a].type = "Update"
         /\ Basis("RegisterUpdatedContent", a) = OriginalEntry(a)
         /\ "RegisterUpdatedRecord" \in OpTypes(a) <=> About[a].type = "Update"
         /\ Basis("RegisterUpdatedRecord", a) = About[a].original
         /\ "RegisterDeletedBy" \in OpTypes(a) <=> About[a].type = "Delete"
         /\ Basis("RegisterDeletedBy", a) = About[a].original
         /\ "RegisterDeletedEntryAction" \in OpTypes(a) <=> About[a].type = "Delete"
         /\ Basis("RegisterDeletedEntryAction", a) = OriginalEntry(a)
         /\ "RegisterAddLink" \in OpTypes(a) <=> About[a].type = "CreateLink"
         /\ Basis("RegisterAddLink", a) = Base(a)
         /\ "RegisterRemoveLink" \in OpTypes(a) <=> About[a].type = "DeleteLink"
         /\ Basis("RegisterRemoveLink", a) = Base(a)
<1>1. \A t : t \in OpTypes(a) <=>
        \/ t \in {"StoreRecord", "RegisterAgentActivity"}
        \/ About[a].type = "Create" /\ t = "StoreEntry"
        \/ About[a].type = "Update" /\ t \in {"StoreEntry", "RegisterUpdatedContent", "RegisterUpdatedRecord"}
        \/ About[a].type = "Delete" /\ t \in {"RegisterDeletedBy", "RegisterDeletedEntryAction"}
        \/ About[a].type = "CreateLink" /\ t = "RegisterAddLink"
        \/ About[a].type = "DeleteLink" /\ t = "RegisterRemoveLink"
  <2>1. CASE About[a].type = "Create" BY <2>1 DEF OpTypes
  <2>2. CASE About[a].type = "Update" BY <2>2 DEF OpTypes
  <2>3. CASE About[a].type = "Delete" BY <2>3 DEF OpTypes
  <2>4. CASE About[a].type = "CreateLink" BY <2>4 DEF OpTypes
  <2>5. CASE About[a].type = "DeleteLink" BY <2>5 DEF OpTypes
  <2>6. CASE About[a].type \notin {"Create", "Update", "Delete", "CreateLink", "DeleteLink"}
    BY <2>6 DEF OpTypes
  <2>. QED BY <2>1, <2>2, <2>3, <2>4, <2>5, <2>6
<1>. QED BY <1>1 DEF Basis, isEntryAction

(* The records of a call, with one more.                                   *)
LEMMA RangeOfAppend ==
  ASSUME NEW T, NEW s \in Seq(T), NEW e \in T
  PROVE  Range(Append(s, e)) = Range(s) \cup {e}
<1>. DEFINE p == Append(s, e)
<1>1. p \in Seq(T) /\ Len(s) \in Nat /\ Len(p) = Len(s) + 1 /\ p[Len(s) + 1] = e
      /\ \A i \in 1..Len(s) : p[i] = s[i]
  OBVIOUS
<1>. HIDE DEF p
<1>2. Range(p) = {p[i] : i \in 1..Len(s) + 1} /\ Range(s) = {s[i] : i \in 1..Len(s)}
  BY <1>1, RangeEquality
<1>3. 1..Len(s) + 1 = (1..Len(s)) \cup {Len(s) + 1}
  BY <1>1
<1>4. Range(p) = Range(s) \cup {e}
  BY <1>1, <1>2, <1>3
<1>. QED BY <1>4 DEF p

(***************************************************************************)
(* The calls over the row store                                            *)
(***************************************************************************)
(* Rows that are among others.                                             *)
Within(r, s) == \A a \in DOMAIN r.act : a \in DOMAIN s.act /\ s.act[a] = r.act[a]

FaithfulIn(r, a) ==
  LET b == IF About[a].type \in {"Delete", "DeleteLink"} THEN About[a].original ELSE a
  IN b \in DOMAIN r.act /\ r.act[b].zome = About[b].zome
ZomesFor(t, a) ==
  (IF t = "RegisterAgentActivity" \/ DefinedIn(a) = None THEN Zomes ELSE {DefinedIn(a)}) \ NoWasm
CheckedFor(K, a) ==
  \A t \in OpTypes(a) : \A z \in ZomesFor(t, a) : [act |-> a, op |-> Variant(t), zome |-> z] \in K
ValidatedIn(r, K, a) == FaithfulIn(r, a) => CheckedFor(K, a)

(* Validated, said of the rows and the calls that are passed to it.        *)
LEMMA ValidatedHere == \A a : Validated(a) <=> ValidatedIn(rows, checked, a)
BY DEF Validated, ValidatedIn, Faithful, FaithfulIn, CheckedFor, ZomesFor

(* The same of the next state.                                             *)
LEMMA ValidatedNext == \A a : Validated(a)' <=> ValidatedIn(rows', checked', a)
BY DEF Validated, ValidatedIn, Faithful, FaithfulIn, CheckedFor, ZomesFor

(* AllValidated with the rows and calls named.                             *)
LEMMA AllValidatedHere ==
  AllValidated <=> /\ \A a \in DOMAIN Committed.act \ Founding : ValidatedIn(rows, checked, a)
                   /\ \A i \in 1..valid : ValidatedIn(rows, checked, records[i])
BY DEF AllValidated, Validated, ValidatedIn, Faithful, FaithfulIn, CheckedFor, ZomesFor

(* The same of the next state.                                             *)
LEMMA AllValidatedNext ==
  AllValidated' <=> /\ \A a \in DOMAIN Committed'.act \ Founding : ValidatedIn(rows', checked', a)
                    /\ \A i \in 1..valid' : ValidatedIn(rows', checked', records'[i])
BY DEF AllValidated, Validated, ValidatedIn, Faithful, FaithfulIn, CheckedFor, ZomesFor, Founding

(* An action and its original being there, what is found of it lasts.      *)
LEMMA StillValidated ==
  ASSUME NEW r, ClosedRows(r), DOMAIN r.act \subseteq Acts, NEW a \in DOMAIN r.act,
         NEW s, NEW t, Within(r, s), Within(r, t), NEW K, NEW L, ValidatedIn(s, K, a),
         \A k \in K : k.act = a => k \in L
  PROVE  ValidatedIn(t, L, a)
<1>1. ASSUME NEW b \in DOMAIN r.act PROVE b \in DOMAIN s.act /\ b \in DOMAIN t.act /\ s.act[b] = t.act[b]
  BY DEF Within
<1>2. About[a].type \in {"Delete", "DeleteLink"} => About[a].original \in DOMAIN r.act
  BY ChainActionsAssumption DEF ClosedRows
<1>3. FaithfulIn(t, a) => FaithfulIn(s, a)
  BY <1>1, <1>2 DEF FaithfulIn
<1>4. CheckedFor(K, a) => CheckedFor(L, a)
  <2>1. \A u, z : [act |-> a, op |-> u, zome |-> z].act = a
    OBVIOUS
  <2>. QED BY <2>1 DEF CheckedFor
<1>. QED BY <1>3, <1>4 DEF ValidatedIn

(* The inline validation of a record asks, for each op, the zome in which  *)
(* the entry or link was defined, or all of them.                          *)
LEMMA ChecksEnough ==
  ASSUME NEW r, ClosedRows(r), DOMAIN r.act \subseteq Acts, NEW a \in DOMAIN r.act
  PROVE  ValidatedIn(r, Checks(buildRecord(a, DOMAIN r.entry), r.act), a)
<1>. DEFINE rec == buildRecord(a, DOMAIN r.entry)
<1>1. rec.act = a /\ (isEntryAction(a) => rec.present)
  BY DEF buildRecord, ClosedRows
<1>2. SUFFICES ASSUME FaithfulIn(r, a), NEW t \in OpTypes(a), NEW z \in ZomesFor(t, a)
               PROVE  [act |-> a, op |-> Variant(t), zome |-> z] \in Checks(rec, r.act)
  BY DEF ValidatedIn, CheckedFor
<1>. HIDE DEF rec
<1>3. a \in Acts /\ (About[a].original # None => About[a].original \in DOMAIN r.act)
  BY DEF ClosedRows
<1>4. Buildable(t, rec, DOMAIN r.act)
  <2>1. t = "StoreEntry" => isEntryAction(a)
    BY <1>2, <1>3, BasisFacts
  <2>2. t = "RegisterRemoveLink" => About[a].original \in DOMAIN r.act
    BY <1>2, <1>3, BasisFacts, ChainActionsAssumption
  <2>. QED BY <1>1, <2>1, <2>2 DEF Buildable
<1>5. DefinedIn(a) \in Zomes \cup {None}
  BY <1>3, AboutFacts, ChainActionsAssumption DEF DefinedIn
<1>6. z \in Invoked(Variant(t), a, r.act)
  <2>1. CASE t = "RegisterAgentActivity"
    <3>1. Variant("RegisterAgentActivity") = "RegisterAgentActivity"
      BY DEF Variant
    <3>2. ZomeOf("RegisterAgentActivity", a, r.act) = None
      BY DEF ZomeOf
    <3>. QED BY <1>2, <2>1, <3>1, <3>2, ChainActionsAssumption DEF Invoked, ZomesFor
  <2>2. CASE t # "RegisterAgentActivity"
    <3>1. Variant(t) # "RegisterAgentActivity"
      BY <2>2 DEF Variant
    <3>2. ZomeOf(Variant(t), a, r.act) = DefinedIn(a)
      <4>1. CASE About[a].type \in {"Delete", "DeleteLink"}
        BY <1>2, <3>1, <4>1 DEF ZomeOf, ZomeIn, DefinedIn, FaithfulIn
      <4>2. CASE About[a].type \notin {"Delete", "DeleteLink"}
        BY <1>2, <3>1, <4>2 DEF ZomeOf, ZomeIn, DefinedIn, FaithfulIn
      <4>. QED BY <4>1, <4>2
    <3>. QED BY <1>2, <1>5, <2>2, <3>2, ChainActionsAssumption DEF Invoked, ZomesFor
  <2>. QED BY <2>1, <2>2
<1>7. Variant(t) \in {Variant(u) : u \in {v \in OpTypes(rec.act) : Buildable(v, rec, DOMAIN r.act)}}
  BY <1>1, <1>2, <1>4
<1>. QED BY <1>1, <1>6, <1>7 DEF Checks

(* What the proofs take from AuthorInv.                                    *)
LEMMA AuthorFacts ==
  ASSUME AuthorInv
  PROVE  /\ RowsInv(rows) /\ ClosedRows(rows) /\ ClosedRows(Committed) /\ DOMAIN rows.act \subseteq Acts
         /\ RowsInv(Committed) /\ DOMAIN Committed.act \subseteq Acts /\ Within(Committed, rows)
         /\ rows # None
<1>1. RowsInv(rows) /\ RowsInv(Committed)
  BY DEF AuthorInv, AuthorTypeOK, Committed
<1>2. ClosedRows(rows) /\ ClosedRows(Committed) /\ rows \in Contents /\ Committed \in Contents
  BY <1>1 DEF RowsInv
<1>3. DOMAIN rows.act \subseteq Acts /\ DOMAIN Committed.act \subseteq Acts
  BY <1>2, RowFacts
<1>4. Within(Committed, rows)
  BY DEF AuthorInv, CallAdds, Committed, Within
<1>. QED BY <1>1, <1>2, <1>3, <1>4, NoneAssumption

(* Ops of rows that stay are the same ops.                                 *)
LEMMA OpsOfMore ==
  ASSUME NEW r, ClosedRows(r), NEW s, ClosedRows(s), NEW T, DOMAIN s.act = DOMAIN r.act \cup T
  PROVE  OpsOf(DOMAIN s.act, s) = OpsOf(DOMAIN r.act, r) \cup OpsOf(T, s)
<1>1. ASSUME NEW q PROVE q \in OpsOf(DOMAIN s.act, s) <=> q \in OpsOf(DOMAIN r.act, r) \cup OpsOf(T, s)
  <2>1. q \in OpsOf(DOMAIN s.act, s) <=> \E a \in DOMAIN s.act : \E t \in OpTypes(a) : q = OpOf(t, a)
    BY OpsOfFacts
  <2>2. q \in OpsOf(DOMAIN r.act, r) <=> \E a \in DOMAIN r.act : \E t \in OpTypes(a) : q = OpOf(t, a)
    BY OpsOfFacts
  <2>3. q \in OpsOf(T, s) <=> \E a \in T : \E t \in OpTypes(a) : q = OpOf(t, a)
    BY OpsOfFacts
  <2>. QED BY <2>1, <2>2, <2>3
<1>. QED BY <1>1

(* An empty store with nothing queued.                                     *)
LEMMA AuthorInitInv == AuthorInit => AuthorInv
<1>. SUFFICES ASSUME AuthorInit PROVE AuthorInv
  OBVIOUS
<1>1. rows = NoRows /\ saved = None /\ call = Idle /\ records = <<>> /\ valid = 0 /\ queued = {} /\ checked = {}
  BY DEF AuthorInit, StoreInit
<1>2. Committed = NoRows /\ DOMAIN NoRows.act = {}
  BY <1>1 DEF Committed, NoRows
<1>3. AuthorTypeOK
  BY <1>1, NoRowsInv DEF AuthorTypeOK
<1>4. CallAdds
  BY <1>1 DEF CallAdds, Idle
<1>5. QueuedInStep
  BY <1>1, <1>2 DEF QueuedInStep, OpsOf
<1>6. AllValidated
  BY <1>1, <1>2 DEF AllValidated
<1>. QED BY <1>3, <1>4, <1>5, <1>6 DEF AuthorInv

(* RUN_GENESIS founds a chain, checks it and queues its ops.               *)
LEMMA RunGenesisStep ==
  ASSUME AuthorInv, NEW c \in Cells, RunGenesis(c)
  PROVE  AuthorInv'
<1>. DEFINE G == Range(Genesis[c])
<1>1. /\ call = Idle /\ saved = None /\ rows.head[c] = None /\ rows' = Found(rows, c) /\ saved' = None
      /\ checked \subseteq checked' /\ queued' = queued \cup OpsOf(G, rows')
      /\ UNCHANGED <<call, records, valid>>
  BY DEF RunGenesis, FoundChain
<1>2. Committed = rows /\ Committed' = rows'
  BY <1>1 DEF Committed
<1>3. /\ RowsInv(rows') /\ DOMAIN rows'.act = G \cup DOMAIN rows.act
      /\ \A a \in DOMAIN rows.act : rows'.act[a] = rows.act[a]
  BY <1>1, AuthorFacts, FoundKeepsRows
<1>4. AuthorTypeOK'
  BY <1>1, <1>3 DEF AuthorInv, AuthorTypeOK
<1>5. CallAdds'
  BY <1>1 DEF AuthorInv, CallAdds, Idle
<1>6. QueuedInStep'
  <2>1. ClosedRows(rows') /\ ClosedRows(rows)
    BY <1>3, AuthorFacts DEF RowsInv
  <2>2. OpsOf(DOMAIN rows'.act, rows') = OpsOf(DOMAIN rows.act, rows) \cup OpsOf(G, rows')
    <3>1. DOMAIN rows'.act = DOMAIN rows.act \cup G
      BY <1>3
    <3>. QED BY <2>1, <3>1, OpsOfMore
  <2>. QED BY <1>1, <1>2, <2>2 DEF AuthorInv, QueuedInStep
<1>7. AllValidated'
  <2>1. ASSUME NEW a \in DOMAIN rows'.act \ Founding PROVE Validated(a)'
    <3>1. a \in DOMAIN rows.act
      BY <1>3, <2>1 DEF Founding
    <3>2. ValidatedIn(rows, checked, a)
      BY <1>2, <2>1, <3>1, ValidatedHere DEF AuthorInv, AllValidated
    <3>3. Within(rows, rows') /\ Within(rows, rows)
      BY <1>3 DEF Within
    <3>4. ValidatedIn(rows', checked', a)
      BY <1>1, <3>1, <3>2, <3>3, AuthorFacts, StillValidated
    <3>. QED BY <3>4, ValidatedNext
  <2>2. valid' = 0 /\ Founding' = Founding
    BY <1>1 DEF AuthorInv, AuthorTypeOK, CallAdds, Founding
  <2>. QED BY <1>2, <2>1, <2>2 DEF AllValidated
<1>. QED BY <1>4, <1>5, <1>6, <1>7 DEF AuthorInv

(* callZome: begin transaction.                                            *)
LEMMA AuthorBeginStep ==
  ASSUME AuthorInv, NEW c \in Cells, NEW z \in Zomes \cup {None}, BeginCall(c, z)
  PROVE  AuthorInv'
<1>1. /\ call = Idle /\ rows.head[c] # None /\ saved = None /\ saved' = rows /\ rows' = rows
      /\ call' = [cell |-> c, zome |-> z, at |-> "running"] /\ UNCHANGED <<records, valid, checked, queued>>
  BY DEF BeginCall, beginTransaction
<1>2. Committed = rows /\ Committed' = rows /\ rows # None
  BY <1>1, AuthorFacts DEF Committed
<1>3. call' \in [cell : Cells, zome : Zomes \cup {None}, at : {"running", "validating"}]
      /\ call'.at = "running" /\ call'.cell = c /\ call' # Idle
  BY <1>1 DEF Idle
<1>4. AuthorTypeOK'
  BY <1>1, <1>3 DEF AuthorInv, AuthorTypeOK
<1>5. records = <<>> /\ Range(records) = {} /\ valid = 0
  BY <1>1 DEF AuthorInv, AuthorTypeOK, CallAdds, Range
<1>6. CallAdds'
  BY <1>1, <1>2, <1>3, <1>5 DEF CallAdds, Idle
<1>7. QueuedInStep'
  BY <1>1, <1>2 DEF AuthorInv, QueuedInStep
<1>8. AllValidated'
  <2>1. \A a : Validated(a)' <=> Validated(a)
    BY <1>1, ValidatedHere, ValidatedNext
  <2>2. Founding' = Founding
    BY DEF Founding
  <2>. QED BY <1>1, <1>2, <1>5, <2>1, <2>2 DEF AuthorInv, AllValidated
<1>. QED BY <1>4, <1>6, <1>7, <1>8 DEF AuthorInv

(* A host function writes its record.                                      *)
LEMMA HostWriteStep ==
  ASSUME AuthorInv, NEW a \in Acts, HostWrite(a)
  PROVE  AuthorInv'
<1>. DEFINE z == RecordedZome(a, call.zome)
<1>1. /\ call.at = "running" /\ call.cell = About[a].cell /\ Writable(DOMAIN rows.act, a)
      /\ rows' = Write(rows, a, z) /\ records' = Append(records, a)
      /\ UNCHANGED <<saved, call, valid, checked, queued>>
  BY DEF HostWrite
<1>2. call # Idle /\ saved # None /\ rows.head[About[a].cell] # None /\ valid = 0
  BY <1>1 DEF AuthorInv, CallAdds, Idle
<1>3. z \in Zomes \cup {None}
  BY AboutFacts, ChainActionsAssumption DEF RecordedZome
<1>. HIDE DEF z
<1>4. RowsInv(rows') /\ rows' = Written(rows, a, z)
  BY <1>1, <1>2, <1>3, AuthorFacts, WriteKeepsRows
<1>5. /\ a \notin DOMAIN rows.act /\ DOMAIN rows'.act = DOMAIN rows.act \cup {a}
      /\ \A b \in DOMAIN rows.act : rows'.act[b] = rows.act[b]
      /\ rows'.head[About[a].cell] # None
  <2>. DEFINE n == rows.head[About[a].cell].seq + 1
  <2>1. rows \in Contents /\ a \notin DOMAIN rows.act
    BY <1>1, AuthorFacts DEF RowsInv, Writable
  <2>2. /\ n \in Nat /\ DOMAIN rows'.act = DOMAIN rows.act \cup {a}
        /\ \A b \in DOMAIN rows.act : rows'.act[b] = rows.act[b]
        /\ rows'.head[About[a].cell] = [seq |-> n, act |-> a]
    BY <1>2, <1>3, <1>4, <2>1, WrittenParts
  <2>. QED BY <2>1, <2>2, NoneAssumption
<1>6. records \in Seq(Acts) /\ Range(records') = Range(records) \cup {a} /\ records' \in Seq(Acts)
  BY <1>1, RangeOfAppend DEF AuthorInv, AuthorTypeOK
<1>7. AuthorTypeOK'
  <2>1. valid' \in 0..Len(records')
    BY <1>1, <1>2, <1>6
  <2>. QED BY <1>1, <1>4, <1>6, <2>1 DEF AuthorInv, AuthorTypeOK
<1>8. CallAdds'
  BY <1>1, <1>2, <1>5, <1>6 DEF AuthorInv, CallAdds
<1>9. Committed = saved /\ Committed' = saved
  BY <1>1, <1>2 DEF Committed
<1>10. QueuedInStep'
  BY <1>1, <1>9 DEF AuthorInv, QueuedInStep
<1>11. AllValidated'
  <2>1. ASSUME NEW b \in DOMAIN saved.act \ Founding PROVE Validated(b)'
    <3>1. Within(saved, rows) /\ ClosedRows(saved) /\ DOMAIN saved.act \subseteq Acts
      BY <1>9, AuthorFacts
    <3>2. Within(saved, rows')
      BY <1>5, <3>1 DEF Within
    <3>3. ValidatedIn(rows, checked, b)
      BY <1>9, <2>1, ValidatedHere DEF AuthorInv, AllValidated
    <3>4. ValidatedIn(rows', checked', b)
      BY <1>1, <2>1, <3>1, <3>2, <3>3, StillValidated
    <3>. QED BY <3>4, ValidatedNext
  <2>2. Founding' = Founding
    BY DEF Founding
  <2>. QED BY <1>1, <1>2, <1>9, <2>1, <2>2 DEF AllValidated
<1>. QED BY <1>7, <1>8, <1>10, <1>11 DEF AuthorInv

(* The zome function returns.                                              *)
LEMMA ReturnedStep ==
  ASSUME AuthorInv, Returned
  PROVE  AuthorInv'
<1>1. /\ call.at = "running" /\ call' = [call EXCEPT !.at = "validating"]
      /\ UNCHANGED <<rows, saved, records, valid, checked, queued>>
  BY DEF Returned
<1>2. call # Idle /\ call \in [cell : Cells, zome : Zomes \cup {None}, at : {"running", "validating"}]
  BY <1>1 DEF AuthorInv, AuthorTypeOK, Idle
<1>3. call' \in [cell : Cells, zome : Zomes \cup {None}, at : {"running", "validating"}]
      /\ call'.cell = call.cell /\ call'.at = "validating" /\ call' # Idle
  BY <1>1, <1>2 DEF Idle
<1>4. AuthorTypeOK'
  BY <1>1, <1>3 DEF AuthorInv, AuthorTypeOK
<1>5. CallAdds'
  BY <1>1, <1>2, <1>3 DEF AuthorInv, CallAdds, Idle
<1>6. QueuedInStep' /\ Committed' = Committed
  BY <1>1 DEF AuthorInv, QueuedInStep, Committed
<1>7. AllValidated'
  <2>1. \A a : Validated(a)' <=> Validated(a)
    BY <1>1, ValidatedHere, ValidatedNext
  <2>2. Founding' = Founding
    BY DEF Founding
  <2>. QED BY <1>1, <1>6, <2>1, <2>2 DEF AuthorInv, AllValidated
<1>. QED BY <1>4, <1>5, <1>6, <1>7 DEF AuthorInv

(* invokeInlineValidation, of the next record.                             *)
LEMMA ValidateStep ==
  ASSUME AuthorInv, Validate
  PROVE  AuthorInv'
<1>. DEFINE a == records[valid + 1]
            K == Checks(buildRecord(a, DOMAIN rows.entry), rows.act)
<1>1. /\ call.at = "validating" /\ valid < Len(records) /\ valid' = valid + 1
      /\ checked' = checked \cup K /\ UNCHANGED <<rows, saved, call, records, queued>>
  BY DEF Validate
<1>2. records \in Seq(Acts) /\ valid \in 0..Len(records) /\ call # Idle /\ saved # None
  BY <1>1 DEF AuthorInv, AuthorTypeOK, CallAdds, Idle
<1>3. valid' \in 0..Len(records) /\ valid' \in 1..Len(records) /\ valid' = valid + 1 /\ 1..valid' = (1..valid) \cup {valid + 1}
  BY <1>1, <1>2
<1>4. AuthorTypeOK'
  BY <1>1, <1>3 DEF AuthorInv, AuthorTypeOK
<1>5. CallAdds'
  BY <1>1 DEF AuthorInv, CallAdds
<1>6. QueuedInStep' /\ Committed' = Committed
  BY <1>1 DEF AuthorInv, QueuedInStep, Committed
<1>7. \A i \in 1..Len(records) : records[i] \in DOMAIN rows.act
  BY <1>2, RangeEquality DEF AuthorInv, CallAdds
<1>8. ASSUME NEW b \in DOMAIN rows.act, ValidatedIn(rows, checked, b) PROVE ValidatedIn(rows', checked', b)
  <2>1. Within(rows, rows) /\ Within(rows, rows')
    BY <1>1 DEF Within
  <2>. HIDE DEF K
  <2>. QED BY <1>1, <1>8, <2>1, AuthorFacts, StillValidated
<1>9. ValidatedIn(rows', checked', a)
  <2>1. a \in DOMAIN rows.act
    BY <1>3, <1>7
  <2>2. ValidatedIn(rows, K, a)
    BY <2>1, AuthorFacts, ChecksEnough
  <2>3. Within(rows, rows) /\ Within(rows, rows')
    BY <1>1 DEF Within
  <2>. HIDE DEF a, K
  <2>. QED BY <1>1, <2>1, <2>2, <2>3, AuthorFacts, StillValidated
<1>10. AllValidated'
  <2>. HIDE DEF K
  <2>1. \A b \in DOMAIN Committed.act \ Founding : ValidatedIn(rows', checked', b)
    BY <1>8, AuthorFacts, AllValidatedHere DEF AuthorInv, Within
  <2>2. \A i \in 1..valid : ValidatedIn(rows', checked', records[i])
    BY <1>2, <1>7, <1>8, AllValidatedHere DEF AuthorInv
  <2>3. \A i \in 1..valid' : ValidatedIn(rows', checked', records'[i])
    BY <1>1, <1>3, <1>9, <2>2
  <2>. QED BY <1>6, <2>1, <2>3, AllValidatedNext
<1>. QED BY <1>4, <1>5, <1>6, <1>10 DEF AuthorInv

(* callZome: the commit, after which the ops are queued.                   *)
LEMMA CommitStep ==
  ASSUME AuthorInv, Commit
  PROVE  AuthorInv'
<1>1. /\ call.at = "validating" /\ valid = Len(records) /\ saved # None /\ saved' = None /\ rows' = rows
      /\ call' = Idle /\ records' = <<>> /\ valid' = 0
      /\ queued' = queued \cup OpsOf(Range(records), rows) /\ checked' = checked
  BY DEF Commit, commitTransaction, EndCall
<1>2. Committed = saved /\ Committed' = rows
  BY <1>1 DEF Committed
<1>3. records \in Seq(Acts) /\ DOMAIN rows.act = DOMAIN saved.act \cup Range(records)
  BY <1>1 DEF AuthorInv, AuthorTypeOK, CallAdds
<1>4. AuthorTypeOK'
  BY <1>1 DEF AuthorInv, AuthorTypeOK
<1>5. CallAdds'
  BY <1>1 DEF CallAdds, Idle
<1>6. QueuedInStep'
  <2>1. OpsOf(DOMAIN rows.act, rows) = OpsOf(DOMAIN saved.act, saved) \cup OpsOf(Range(records), rows)
    BY <1>2, <1>3, AuthorFacts, OpsOfMore
  <2>. QED BY <1>1, <1>2, <2>1 DEF AuthorInv, QueuedInStep
<1>7. AllValidated'
  <2>1. ASSUME NEW a \in DOMAIN rows.act \ Founding PROVE ValidatedIn(rows, checked, a)
    <3>1. CASE a \in DOMAIN saved.act
      BY <1>2, <2>1, <3>1, AllValidatedHere DEF AuthorInv
    <3>2. CASE a \in Range(records)
      <4>1. PICK i \in 1..Len(records) : a = records[i]
        BY <1>3, <3>2, RangeEquality
      <4>. QED BY <1>1, <4>1, AllValidatedHere DEF AuthorInv
    <3>. QED BY <1>3, <2>1, <3>1, <3>2
  <2>. QED BY <1>1, <1>2, <2>1, AllValidatedNext
<1>. QED BY <1>4, <1>5, <1>6, <1>7 DEF AuthorInv

(* callZome: the rollback.                                                 *)
LEMMA FailStep ==
  ASSUME AuthorInv, Fail
  PROVE  AuthorInv'
<1>1. /\ saved # None /\ rows' = saved /\ saved' = None /\ call' = Idle /\ records' = <<>> /\ valid' = 0
      /\ checked' = {k \in checked : k.act \notin Range(records)} /\ queued' = queued
  BY DEF Fail, rollbackTransaction, EndCall
<1>2. Committed = saved /\ Committed' = saved
  BY <1>1 DEF Committed
<1>3. AuthorTypeOK'
  BY <1>1 DEF AuthorInv, AuthorTypeOK
<1>4. CallAdds'
  BY <1>1 DEF CallAdds, Idle
<1>5. QueuedInStep'
  BY <1>1, <1>2 DEF AuthorInv, QueuedInStep
<1>6. AllValidated'
  <2>1. ASSUME NEW a \in DOMAIN saved.act \ Founding PROVE ValidatedIn(rows', checked', a)
    <3>1. Within(saved, rows) /\ Within(saved, rows') /\ a \notin Range(records)
      BY <1>1, <1>2, <2>1, AuthorFacts DEF AuthorInv, CallAdds, Within
    <3>2. ValidatedIn(rows, checked, a)
      BY <1>2, <2>1, AllValidatedHere DEF AuthorInv
    <3>3. \A k \in checked : k.act = a => k \in checked'
      BY <1>1, <3>1
    <3>. QED BY <1>2, <2>1, <3>1, <3>2, <3>3, AuthorFacts, StillValidated
  <2>. QED BY <1>1, <1>2, <2>1, AllValidatedNext
<1>. QED BY <1>3, <1>4, <1>5, <1>6 DEF AuthorInv

(* handlePublishAllRecords.                                                *)
LEMMA RepublishStep ==
  ASSUME AuthorInv, NEW c \in Cells, Republish(c)
  PROVE  AuthorInv'
<1>1. /\ call = Idle /\ queued' = queued \cup OpsOf(OfCell(rows, c), rows)
      /\ UNCHANGED <<rows, saved, call, records, valid, checked>>
  BY DEF Republish
<1>2. Committed = rows /\ Committed' = rows
  BY <1>1 DEF AuthorInv, CallAdds, Committed
<1>3. queued' = queued
  <2>1. DOMAIN rows.act = DOMAIN rows.act \cup OfCell(rows, c)
    BY DEF OfCell
  <2>2. OpsOf(DOMAIN rows.act, rows) = OpsOf(DOMAIN rows.act, rows) \cup OpsOf(OfCell(rows, c), rows)
    BY <2>1, AuthorFacts, OpsOfMore
  <2>. QED BY <1>1, <1>2, <2>2 DEF AuthorInv, QueuedInStep
<1>. QED BY <1>1, <1>2, <1>3, AllValidatedHere, AllValidatedNext
         DEF AuthorInv, AuthorTypeOK, CallAdds, QueuedInStep

(* Calls keep rows, records, queue and checks together: the invariant of   *)
(* the calls is inductive.                                                 *)
LEMMA AuthorStep == AuthorInv /\ [Next]_<<part, authorVars, cachedVars>> => AuthorInv'
<1>. SUFFICES ASSUME AuthorInv, [Next]_<<part, authorVars, cachedVars>> PROVE AuthorInv'
  OBVIOUS
<1>1. CASE AuthorNext
  BY <1>1, RunGenesisStep, AuthorBeginStep, HostWriteStep, ReturnedStep, ValidateStep, CommitStep, FailStep,
     RepublishStep DEF AuthorNext
<1>2. CASE UNCHANGED authorVars
  <2>1. UNCHANGED <<rows, saved, call, records, valid, checked, queued>> /\ Committed' = Committed
    BY <1>2 DEF authorVars, Committed
  <2>. QED BY <2>1, AllValidatedHere, AllValidatedNext DEF AuthorInv, AuthorTypeOK, CallAdds, QueuedInStep
<1>. QED BY <1>1, <1>2 DEF Next

(* The invariant of the calls over the row store (callZome,                *)
(* initializeGenesis): the rows are in order, a call only adds to them,    *)
(* the queue has the ops of what is committed, and nothing was committed   *)
(* unvalidated.                                                            *)
THEOREM AuthorInvariant == Spec => []AuthorInv
<1>1. Init => AuthorInv
  BY AuthorInitInv DEF Init
<1>. QED BY <1>1, AuthorStep, PTL DEF Spec

(***************************************************************************)
(* What the authorities answer                                             *)
(***************************************************************************)
(* Between calls the queue holds the ops of the rows.                      *)
LEMMA IdleQueue ==
  ASSUME AuthorInv, call = Idle
  PROVE  /\ ClosedRows(rows) /\ LinkRows(rows) /\ RowsInv(rows) /\ DOMAIN rows.act \subseteq Acts
         /\ DOMAIN rows.entry \subseteq Entries /\ queued = OpsOf(DOMAIN rows.act, rows)
<1>1. Committed = rows /\ RowsInv(rows)
  BY DEF AuthorInv, AuthorTypeOK, CallAdds, Committed
<1>. QED BY <1>1, AuthorFacts, RowFacts DEF AuthorInv, QueuedInStep, RowsInv

(* Why the authorities agree: the queue is in step with the rows.          *)
LEMMA AgreesNow ==
  ASSUME AuthorInv
  PROVE  AuthorityAgrees
<1>1. SUFFICES ASSUME call = Idle, NEW c \in Cells
               PROVE  /\ At(Author, "RegisterAgentActivity", c) = OfCell(rows, c)
                      /\ \A a \in OfCell(rows, c) :
                           /\ At(a, "StoreRecord", c) = {a}
                           /\ At(a, "RegisterUpdatedRecord", c) = Upon(a, "Update", rows, c)
                           /\ At(a, "RegisterDeletedBy", c) = Upon(a, "Delete", rows, c)
                      /\ \A e \in DOMAIN rows.entry :
                           getEntryDetails(rows, e, c) =
                             [actions |-> At(e, "StoreEntry", c), updates |-> At(e, "RegisterUpdatedContent", c),
                              deletes |-> At(e, "RegisterDeletedEntryAction", c)]
                      /\ \A b \in Entries \cup Acts :
                           getLinks(rows, b, c) =
                             {l \in At(b, "RegisterAddLink", c) :
                                \A d \in Cells : \A x \in At(b, "RegisterRemoveLink", d) : About[x].original # l}
  BY DEF AuthorityAgrees
<1>2. /\ ClosedRows(rows) /\ LinkRows(rows) /\ DOMAIN rows.act \subseteq Acts
      /\ DOMAIN rows.entry \subseteq Entries /\ queued = OpsOf(DOMAIN rows.act, rows)
  BY <1>1, IdleQueue
<1>3. \A b, t, d : At(b, t, d) = {a \in DOMAIN rows.act : About[a].cell = d /\ t \in OpTypes(a) /\ Basis(t, a) = b}
  BY <1>2, AtFacts
<1>4. At(Author, "RegisterAgentActivity", c) = OfCell(rows, c)
  BY <1>2, <1>3, BasisFacts DEF OfCell
<1>5. ASSUME NEW a \in OfCell(rows, c)
      PROVE  /\ At(a, "StoreRecord", c) = {a}
             /\ At(a, "RegisterUpdatedRecord", c) = Upon(a, "Update", rows, c)
             /\ At(a, "RegisterDeletedBy", c) = Upon(a, "Delete", rows, c)
  <2>1. At(a, "StoreRecord", c) = {a}
    BY <1>2, <1>3, BasisFacts DEF OfCell
  <2>2. At(a, "RegisterUpdatedRecord", c) = Upon(a, "Update", rows, c)
    BY <1>2, <1>3, BasisFacts DEF OfCell, Upon
  <2>3. At(a, "RegisterDeletedBy", c) = Upon(a, "Delete", rows, c)
    BY <1>2, <1>3, BasisFacts DEF OfCell, Upon
  <2>. QED BY <2>1, <2>2, <2>3
<1>6. ASSUME NEW e \in DOMAIN rows.entry
      PROVE  getEntryDetails(rows, e, c) =
               [actions |-> At(e, "StoreEntry", c), updates |-> At(e, "RegisterUpdatedContent", c),
                deletes |-> At(e, "RegisterDeletedEntryAction", c)]
  <2>1. At(e, "StoreEntry", c) = WithEntry(rows, e) \cap OfCell(rows, c)
    <3>1. e # None
      BY <1>2, ChainActionsAssumption
    <3>2. \A a \in DOMAIN rows.act : About[a].entry = e => isEntryAction(a)
      BY <1>2, <3>1, AboutFacts
    <3>. QED BY <1>2, <1>3, <3>2, BasisFacts DEF WithEntry, OfCell
  <2>2. At(e, "RegisterUpdatedContent", c) = UpdatesOf(rows, e, c)
    BY <1>2, <1>3, BasisFacts DEF UpdatesOf, OfCell
  <2>3. At(e, "RegisterDeletedEntryAction", c) = DeletesOf(rows, e, c)
    BY <1>2, <1>3, BasisFacts DEF DeletesOf, OfCell
  <2>. QED BY <2>1, <2>2, <2>3 DEF getEntryDetails
<1>7. ASSUME NEW b \in Entries \cup Acts
      PROVE  getLinks(rows, b, c) =
               {l \in At(b, "RegisterAddLink", c) :
                  \A d \in Cells : \A x \in At(b, "RegisterRemoveLink", d) : About[x].original # l}
  <2>1. At(b, "RegisterAddLink", c) = {a \in DOMAIN rows.act : About[a].cell = c /\ About[a].type = "CreateLink" /\ Base(a) = b}
    BY <1>2, <1>3, BasisFacts
  <2>2. \A d : At(b, "RegisterRemoveLink", d) =
                 {a \in DOMAIN rows.act : About[a].cell = d /\ About[a].type = "DeleteLink" /\ Base(a) = b}
    BY <1>2, <1>3, BasisFacts
  <2>3. DOMAIN rows.link = {a \in DOMAIN rows.act : About[a].type = "CreateLink"}
    BY <1>2 DEF LinkRows
  <2>4. ASSUME NEW l \in DOMAIN rows.link, Base(l) = b
        PROVE  rows.link[l] = None <=> \A d \in Cells : \A x \in At(b, "RegisterRemoveLink", d) : About[x].original # l
    <3>1. ASSUME NEW x \in DOMAIN rows.act, About[x].type = "DeleteLink", About[x].original = l
          PROVE  About[x].cell \in Cells /\ x \in At(b, "RegisterRemoveLink", About[x].cell)
      <4>1. Base(x) = b
        BY <2>3, <2>4, <3>1 DEF Base
      <4>. QED BY <1>2, <2>2, <3>1, <4>1, AboutFacts
    <3>2. rows.link[l] = None <=> \A x \in DOMAIN rows.act : About[x].type = "DeleteLink" => About[x].original # l
      BY <1>2 DEF LinkRows
    <3>3. \A d : \A x \in At(b, "RegisterRemoveLink", d) : x \in DOMAIN rows.act /\ About[x].type = "DeleteLink"
      BY <2>2
    <3>. QED BY <3>1, <3>2, <3>3
  <2>. QED BY <2>1, <2>3, <2>4 DEF getLinks
<1>. QED BY <1>4, <1>5, <1>6, <1>7

(* An authority that holds the published ops of an address answers about   *)
(* it as the author's own storage does (actionToOpTypes, computeOpBasis,   *)
(* publish of the pending records): AuthorityAgrees of Authoring.          *)
THEOREM AuthoritiesAgree == Spec => []AuthorityAgrees
BY AuthorInvariant, AgreesNow, PTL

(* Why what is queued is validated.                                        *)
LEMMA ValidatedNow ==
  ASSUME AuthorInv
  PROVE  OpsValidated
<1>1. SUFFICES ASSUME NEW q \in queued, \A c \in Cells : q.act \notin Range(Genesis[c]), Faithful(q.act),
                      NEW z \in (IF q.type = "RegisterAgentActivity" \/ DefinedIn(q.act) = None
                                 THEN Zomes ELSE {DefinedIn(q.act)}) \ NoWasm
               PROVE  [act |-> q.act, op |-> Variant(q.type), zome |-> z] \in checked
  BY DEF OpsValidated
<1>2. q \in OpsOf(DOMAIN Committed.act, Committed)
  BY <1>1 DEF AuthorInv, QueuedInStep
<1>3. PICK a \in DOMAIN Committed.act : \E t \in OpTypes(a) : q = OpOf(t, a)
  BY <1>2, AuthorFacts, OpsOfFacts
<1>4. PICK t \in OpTypes(a) : q = OpOf(t, a)
  BY <1>3
<1>5. q.act = a /\ q.type = t
  BY <1>4 DEF OpOf
<1>6. Validated(a)
  BY <1>1, <1>5 DEF AuthorInv, AllValidated, Founding
<1>. QED BY <1>1, <1>4, <1>5, <1>6 DEF Validated

(* Nothing of a call is published that the integrity zomes did not find    *)
(* valid (invokeInlineValidation before the commit, getZomesToInvoke).     *)
THEOREM PublishedIsValidated == Spec => []OpsValidated
BY AuthorInvariant, ValidatedNow, PTL

(***************************************************************************)
(* Recovery: induction, and lists in the order of the chain                *)
(***************************************************************************)
(* One record is stored.                                                   *)
Recovered(s, p, c) == updateChainHead(PutRecoveredEntry(PutRecovered(s, p), p), c, p.seq, p.act)

(* Induction, of a set: a counterexample would be the end of an injection  *)
(* of a finite set into itself that misses 0.                              *)
LEMMA SetInduction ==
  ASSUME NEW S \in SUBSET Nat, 0 \in S, \A n \in S : n + 1 \in S
  PROVE  S = Nat
<1>. SUFFICES ASSUME NEW x \in Nat, x \notin S
              PROVE  FALSE
  OBVIOUS
<1>. DEFINE T == {n \in 0..x : n \in S}
            next == [n \in T |-> n + 1]
<1>1. IsFiniteSet(0..x) /\ T \in SUBSET (0..x)
  BY FS_Interval
<1>2. IsFiniteSet(T)
  <2>. HIDE DEF T
  <2>. QED BY <1>1, FS_Subset
<1>3. \A n \in T : n + 1 \in T
  OBVIOUS
<1>4. next \in Injection(T, T)
  <2>1. next \in [T -> T]
    BY <1>3
  <2>2. \A m, n \in DOMAIN next : next[m] = next[n] => m = n
    OBVIOUS
  <2>. HIDE DEF next, T
  <2>. QED BY <2>1, <2>2 DEF Injection, IsInjective
<1>5. next \in Surjection(T, T)
  <2>. HIDE DEF next, T
  <2>. QED BY <1>2, <1>4, FS_Injection
<1>6. 0 \in T
  OBVIOUS
<1>7. PICK n \in T : next[n] = 0
  BY <1>5, <1>6 DEF Surjection
<1>. QED BY <1>7

(* The states of the store while a list is stored.                         *)
Storing(f, r, found, c) ==
  f = [i \in 0..Len(found) |-> IF i = 0 THEN r ELSE Recovered(f[i - 1], found[i], c)]

(* storeRecoveredRecords is a recursive function: there is one for a list  *)
(* of any length.                                                          *)
LEMMA StoredExists ==
  ASSUME NEW r, NEW c, NEW found, NEW n \in Nat
  PROVE  \E f : f = [i \in 0..n |-> IF i = 0 THEN r ELSE Recovered(f[i - 1], found[i], c)]
<1>. DEFINE S == {k \in Nat : \E f : f = [i \in 0..k |-> IF i = 0 THEN r ELSE Recovered(f[i - 1], found[i], c)]}
<1>1. 0 \in S
  <2>. DEFINE f == [i \in 0..0 |-> r]
  <2>1. f = [i \in 0..0 |-> IF i = 0 THEN r ELSE Recovered(f[i - 1], found[i], c)]
    OBVIOUS
  <2>. HIDE DEF f
  <2>. QED BY <2>1
<1>2. ASSUME NEW k \in S PROVE k + 1 \in S
  <2>1. PICK f : f = [i \in 0..k |-> IF i = 0 THEN r ELSE Recovered(f[i - 1], found[i], c)]
    OBVIOUS
  <2>. DEFINE g == [i \in 0..(k + 1) |-> IF i = k + 1 THEN Recovered(f[k], found[k + 1], c) ELSE f[i]]
  <2>2. k \in Nat
    OBVIOUS
  <2>3. \A i \in 0..k : f[i] = IF i = 0 THEN r ELSE Recovered(f[i - 1], found[i], c)
    BY <2>1
  <2>4. \A i \in 0..(k + 1) : g[i] = IF i = k + 1 THEN Recovered(f[k], found[k + 1], c) ELSE f[i]
    OBVIOUS
  <2>5. \A i \in 0..(k + 1) : g[i] = IF i = 0 THEN r ELSE Recovered(g[i - 1], found[i], c)
    <3>1. ASSUME NEW i \in 0..(k + 1), i # 0 PROVE g[i - 1] = f[i - 1]
      BY <2>2, <2>4, <3>1
    <3>. HIDE DEF g
    <3>. QED BY <2>2, <2>3, <2>4, <3>1
  <2>6. g = [i \in 0..(k + 1) |-> g[i]]
    OBVIOUS
  <2>. HIDE DEF g
  <2>7. g = [i \in 0..(k + 1) |-> IF i = 0 THEN r ELSE Recovered(g[i - 1], found[i], c)]
    BY <2>5, <2>6
  <2>. QED BY <2>2, <2>7
<1>3. S = Nat
  <2>. HIDE DEF S
  <2>1. S \subseteq Nat
    BY DEF S
  <2>. QED BY <1>1, <1>2, <2>1, SetInduction
<1>. QED BY <1>3

(* What storeRecoveredRecords returns, by that function.                   *)
LEMMA StoredFacts ==
  ASSUME NEW r, NEW c, NEW T, NEW found \in Seq(T), NEW forged
  PROVE  \E f :
    /\ Storing(f, r, found, c)
    /\ storeRecoveredRecords(r, c, found, forged) =
         IF \A p \in Range(found) : verifyActionSignature(p, forged) THEN f[Len(found)] ELSE r
<1>. DEFINE stored == CHOOSE f : f = [i \in 0..Len(found) |-> IF i = 0 THEN r ELSE Recovered(f[i - 1], found[i], c)]
<1>1. stored = [i \in 0..Len(found) |-> IF i = 0 THEN r ELSE Recovered(stored[i - 1], found[i], c)]
  <2>1. Len(found) \in Nat
    OBVIOUS
  <2>. QED BY <2>1, StoredExists
<1>2. storeRecoveredRecords(r, c, found, forged) =
         IF \A p \in Range(found) : verifyActionSignature(p, forged) THEN stored[Len(found)] ELSE r
  BY DEF storeRecoveredRecords, Recovered
<1>. HIDE DEF stored
<1>3. Storing(stored, r, found, c)
  BY <1>1 DEF Storing
<1>. QED BY <1>2, <1>3
Rank(F, p) == Cardinality({q \in F : q.seq < p.seq})

(* The n-th of some records by their sequence numbers.                     *)
LEMMA RankFacts ==
  ASSUME NEW F, IsFiniteSet(F), \A p \in F : p.seq \in Nat, \A p, q \in F : p.seq = q.seq => p = q
  PROVE  /\ \A p \in F : Rank(F, p) \in 0..(Cardinality(F) - 1)
         /\ \A p, q \in F : p.seq < q.seq => Rank(F, p) < Rank(F, q)
         /\ \A i \in 0..(Cardinality(F) - 1) : \E p \in F : Rank(F, p) = i
<1>. DEFINE n == Cardinality(F)
            Below(p) == {q \in F : q.seq < p.seq}
<1>1. n \in Nat
  BY FS_CardinalityType
<1>2. ASSUME NEW p \in F
      PROVE  IsFiniteSet(Below(p)) /\ Rank(F, p) \in 0..(n - 1)
  <2>1. IsFiniteSet(F \ {p}) /\ Cardinality(F \ {p}) = n - 1
    BY FS_RemoveElement
  <2>2. Below(p) \in SUBSET (F \ {p})
    OBVIOUS
  <2>. HIDE DEF Below, n
  <2>3. IsFiniteSet(Below(p)) /\ Cardinality(Below(p)) <= n - 1
    BY <2>1, <2>2, FS_Subset
  <2>4. Cardinality(Below(p)) \in Nat
    BY <2>3, FS_CardinalityType
  <2>. QED BY <1>1, <2>3, <2>4 DEF Rank, Below
<1>3. ASSUME NEW p \in F, NEW q \in F, p.seq < q.seq
      PROVE  Rank(F, p) < Rank(F, q)
  <2>1. Below(p) \cup {p} \in SUBSET Below(q) /\ p \notin Below(p)
    BY <1>3
  <2>2. Cardinality(Below(p) \cup {p}) = Cardinality(Below(p)) + 1
    BY <1>2, <2>1, FS_AddElement
  <2>3. Cardinality(Below(p) \cup {p}) <= Cardinality(Below(q))
    BY <1>2, <2>1, FS_Subset
  <2>4. Cardinality(Below(p)) \in Nat /\ Cardinality(Below(q)) \in Nat
    BY <1>2, FS_CardinalityType
  <2>5. Cardinality(Below(p)) < Cardinality(Below(q))
    <3>. HIDE DEF Below
    <3>. QED BY <2>2, <2>3, <2>4
  <2>. QED BY <2>5 DEF Rank
<1>4. \A i \in 0..(n - 1) : \E p \in F : Rank(F, p) = i
  <2>. DEFINE f == [p \in F |-> Rank(F, p)]
  <2>1. f \in [F -> 0..(n - 1)]
    BY <1>2
  <2>2. ASSUME NEW p \in F, NEW q \in F, f[p] = f[q] PROVE p = q
    <3>1. Rank(F, p) \in Nat /\ Rank(F, q) \in Nat /\ Rank(F, p) = Rank(F, q)
      <4>1. f[p] = Rank(F, p) /\ f[q] = Rank(F, q)
        OBVIOUS
      <4>2. \A i \in 0..(n - 1) : i \in Nat
        BY <1>1
      <4>. HIDE DEF n, f
      <4>. QED BY <1>2, <2>2, <4>1, <4>2
    <3>2. ~(p.seq < q.seq) /\ ~(q.seq < p.seq)
      BY <1>3, <3>1
    <3>. QED BY <3>2
  <2>3. f \in Injection(F, 0..(n - 1))
    <3>. HIDE DEF f, n
    <3>. QED BY <2>1, <2>2 DEF Injection, IsInjective
  <2>4. IsFiniteSet(0..(n - 1)) /\ Cardinality(0..(n - 1)) = n
    BY <1>1, FS_Interval
  <2>. HIDE DEF f
  <2>5. f \in Surjection(F, 0..(n - 1))
    BY <2>3, <2>4, FS_Injection
  <2>6. \A i \in 0..(n - 1) : \E p \in F : f[p] = i
    BY <2>1, <2>5 DEF Surjection
  <2>. QED BY <2>6 DEF f
<1>. QED BY <1>2, <1>3, <1>4

(* The records in the order of the chain.                                  *)
ByRank(F) == [i \in 1..Cardinality(F) |-> CHOOSE p \in F : Rank(F, p) = i - 1]

(* The sequence of the records has all of them, the last one last.         *)
LEMMA ByRankFacts ==
  ASSUME NEW F, IsFiniteSet(F), \A p \in F : p.seq \in Nat, \A p, q \in F : p.seq = q.seq => p = q
  PROVE  /\ ByRank(F) \in Seq(F) /\ Range(ByRank(F)) = F
         /\ Len(ByRank(F)) = Cardinality(F) /\ Cardinality(F) \in Nat
         /\ \A p \in F : Cardinality(F) # 0 /\ p.seq <= ByRank(F)[Cardinality(F)].seq
<1>. DEFINE n == Cardinality(F)
            l == ByRank(F)
<1>1. n \in Nat
  BY FS_CardinalityType
<1>2. \A p \in F : Rank(F, p) \in 0..(n - 1)
  BY RankFacts
<1>3. \A p, q \in F : p.seq < q.seq => Rank(F, p) < Rank(F, q)
  BY RankFacts
<1>4. \A i \in 0..(n - 1) : \E p \in F : Rank(F, p) = i
  BY RankFacts
<1>5. \A i \in 1..n : l[i] = CHOOSE p \in F : Rank(F, p) = i - 1
  BY DEF ByRank
<1>6. DOMAIN l = 1..n /\ l = [i \in 1..n |-> l[i]]
  BY DEF ByRank
<1>. HIDE DEF n, l
<1>7. ASSUME NEW i \in 1..n PROVE l[i] \in F /\ Rank(F, l[i]) = i - 1
  <2>1. i - 1 \in 0..(n - 1)
    BY <1>1
  <2>2. \E p \in F : Rank(F, p) = i - 1
    BY <1>4, <2>1
  <2>. QED BY <1>5, <2>2
<1>8. l \in Seq(F) /\ Len(l) = n
  <2>1. l \in [1..n -> F]
    BY <1>6, <1>7
  <2>. QED BY <1>1, <2>1, <1>6, LenProperties, SeqDef
<1>9. ASSUME NEW p \in F PROVE n # 0 /\ p.seq <= l[n].seq /\ \E i \in 1..n : l[i] = p
  <2>1. Rank(F, p) \in 0..(n - 1)
    BY <1>2
  <2>2. n # 0 /\ Rank(F, p) + 1 \in 1..n /\ n \in 1..n
    BY <1>1, <2>1
  <2>3. l[n] \in F /\ Rank(F, l[n]) = n - 1
    BY <1>7, <2>2
  <2>4. ~(l[n].seq < p.seq)
    BY <1>1, <1>3, <2>1, <2>3
  <2>5. p.seq <= l[n].seq
    BY <2>3, <2>4
  <2>6. l[Rank(F, p) + 1] = p
    <3>1. l[Rank(F, p) + 1] \in F /\ Rank(F, l[Rank(F, p) + 1]) = Rank(F, p)
      BY <1>1, <1>7, <2>1, <2>2
    <3>2. \A q \in F : Rank(F, q) = Rank(F, p) => q.seq = p.seq
      <4>1. ASSUME NEW q \in F, Rank(F, q) = Rank(F, p) PROVE q.seq = p.seq
        <5>1. ~(q.seq < p.seq) /\ ~(p.seq < q.seq)
          BY <1>3, <2>1, <4>1
        <5>. QED BY <5>1
      <4>. QED BY <4>1
    <3>. QED BY <3>1, <3>2
  <2>. QED BY <2>2, <2>5, <2>6
<1>10. Range(l) = F
  BY <1>6, <1>7, <1>9 DEF Range
<1>. QED BY <1>1, <1>8, <1>9, <1>10 DEF n, l

(***************************************************************************)
(* What a recovery stores                                                  *)
(***************************************************************************)
(* A record as it was published: with its entry, if it has one.            *)
Published(r, a) ==
  [act |-> a, seq |-> r.act[a].seq, zome |-> r.act[a].zome,
   entry |-> IF isEntryAction(a) THEN About[a].entry ELSE None]

PublishedOf(r, K) == {Published(r, a) : a \in K}

(* Part of the chain of a cell: some of its rows, with their entries.      *)
Partial(s, r, c) ==
  /\ s \in Contents /\ DOMAIN s.act \subseteq OfCell(r, c)
  /\ \A a \in DOMAIN s.act : s.act[a] = r.act[a] /\ (isEntryAction(a) => About[a].entry \in DOMAIN s.entry)

(* A recovered action takes away no row but its own.                       *)
LEMMA RecoveredPut ==
  ASSUME NEW r, RowsInv(r), NEW c \in Cells, NEW s, Partial(s, r, c), NEW a \in OfCell(r, c),
         NEW p, p = Published(r, a)
  PROVE  LET t == PutRecovered(s, p)
         IN /\ t = [act |-> t.act, entry |-> s.entry, link |-> s.link, head |-> s.head]
            /\ t.act \in Tables(Acts, RowType) /\ DOMAIN t.act = DOMAIN s.act \cup {a}
            /\ \A b \in DOMAIN t.act : t.act[b] = r.act[b]
<1>. DEFINE Collides(b) == b = a \/ (About[b].cell = About[a].cell /\ s.act[b].seq = p.seq)
            kept == {b \in DOMAIN s.act : ~Collides(b)}
            t == PutRecovered(s, p)
<1>1. a \in DOMAIN r.act /\ About[a].cell = c /\ ChainRows(r) /\ r \in Contents /\ s \in Contents
  BY DEF OfCell, RowsInv, Partial
<1>2. r.act[a] \in RowType /\ a \in Acts
  BY <1>1, RowFacts
<1>3. Row(p.seq, p.zome) = r.act[a] /\ p.act = a /\ p.seq = r.act[a].seq
  BY <1>2 DEF Row, RowType, Published
<1>4. \A b \in DOMAIN s.act : b \in DOMAIN r.act /\ About[b].cell = c /\ s.act[b] = r.act[b]
  BY DEF Partial, OfCell
<1>5. kept = DOMAIN s.act \ {a}
  BY <1>1, <1>3, <1>4 DEF ChainRows
<1>6. t = [s EXCEPT !.act = Upsert(Restrict(s.act, kept), a, Row(p.seq, p.zome))]
  BY <1>3 DEF PutRecovered, putAction
<1>7. s = [act |-> s.act, entry |-> s.entry, link |-> s.link, head |-> s.head] /\ s.act \in Tables(Acts, RowType)
  BY <1>1, ContentFacts
<1>8. Restrict(s.act, kept) \in Tables(Acts, RowType)
      /\ DOMAIN Restrict(s.act, kept) = kept /\ \A b \in kept : Restrict(s.act, kept)[b] = s.act[b]
  <2>1. kept \in SUBSET DOMAIN s.act
    BY <1>5
  <2>. HIDE DEF kept
  <2>. QED BY <1>7, <2>1, RestrictType DEF Restrict
<1>. HIDE DEF kept, t
<1>9. t.act = Upsert(Restrict(s.act, kept), a, r.act[a])
      /\ t = [act |-> t.act, entry |-> s.entry, link |-> s.link, head |-> s.head]
  BY <1>3, <1>6, <1>7
<1>10. t.act \in Tables(Acts, RowType)
  BY <1>2, <1>8, <1>9, UpsertType
<1>11. DOMAIN t.act = DOMAIN s.act \cup {a} /\ \A b \in DOMAIN t.act : t.act[b] = r.act[b]
  BY <1>4, <1>5, <1>8, <1>9 DEF Upsert
<1>. QED BY <1>9, <1>10, <1>11 DEF t

(* A recovered record adds its row, its entry and moves the head.          *)
LEMMA RecoveredOne ==
  ASSUME NEW r, RowsInv(r), NEW c \in Cells, NEW s, Partial(s, r, c), NEW a \in OfCell(r, c),
         NEW p, p = Published(r, a), NEW w, w = Recovered(s, p, c)
  PROVE  /\ Partial(w, r, c) /\ DOMAIN w.act = DOMAIN s.act \cup {p.act}
         /\ w.head[c] = [seq |-> p.seq, act |-> p.act]
<1>. DEFINE t == PutRecovered(s, p)
            u == PutRecoveredEntry(t, p)
<1>1. /\ t = [act |-> t.act, entry |-> s.entry, link |-> s.link, head |-> s.head]
      /\ t.act \in Tables(Acts, RowType) /\ DOMAIN t.act = DOMAIN s.act \cup {a}
      /\ \A b \in DOMAIN t.act : t.act[b] = r.act[b]
  BY RecoveredPut
<1>2. w = updateChainHead(u, c, p.seq, p.act)
  BY DEF Recovered
<1>3. a \in Acts /\ About[a].cell = c /\ r.act[a].seq \in Nat /\ r.act[a] \in RowType
  BY RowFacts DEF OfCell, RowsInv
<1>4. p.act = a /\ p.seq = r.act[a].seq /\ p.entry = (IF isEntryAction(a) THEN About[a].entry ELSE None)
  BY DEF Published
<1>5. s \in Contents /\ s.entry \in Tables(Entries, Cells) /\ s.link \in Tables(Acts, Acts \cup {None})
      /\ s.head \in [Cells -> HeadType \cup {None}]
  BY ContentFacts DEF Partial
<1>. HIDE DEF t
<1>6. /\ u = [act |-> t.act, entry |-> u.entry, link |-> s.link, head |-> s.head]
      /\ u.entry \in Tables(Entries, Cells) /\ DOMAIN s.entry \subseteq DOMAIN u.entry
      /\ isEntryAction(a) => About[a].entry \in DOMAIN u.entry
  <2>1. CASE isEntryAction(a)
    <3>1. About[a].entry \in Entries /\ p.entry = About[a].entry /\ p.entry # None
      BY <1>3, <1>4, <2>1, AboutFacts, ChainActionsAssumption
    <3>2. u = [t EXCEPT !.entry = Upsert(t.entry, About[a].entry, c)]
      BY <1>3, <1>4, <3>1 DEF PutRecoveredEntry, putEntry
    <3>3. u.entry = Upsert(s.entry, About[a].entry, c)
          /\ u = [act |-> t.act, entry |-> u.entry, link |-> s.link, head |-> s.head]
      <4>. HIDE DEF u
      <4>. QED BY <1>1, <3>2
    <3>4. Upsert(s.entry, About[a].entry, c) \in Tables(Entries, Cells)
      BY <1>5, <3>1, UpsertType
    <3>5. DOMAIN Upsert(s.entry, About[a].entry, c) = DOMAIN s.entry \cup {About[a].entry}
      BY DEF Upsert
    <3>. HIDE DEF u
    <3>. QED BY <3>3, <3>4, <3>5
  <2>2. CASE ~isEntryAction(a)
    <3>1. u = t
      BY <1>4, <2>2 DEF PutRecoveredEntry
    <3>. HIDE DEF u
    <3>. QED BY <1>1, <1>5, <2>2, <3>1
  <2>. QED BY <2>1, <2>2
<1>. HIDE DEF u
<1>7. /\ w = [act |-> t.act, entry |-> u.entry, link |-> s.link, head |-> w.head]
      /\ w.head = [s.head EXCEPT ![c] = [seq |-> p.seq, act |-> p.act]]
  BY <1>2, <1>6 DEF updateChainHead
<1>8. [seq |-> p.seq, act |-> p.act] \in HeadType
  BY <1>3, <1>4 DEF HeadType
<1>9. w.head[c] = [seq |-> p.seq, act |-> p.act] /\ w.head \in [Cells -> HeadType \cup {None}]
  BY <1>5, <1>7, <1>8
<1>10. w.act = t.act /\ w.entry = u.entry /\ w.link = s.link
  BY <1>7
<1>11. w \in Contents
  BY <1>1, <1>5, <1>6, <1>7, <1>9, <1>10, ContentFacts
<1>12. \A b \in DOMAIN s.act : b \in OfCell(r, c) /\ (isEntryAction(b) => About[b].entry \in DOMAIN s.entry)
  BY DEF Partial
<1>13. Partial(w, r, c)
  BY <1>1, <1>6, <1>10, <1>11, <1>12 DEF Partial
<1>. QED BY <1>1, <1>4, <1>9, <1>10, <1>13

(* The rows are stored one by one, the head with each of them.             *)
LEMMA RecoveredAll ==
  ASSUME NEW r, RowsInv(r), NEW c \in Cells, NEW K \in SUBSET OfCell(r, c), NEW s, Partial(s, r, c),
         NEW found \in Seq(PublishedOf(r, K)), NEW f,
         Storing(f, s, found, c), NEW w, w = f[Len(found)]
  PROVE  /\ Partial(w, r, c) /\ DOMAIN w.act = DOMAIN s.act \cup {p.act : p \in Range(found)}
         /\ Len(found) # 0 => w.head[c] = [seq |-> found[Len(found)].seq, act |-> found[Len(found)].act]
<1>. DEFINE n == Len(found)
            Acted(k) == {found[i].act : i \in 1..k}
            Good(k) == /\ Partial(f[k], r, c) /\ DOMAIN f[k].act = DOMAIN s.act \cup Acted(k)
                       /\ k # 0 => f[k].head[c] = [seq |-> found[k].seq, act |-> found[k].act]
            S == {k \in Nat : k <= n => Good(k)}
<1>1. n \in Nat /\ DOMAIN found = 1..n
  BY LenProperties
<1>2. Good(0)
  <2>1. 0 \in 0..n
    BY <1>1
  <2>2. f[0] = s
    BY <2>1 DEF Storing
  <2>3. Acted(0) = {}
    OBVIOUS
  <2>. HIDE DEF Acted
  <2>. QED BY <2>2, <2>3
<1>3. ASSUME NEW k \in Nat, k + 1 <= n, Good(k) PROVE Good(k + 1)
  <2>1. k \in 0..n /\ k + 1 \in 0..n /\ k + 1 \in 1..n /\ k + 1 # 0 /\ (k + 1) - 1 = k
    BY <1>1, <1>3
  <2>2. f[k + 1] = Recovered(f[k], found[k + 1], c)
    BY <2>1 DEF Storing
  <2>3. found[k + 1] \in PublishedOf(r, K)
    BY <1>1, <2>1, ElementOfSeq
  <2>4. PICK a \in K : found[k + 1] = Published(r, a)
    BY <2>3 DEF PublishedOf
  <2>5. Acted(k + 1) = Acted(k) \cup {found[k + 1].act}
    BY <1>3
  <2>. HIDE DEF Acted
  <2>6. Partial(f[k], r, c) /\ a \in OfCell(r, c) /\ DOMAIN f[k].act = DOMAIN s.act \cup Acted(k)
    BY <1>3
  <2>7. /\ Partial(f[k + 1], r, c) /\ DOMAIN f[k + 1].act = DOMAIN f[k].act \cup {found[k + 1].act}
        /\ f[k + 1].head[c] = [seq |-> found[k + 1].seq, act |-> found[k + 1].act]
    BY <2>2, <2>4, <2>6, RecoveredOne
  <2>. QED BY <2>5, <2>6, <2>7
<1>. HIDE DEF Good
<1>4. S = Nat
  <2>1. S \in SUBSET Nat /\ 0 \in S
    BY <1>2
  <2>2. \A k \in S : k + 1 \in S
    BY <1>1, <1>3
  <2>. HIDE DEF S
  <2>. QED BY <2>1, <2>2, SetInduction
<1>5. Good(n)
  BY <1>1, <1>4
<1>6. Acted(n) = {p.act : p \in Range(found)}
  BY <1>1 DEF Range
<1>. QED BY <1>5, <1>6 DEF Good

(* What is published of a chain, but for some actions, comes in its order. *)
LEMMA RecoveredList ==
  ASSUME AuthorInv, call = Idle, NEW c \in Cells, NEW missing, NEW found, found = recoverChainFromDHT(c, missing),
         NEW K, K = OfCell(rows, c) \ missing
  PROVE  /\ found \in Seq(PublishedOf(rows, K)) /\ Len(found) \in Nat
         /\ {p.act : p \in Range(found)} = K
         /\ \A a \in K : Len(found) # 0 /\ rows.act[a].seq <= found[Len(found)].seq
<1>. DEFINE F == PublishedOf(rows, K)
<1>1. ClosedRows(rows) /\ RowsInv(rows) /\ DOMAIN rows.act \subseteq Acts /\ queued = OpsOf(DOMAIN rows.act, rows)
  BY IdleQueue
<1>2. ChainRows(rows) /\ rows \in Contents
  BY <1>1 DEF RowsInv
<1>3. \A b, t : At(b, t, c) = {a \in DOMAIN rows.act : About[a].cell = c /\ t \in OpTypes(a) /\ Basis(t, a) = b}
  BY <1>1, AtFacts
<1>4. getAgentActivitySync(c) = OfCell(rows, c)
  BY <1>1, <1>3, BasisFacts DEF OfCell, getAgentActivitySync
<1>5. ASSUME NEW a \in K PROVE networkRecordToRecovered(a) = Published(rows, a)
  <2>1. a \in DOMAIN rows.act /\ About[a].cell = c /\ a \in Acts
    BY <1>1 DEF OfCell
  <2>2. isEntryAction(a) => a \in At(About[a].entry, "StoreEntry", About[a].cell)
    BY <1>3, <2>1, BasisFacts
  <2>. QED BY <2>1, <2>2 DEF networkRecordToRecovered, Published
<1>6. {networkRecordToRecovered(a) : a \in getAgentActivitySync(c) \ missing} = F
  BY <1>4, <1>5 DEF PublishedOf
<1>7. found = ByRank(F)
  <2>. DEFINE G == {networkRecordToRecovered(a) : a \in getAgentActivitySync(c) \ missing}
  <2>1. recoverChainFromDHT(c, missing) = ByRank(G)
    BY DEF recoverChainFromDHT, ByRank, Rank
  <2>2. G = F
    BY <1>6
  <2>. HIDE DEF F, G
  <2>. QED BY <2>1, <2>2
<1>8. \A a \in K : /\ Published(rows, a) \in F /\ Published(rows, a).act = a /\ Published(rows, a).seq = rows.act[a].seq
                   /\ rows.act[a].seq \in Nat /\ rows.head[c] # None /\ rows.act[a].seq <= rows.head[c].seq
                   /\ a \in DOMAIN rows.act /\ About[a].cell = c
  BY <1>2, RowFacts DEF Published, PublishedOf, OfCell, ChainRows
<1>9. \A p \in F : \E a \in K : p = Published(rows, a)
  BY DEF PublishedOf
<1>. HIDE DEF F
<1>10. \A p \in F : p.seq \in Nat
  BY <1>8, <1>9
<1>11. ASSUME NEW p \in F, NEW q \in F, p.seq = q.seq PROVE p = q
  <2>1. PICK a \in K : p = Published(rows, a)
    BY <1>9
  <2>2. PICK b \in K : q = Published(rows, b)
    BY <1>9
  <2>3. a = b
    BY <1>2, <1>8, <1>11, <2>1, <2>2 DEF ChainRows
  <2>. QED BY <2>1, <2>2, <2>3
<1>12. IsFiniteSet(F)
  <2>1. CASE F = {}
    BY <2>1, FS_EmptySet
  <2>2. CASE F # {}
    <3>. DEFINE h == [p \in F |-> p.seq]
                m == rows.head[c].seq
    <3>1. rows.head[c] # None /\ m \in Nat
      BY <1>2, <1>8, <1>9, <2>2, RowFacts
    <3>2. h \in [F -> 0..m]
      <4>1. \A p \in F : p.seq \in 0..m
        BY <1>8, <1>9, <3>1
      <4>. QED BY <4>1
    <3>3. \A p, q \in DOMAIN h : h[p] = h[q] => p = q
      BY <1>11
    <3>4. IsFiniteSet(0..m)
      BY <3>1, FS_Interval
    <3>. HIDE DEF h, m
    <3>5. h \in Injection(F, 0..m)
      BY <3>2, <3>3 DEF Injection, IsInjective
    <3>. QED BY <3>4, <3>5, FS_Injection
  <2>. QED BY <2>1, <2>2
<1>13. /\ ByRank(F) \in Seq(F) /\ Range(ByRank(F)) = F /\ Len(ByRank(F)) = Cardinality(F) /\ Cardinality(F) \in Nat
       /\ \A p \in F : Cardinality(F) # 0 /\ p.seq <= ByRank(F)[Cardinality(F)].seq
  BY <1>10, <1>11, <1>12, ByRankFacts
<1>14. {p.act : p \in F} = K
  BY <1>8, <1>9
<1>15. \A a \in K : Len(found) # 0 /\ rows.act[a].seq <= found[Len(found)].seq
  BY <1>7, <1>8, <1>13
<1>16. found \in Seq(F) /\ Len(found) \in Nat /\ Range(found) = F
  BY <1>7, <1>13
<1>. QED BY <1>14, <1>15, <1>16 DEF F

(* What storing such a list does: part of the chain again, and from a      *)
(* whole list without a bad signature all of it, with its head.            *)
LEMMA RecoveredStore ==
  ASSUME AuthorInv, call = Idle, NEW c \in Cells, NEW missing, NEW forged, NEW s, Partial(s, rows, c),
         NEW w, w = storeRecoveredRecords(s, c, recoverChainFromDHT(c, missing), forged)
  PROVE  /\ Partial(w, rows, c)
         /\ missing = {} /\ forged = {} /\ OfCell(rows, c) # {} =>
              DOMAIN w.act = OfCell(rows, c) /\ w.head[c] = rows.head[c]
<1>. DEFINE found == recoverChainFromDHT(c, missing)
            K == OfCell(rows, c) \ missing
            T == PublishedOf(rows, K)
<1>1. /\ found \in Seq(T) /\ Len(found) \in Nat /\ {p.act : p \in Range(found)} = K
      /\ \A a \in K : Len(found) # 0 /\ rows.act[a].seq <= found[Len(found)].seq
  <2>. HIDE DEF found, K
  <2>1. found = recoverChainFromDHT(c, missing) /\ K = OfCell(rows, c) \ missing
    BY DEF found, K
  <2>. QED BY <2>1, RecoveredList
<1>2. w = storeRecoveredRecords(s, c, found, forged)
  OBVIOUS
<1>3. K \in SUBSET OfCell(rows, c)
  OBVIOUS
<1>4. \A a \in K : Published(rows, a).act = a /\ Published(rows, a).seq = rows.act[a].seq
  BY DEF Published
<1>5. missing = {} => K = OfCell(rows, c)
  OBVIOUS
<1>. HIDE DEF found
<1>6. PICK f :
        /\ Storing(f, s, found, c)
        /\ w = IF \A p \in Range(found) : verifyActionSignature(p, forged) THEN f[Len(found)] ELSE s
  <2>. HIDE DEF T
  <2>1. \E f :
          /\ Storing(f, s, found, c)
          /\ storeRecoveredRecords(s, c, found, forged) =
               IF \A p \in Range(found) : verifyActionSignature(p, forged) THEN f[Len(found)] ELSE s
    BY <1>1, StoredFacts
  <2>. QED BY <1>2, <2>1
<1>7. RowsInv(rows) /\ ChainRows(rows) /\ rows \in Contents
  BY IdleQueue DEF RowsInv
<1>8. /\ Partial(f[Len(found)], rows, c) /\ DOMAIN f[Len(found)].act = DOMAIN s.act \cup K
      /\ Len(found) # 0 => f[Len(found)].head[c] = [seq |-> found[Len(found)].seq, act |-> found[Len(found)].act]
  <2>. HIDE DEF K
  <2>. QED BY <1>1, <1>3, <1>6, <1>7, RecoveredAll
<1>9. ASSUME missing = {}, forged = {}, OfCell(rows, c) # {}
      PROVE  DOMAIN w.act = OfCell(rows, c) /\ w.head[c] = rows.head[c]
  <2>1. w = f[Len(found)]
    BY <1>6, <1>9 DEF verifyActionSignature
  <2>2. DOMAIN w.act = OfCell(rows, c)
    BY <1>5, <1>8, <1>9, <2>1 DEF Partial
  <2>3. Len(found) # 0 /\ Len(found) \in 1..Len(found) /\ found[Len(found)] \in T
    <3>. HIDE DEF T
    <3>1. Len(found) # 0 /\ Len(found) \in 1..Len(found)
      BY <1>1, <1>5, <1>9
    <3>. QED BY <1>1, <3>1, ElementOfSeq
  <2>4. PICK a \in K : found[Len(found)] = Published(rows, a)
    BY <2>3 DEF PublishedOf
  <2>5. w.head[c] = [seq |-> rows.act[a].seq, act |-> a]
    BY <1>4, <1>8, <2>1, <2>3, <2>4
  <2>. DEFINE h == rows.head[c]
  <2>6. h # None /\ h \in HeadType /\ h.act \in OfCell(rows, c) /\ rows.act[h.act].seq = h.seq /\ h.seq \in Nat
        /\ a \in DOMAIN rows.act /\ About[a].cell = c /\ rows.act[a].seq \in Nat /\ rows.act[a].seq <= h.seq
    <3>1. a \in DOMAIN rows.act /\ About[a].cell = c /\ h # None /\ rows.act[a].seq <= h.seq
      BY <1>7 DEF OfCell, ChainRows
    <3>. QED BY <1>7, <3>1, RowFacts DEF ChainRows
  <2>7. rows.act[h.act].seq <= rows.act[a].seq
    BY <1>1, <1>4, <1>5, <1>9, <2>4, <2>6
  <2>8. rows.act[a].seq = h.seq /\ a = h.act
    BY <1>7, <2>6, <2>7 DEF ChainRows, OfCell
  <2>9. h = [seq |-> h.seq, act |-> h.act]
    BY <2>6 DEF HeadType
  <2>. QED BY <2>2, <2>5, <2>8, <2>9
<1>10. Partial(w, rows, c)
  BY <1>6, <1>8
<1>. QED BY <1>9, <1>10

(* Why a recovery restores: a second one, without a gap, stores the whole  *)
(* list over what the first one left.                                      *)
LEMMA RecoveryNow ==
  ASSUME AuthorInv
  PROVE  RecoveryRestores
<1>. SUFFICES ASSUME call = Idle, NEW c \in Cells, NEW a \in getAgentActivitySync(c), NEW gap \in BOOLEAN
              PROVE  LET first == storeRecoveredRecords(NoRows, c, recoverChainFromDHT(c, IF gap THEN {a} ELSE {}),
                                                        IF gap THEN {} ELSE {a})
                         again == storeRecoveredRecords(first, c, recoverChainFromDHT(c, {}), {})
                     IN /\ again.act = Restrict(rows.act, OfCell(rows, c)) /\ again.head[c] = rows.head[c]
                        /\ \A b \in OfCell(rows, c) : Whole(b) => OpsOf({b}, again) = OpsOf({b}, rows)
  BY DEF RecoveryRestores
<1>. DEFINE missing == IF gap THEN {a} ELSE {}
            forged == IF gap THEN {} ELSE {a}
            first == storeRecoveredRecords(NoRows, c, recoverChainFromDHT(c, missing), forged)
            again == storeRecoveredRecords(first, c, recoverChainFromDHT(c, {}), {})
<1>. HIDE DEF missing, forged
<1>1. ClosedRows(rows) /\ DOMAIN rows.act \subseteq Acts /\ queued = OpsOf(DOMAIN rows.act, rows) /\ RowsInv(rows)
  BY IdleQueue
<1>2. getAgentActivitySync(c) = OfCell(rows, c)
  BY <1>1, AtFacts, BasisFacts DEF OfCell, getAgentActivitySync
<1>3. Partial(NoRows, rows, c)
  BY NoRowsInv DEF RowsInv, Partial, NoRows
<1>4. Partial(first, rows, c)
  BY <1>3, RecoveredStore
<1>. HIDE DEF first
<1>5. Partial(again, rows, c) /\ DOMAIN again.act = OfCell(rows, c) /\ again.head[c] = rows.head[c]
  BY <1>2, <1>4, RecoveredStore
<1>. HIDE DEF again
<1>6. again.act = Restrict(rows.act, OfCell(rows, c))
  <2>1. again.act = [b \in DOMAIN again.act |-> again.act[b]]
    <3>1. again.act \in Tables(Acts, RowType)
      BY <1>5, ContentFacts DEF Partial
    <3>. QED BY <3>1, TableFacts
  <2>2. \A b \in OfCell(rows, c) : again.act[b] = rows.act[b]
    BY <1>5 DEF Partial
  <2>. QED BY <1>5, <2>1, <2>2 DEF Restrict
<1>7. ASSUME NEW b \in OfCell(rows, c) PROVE OpsOf({b}, again) = OpsOf({b}, rows)
  <2>1. b \in DOMAIN rows.act /\ (isEntryAction(b) => About[b].entry \in DOMAIN rows.entry)
    BY <1>1 DEF OfCell, ClosedRows
  <2>2. isEntryAction(b) => About[b].entry \in DOMAIN again.entry
    BY <1>5 DEF Partial
  <2>3. buildRecord(b, DOMAIN again.entry) = buildRecord(b, DOMAIN rows.entry)
    BY <2>1, <2>2 DEF buildRecord
  <2>. QED BY <2>3 DEF OpsOf
<1>. QED BY <1>5, <1>6, <1>7 DEF first, again, missing, forged

(* A device that lost its store gets the chain, its head and its ops back  *)
(* from what was published, also after a recovery that missed a record or  *)
(* met a bad signature (recoverChainFromDHT, storeRecoveredRecords).       *)
THEOREM RecoveryWorks == Spec => []RecoveryRestores
BY AuthorInvariant, RecoveryNow, PTL

(***************************************************************************)
(* The cached store                                                        *)
(***************************************************************************)
(* The operators of the instance C that have nothing of its own state are  *)
(* those of this module.                                                   *)
LEMMA Copies ==
  /\ \A f, k, v : C!Upsert(f, k, v) = Upsert(f, k, v)
  /\ \A f, g : C!Overlay(f, g) = Overlay(f, g)
  /\ \A f, S : C!Restrict(f, S) = Restrict(f, S)
  /\ \A a : C!isEntryAction(a) <=> isEntryAction(a)
  /\ \A a : C!Base(a) = Base(a)
  /\ \A a : C!OriginalEntry(a) = OriginalEntry(a)
  /\ \A n, z : C!Row(n, z) = Row(n, z)
  /\ \A a, z : C!RecordedZome(a, z) = RecordedZome(a, z)
<1>1. \A f, k, v : C!Upsert(f, k, v) = Upsert(f, k, v)
  BY DEF C!Upsert, Upsert
<1>2. \A f, g : C!Overlay(f, g) = Overlay(f, g)
  BY DEF C!Overlay, Overlay
<1>3. \A f, S : C!Restrict(f, S) = Restrict(f, S)
  BY DEF C!Restrict, Restrict
<1>4. \A a : C!isEntryAction(a) <=> isEntryAction(a)
  BY DEF C!isEntryAction, isEntryAction
<1>5. \A a : C!Base(a) = Base(a)
  BY DEF C!Base, Base
<1>6. \A a : C!OriginalEntry(a) = OriginalEntry(a)
  BY DEF C!OriginalEntry, OriginalEntry
<1>7. \A n, z : C!Row(n, z) = Row(n, z)
  BY DEF C!Row, Row
<1>8. \A a, z : C!RecordedZome(a, z) = RecordedZome(a, z)
  BY DEF C!RecordedZome, RecordedZome
<1>. QED BY <1>1, <1>2, <1>3, <1>4, <1>5, <1>6, <1>7, <1>8

(* So are the statements and queries of the row store.                     *)
LEMMA RowCopies ==
  /\ \A r : C!Rows!RowsInv(r) <=> RowsInv(r)
  /\ \A r, c : C!Rows!OfCell(r, c) = OfCell(r, c)
  /\ \A r, a, z : C!Rows!Write(r, a, z) = Write(r, a, z)
  /\ \A r, c : C!Rows!Found(r, c) = Found(r, c)
  /\ \A K, a : C!Rows!Writable(K, a) <=> Writable(K, a)
  /\ \A h : C!Rows!NextSeq(h) = NextSeq(h)
  /\ C!Rows!NoRows = NoRows
  /\ \A r, e, c : C!Rows!getDetails(r, e, c) = getDetails(r, e, c)
  /\ \A r, b, c : C!Rows!getLinks(r, b, c) = getLinks(r, b, c)
<1>1. \A r : C!Rows!RowsInv(r) <=> RowsInv(r)
  BY DEF C!Rows!RowsInv, RowsInv, C!Rows!Contents, Contents, C!Rows!Tables, Tables, C!Rows!ChainRows, ChainRows,
         C!Rows!ClosedRows, ClosedRows, C!Rows!LinkRows, LinkRows,
         C!Rows!OfCell, OfCell, C!Rows!isEntryAction, isEntryAction, C!Rows!Range, Range
<1>2. \A r, c : C!Rows!OfCell(r, c) = OfCell(r, c)
  BY DEF C!Rows!OfCell, OfCell
<1>3. \A r, a, z : C!Rows!Write(r, a, z) = Write(r, a, z)
  BY DEF C!Rows!Write, Write, C!Rows!NextSeq, NextSeq, C!Rows!isEntryAction, isEntryAction, C!Rows!putEntry, putEntry,
     C!Rows!putAction, putAction, C!Rows!putLink, putLink, C!Rows!deleteLink, deleteLink, C!Rows!updateChainHead, updateChainHead,
     C!Rows!Upsert, Upsert, C!Rows!Row, Row, C!Rows!Restrict, Restrict
<1>4. \A r, c : C!Rows!Found(r, c) = Found(r, c)
  BY DEF C!Rows!Found, Found, C!Rows!Overlay, Overlay, C!Rows!Row, Row, C!Rows!Restrict, Restrict,
         C!Rows!updateChainHead, updateChainHead, C!Rows!Range, Range
<1>5. \A K, a : C!Rows!Writable(K, a) <=> Writable(K, a)
  BY DEF C!Rows!Writable, Writable, C!Rows!AppTypes, AppTypes
<1>6. \A h : C!Rows!NextSeq(h) = NextSeq(h)
  BY DEF C!Rows!NextSeq, NextSeq
<1>7. C!Rows!NoRows = NoRows
  BY DEF C!Rows!NoRows, NoRows
<1>8. \A r, e, c : C!Rows!getDetails(r, e, c) = getDetails(r, e, c)
  BY DEF C!Rows!getDetails, getDetails, C!Rows!WithEntry, WithEntry, C!Rows!OfCell, OfCell, C!Rows!UpdatesOf, UpdatesOf, C!Rows!DeletesOf, DeletesOf,
     C!Rows!OriginalEntry, OriginalEntry
<1>9. \A r, b, c : C!Rows!getLinks(r, b, c) = getLinks(r, b, c)
  BY DEF C!Rows!getLinks, getLinks, C!Rows!Base, Base
<1>. QED BY <1>1, <1>2, <1>3, <1>4, <1>5, <1>6, <1>7, <1>8, <1>9

(***************************************************************************)
(* The pending lists                                                       *)
(***************************************************************************)
(* The latest of some places of a list.                                    *)
LEMMA LatestPlace ==
  ASSUME NEW n \in Nat, NEW S \in SUBSET (1..n), S # {}
  PROVE  C!Max(S) \in S /\ \A i \in S : C!Max(S) >= i
<1>. DEFINE Least(k) == \A i \in S : i <= n - k
            T == {k \in Nat : Least(k)}
<1>1. ASSUME \A i \in S : \E j \in S : j > i
      PROVE  FALSE
  <2>1. 0 \in T /\ T \in SUBSET Nat
    OBVIOUS
  <2>2. ASSUME NEW k \in T PROVE k + 1 \in T
    <3>1. \A i \in S : i # n - k
      BY <1>1
    <3>. QED BY <3>1
  <2>3. T = Nat
    <3>. HIDE DEF T
    <3>. QED BY <2>1, <2>2, SetInduction
  <2>4. n \in T
    BY <2>3
  <2>5. \A i \in S : i <= n - n
    BY <2>4
  <2>6. PICK i \in S : TRUE
    OBVIOUS
  <2>7. i \in 1..n
    OBVIOUS
  <2>. HIDE DEF T, Least
  <2>. QED BY <2>5, <2>6, <2>7
<1>2. PICK i \in S : \A j \in S : i >= j
  BY <1>1
<1>. QED BY <1>2 DEF C!Max

(* Nothing pending hides nothing.                                          *)
LEMMA OverNothing ==
  ASSUME NEW f, f = [x \in DOMAIN f |-> f[x]]
  PROVE  C!Over(f, <<>>) = f
<1>1. DOMAIN <<>> = {}
  OBVIOUS
<1>. QED BY <1>1 DEF C!Over, C!Overlay

(* One more of a list: its key gets its value.                             *)
LEMMA OverListed ==
  ASSUME NEW D, NEW V, NEW s \in C!Lists(D, V), NEW k \in D, NEW v \in V, NEW f
  PROVE  C!Over(f, C!Listed(s, k, v)) = Upsert(C!Over(f, s), k, v)
<1>. DEFINE e == [key |-> k, value |-> v]
            p == Append(s, e)
            n == Len(s)
            At1(q, x) == {i \in DOMAIN q : q[i].key = x}
            LastAt(q, x) == C!Max(At1(q, x))
            Keys(q) == {q[i].key : i \in DOMAIN q}
            Top(q) == [x \in Keys(q) |-> q[LastAt(q, x)].value]
<1>1. /\ s \in Seq([key : D, value : V]) /\ n \in Nat /\ DOMAIN s = 1..n
      /\ DOMAIN p = (1..n) \cup {n + 1} /\ p[n + 1] = e /\ \A i \in 1..n : p[i] = s[i]
  BY DEF C!Lists
<1>2. C!Listed(s, k, v) = p
  BY DEF C!Listed
<1>3. /\ \A q : C!Over(f, q) = C!Overlay(Top(q), f)
  BY DEF C!Over
<1>4. e.key = k /\ e.value = v
  OBVIOUS
<1>. HIDE DEF p, e
<1>5. Keys(p) = Keys(s) \cup {k}
  BY <1>1, <1>4
<1>6. LastAt(p, k) = n + 1
  <2>1. At1(p, k) = At1(s, k) \cup {n + 1} /\ At1(s, k) \subseteq 1..n
    BY <1>1, <1>4
  <2>2. \A y \in At1(p, k) : n + 1 >= y
    BY <1>1, <2>1
  <2>. HIDE DEF At1
  <2>. QED BY <1>1, <2>1, <2>2 DEF C!Max
<1>7. ASSUME NEW x \in Keys(s), x # k
      PROVE  p[LastAt(p, x)] = s[LastAt(s, x)]
  <2>1. At1(p, x) = At1(s, x) /\ At1(s, x) \subseteq 1..n /\ At1(s, x) # {}
    BY <1>1, <1>4, <1>7
  <2>2. LastAt(s, x) \in 1..n
    BY <1>1, <2>1, LatestPlace
  <2>. QED BY <1>1, <2>1, <2>2
<1>8. \A x \in Keys(p) : Top(p)[x] = IF x = k THEN v ELSE Top(s)[x]
  BY <1>1, <1>4, <1>5, <1>6, <1>7
<1>9. DOMAIN Top(p) = Keys(p) /\ DOMAIN Top(s) = Keys(s)
  OBVIOUS
<1>. HIDE DEF Top, Keys, LastAt, n
<1>10. C!Overlay(Top(p), f) = Upsert(C!Overlay(Top(s), f), k, v)
  BY <1>5, <1>8, <1>9 DEF C!Overlay, Upsert
<1>. QED BY <1>2, <1>3, <1>10

(***************************************************************************)
(* A write to the session cache and the pending lists                      *)
(***************************************************************************)
(* What a write adds to the pending lists, and to the cache.               *)
Pended(p, a, n, z) ==
  [act |-> C!Listed(p.act, a, Row(n, z)),
   entry |-> IF isEntryAction(a) THEN C!Listed(p.entry, About[a].entry, About[a].cell) ELSE p.entry,
   link |-> IF About[a].type = "CreateLink" THEN C!Listed(p.link, a, None) ELSE p.link,
   gone |-> IF About[a].type = "DeleteLink" THEN C!Listed(p.gone, About[a].original, a) ELSE p.gone,
   head |-> [cell |-> About[a].cell, seq |-> n, act |-> a]]
InCache(k, a, n, z) ==
  [act |-> Upsert(k.act, a, Row(n, z)), entry |-> k.entry \cup (IF isEntryAction(a) THEN {About[a].entry} ELSE {}),
   link |-> WrittenLinks(k, a), head |-> Upsert(k.head, About[a].cell, [seq |-> n, act |-> a])]

(* What the stores of a pending transaction are.                           *)
LEMMA PendingFacts ==
  ASSUME NEW p \in C!Pendings
  PROVE  /\ p = [act |-> p.act, entry |-> p.entry, link |-> p.link, gone |-> p.gone, head |-> p.head]
         /\ p.act \in C!Lists(Acts, RowType) /\ p.entry \in C!Lists(Entries, Cells)
         /\ p.link \in C!Lists(Acts, {None}) /\ p.gone \in C!Lists(Acts, Acts)
         /\ p.head \in [cell : Cells, seq : Nat, act : Acts] \cup {None} /\ p # None
BY PendingAssumption DEF C!Pendings, RowType

(* What the session caches are.                                            *)
LEMMA CacheFacts ==
  ASSUME NEW k
  PROVE  k \in C!Caches <=>
           /\ k = [act |-> k.act, entry |-> k.entry, link |-> k.link, head |-> k.head]
           /\ k.act \in Tables(Acts, RowType) /\ k.entry \subseteq Entries
           /\ k.link \in Tables(Acts, Acts \cup {None}) /\ k.head \in Tables(Cells, HeadType)
BY DEF C!Caches, C!Tables, Tables, RowType, HeadType

(* The statements of a host function, at once.                             *)
LEMMA SessionWrite ==
  ASSUME NEW p \in C!Pendings, NEW k \in C!Caches, NEW a \in Acts, NEW z,
         NEW n, n = NextSeq(C!getChainHead(About[a].cell))
  PROVE  C!Write(C!Both(p, k), a, z) = C!Both(Pended(p, a, n, z), InCache(k, a, n, z))
<1>. DEFINE c == About[a].cell
            s == C!Both(p, k)
            content == IF isEntryAction(a) THEN C!putEntry(s, About[a].entry, c) ELSE s
            acted == C!putAction(content, a, n, z)
            linked == CASE About[a].type = "CreateLink" -> C!putLink(acted, a)
                        [] About[a].type = "DeleteLink" -> C!deleteLink(acted, About[a].original, a)
                        [] OTHER -> acted
            e == IF isEntryAction(a) THEN C!Listed(p.entry, About[a].entry, c) ELSE p.entry
            f == k.entry \cup (IF isEntryAction(a) THEN {About[a].entry} ELSE {})
            l == IF About[a].type = "CreateLink" THEN C!Listed(p.link, a, None) ELSE p.link
            g == IF About[a].type = "DeleteLink" THEN C!Listed(p.gone, About[a].original, a) ELSE p.gone
            m == C!Listed(p.act, a, Row(n, z))
            o == Upsert(k.act, a, Row(n, z))
<1>1. /\ p = [act |-> p.act, entry |-> p.entry, link |-> p.link, gone |-> p.gone, head |-> p.head]
      /\ k = [act |-> k.act, entry |-> k.entry, link |-> k.link, head |-> k.head]
  BY PendingFacts, CacheFacts
<1>2. content = C!Both([act |-> p.act, entry |-> e, link |-> p.link, gone |-> p.gone, head |-> p.head],
                       [act |-> k.act, entry |-> f, link |-> k.link, head |-> k.head])
  BY <1>1 DEF C!Both, C!putEntry
<1>3. acted = C!Both([act |-> m, entry |-> e, link |-> p.link, gone |-> p.gone, head |-> p.head],
                     [act |-> o, entry |-> f, link |-> k.link, head |-> k.head])
  <2>. HIDE DEF content, e, f
  <2>. QED BY <1>2, Copies DEF C!Both, C!putAction
<1>4. linked = C!Both([act |-> m, entry |-> e, link |-> l, gone |-> g, head |-> p.head],
                      [act |-> o, entry |-> f, link |-> WrittenLinks(k, a), head |-> k.head])
  <2>. HIDE DEF acted, e, f, m, o
  <2>1. CASE About[a].type = "CreateLink"
    BY <1>3, <2>1, Copies DEF C!Both, C!putLink, WrittenLinks
  <2>2. CASE About[a].type = "DeleteLink"
    BY <1>3, <2>2, Copies DEF C!Both, C!deleteLink, WrittenLinks
  <2>3. CASE About[a].type \notin {"CreateLink", "DeleteLink"}
    BY <1>3, <2>3 DEF WrittenLinks
  <2>. QED BY <2>1, <2>2, <2>3
<1>5. C!Write(s, a, z) = C!updateChainHead(linked, c, n, a)
  BY RowCopies, Copies DEF C!Write
<1>6. C!updateChainHead(linked, c, n, a) =
        C!Both([act |-> m, entry |-> e, link |-> l, gone |-> g, head |-> [cell |-> c, seq |-> n, act |-> a]],
               [act |-> o, entry |-> f, link |-> WrittenLinks(k, a), head |-> Upsert(k.head, c, [seq |-> n, act |-> a])])
  <2>. HIDE DEF linked, e, f, m, o, l, g
  <2>. QED BY <1>4, Copies DEF C!Both, C!updateChainHead
<1>. QED BY <1>5, <1>6 DEF Pended, InCache

(* The last of a list decides, whatever the table under it.                *)
Latest(s) == [x \in {s[i].key : i \in DOMAIN s} |-> s[C!Max({i \in DOMAIN s : s[i].key = x})].value]

(* The latest of each key of a list, over a table.                         *)
LEMMA OverParts ==
  ASSUME NEW f, NEW s
  PROVE  C!Over(f, s) = Overlay(Latest(s), f)
BY DEF C!Over, Latest, C!Overlay, Overlay

(* A key is in the list or in the table.                                   *)
LEMMA OverDomain ==
  ASSUME NEW f, NEW s
  PROVE  DOMAIN C!Over(f, s) = {s[i].key : i \in DOMAIN s} \cup DOMAIN f
BY OverParts DEF Overlay, Latest

(* What is not in the list is as in the table.                             *)
LEMMA OverKept ==
  ASSUME NEW f, NEW s, NEW x \in DOMAIN f, \A i \in DOMAIN s : s[i].key # x
  PROVE  C!Over(f, s)[x] = f[x]
<1>1. x \notin DOMAIN Latest(s)
  BY DEF Latest
<1>. QED BY <1>1, OverParts DEF Overlay

(* What is in the list hides the table.                                    *)
LEMMA OverEither ==
  ASSUME NEW f, NEW g, NEW s, NEW i \in DOMAIN s
  PROVE  C!Over(f, s)[s[i].key] = C!Over(g, s)[s[i].key]
<1>1. s[i].key \in DOMAIN Latest(s)
  BY DEF Latest
<1>. QED BY <1>1, OverParts DEF Overlay

(***************************************************************************)
(* The refinement mapping                                                  *)
(***************************************************************************)
(* A table of links, some of them deleted.                                 *)
Deleted(f, s) == C!Restrict(C!Over(f, s), DOMAIN f)

(* The database after a commit, part by part.                              *)
LEMMA AppliedParts ==
  ASSUME NEW d, NEW p
  PROVE  /\ C!Applied(d, p).act = C!Over(d.act, p.act) /\ C!Applied(d, p).entry = C!Over(d.entry, p.entry)
         /\ C!Applied(d, p).link = Deleted(C!Over(d.link, p.link), p.gone)
         /\ C!Applied(d, p).head = C!HeadOver(d.head, p.head)
BY DEF C!Applied, Deleted

(* A new link that nothing in the list deletes.                            *)
LEMMA DeletedUpsert ==
  ASSUME NEW f, NEW s, NEW a, NEW v, \A i \in DOMAIN s : s[i].key # a
  PROVE  Deleted(Upsert(f, a, v), s) = Upsert(Deleted(f, s), a, v)
<1>. DEFINE g == Upsert(f, a, v)
<1>1. DOMAIN g = DOMAIN f \cup {a} /\ g[a] = v /\ \A x \in DOMAIN f : x # a => g[x] = f[x]
  BY DEF Upsert
<1>2. DOMAIN Upsert(Deleted(f, s), a, v) = DOMAIN f \cup {a}
  BY DEF Upsert, Deleted, C!Restrict
<1>. HIDE DEF g
<1>3. C!Over(g, s)[a] = v
  BY <1>1, OverKept
<1>4. ASSUME NEW x \in DOMAIN f, x # a PROVE C!Over(g, s)[x] = C!Over(f, s)[x]
  <2>1. CASE \E i \in DOMAIN s : s[i].key = x
    BY <2>1, OverEither
  <2>2. CASE \A i \in DOMAIN s : s[i].key # x
    <3>1. C!Over(g, s)[x] = g[x]
      BY <1>1, <2>2, OverKept
    <3>2. C!Over(f, s)[x] = f[x]
      BY <2>2, OverKept
    <3>. QED BY <1>1, <1>4, <3>1, <3>2
  <2>. QED BY <2>1, <2>2
<1>5. Deleted(g, s) = [x \in DOMAIN f \cup {a} |-> C!Over(g, s)[x]]
  BY <1>1 DEF Deleted, C!Restrict
<1>6. Upsert(Deleted(f, s), a, v) = [x \in DOMAIN f \cup {a} |-> IF x = a THEN v ELSE C!Over(f, s)[x]]
  BY DEF Upsert, Deleted, C!Restrict
<1>7. Deleted(g, s) = Upsert(Deleted(f, s), a, v)
  BY <1>3, <1>4, <1>5, <1>6
<1>. QED BY <1>7 DEF g

(* A link is deleted, if it is one.                                        *)
LEMMA DeletedMore ==
  ASSUME NEW f, NEW s \in C!Lists(Acts, Acts), NEW a \in Acts, NEW d \in Acts
  PROVE  Deleted(f, C!Listed(s, a, d)) = IF a \in DOMAIN Deleted(f, s) THEN [Deleted(f, s) EXCEPT ![a] = d] ELSE Deleted(f, s)
<1>1. C!Over(f, C!Listed(s, a, d)) = Upsert(C!Over(f, s), a, d)
  BY OverListed
<1>2. DOMAIN f \subseteq DOMAIN C!Over(f, s)
  BY OverDomain
<1>3. Deleted(f, C!Listed(s, a, d)) = [x \in DOMAIN f |-> IF x = a THEN d ELSE C!Over(f, s)[x]]
  BY <1>1, <1>2 DEF Deleted, C!Restrict, Upsert
<1>4. Deleted(f, s) = [x \in DOMAIN f |-> C!Over(f, s)[x]]
  BY DEF Deleted, C!Restrict
<1>5. CASE a \in DOMAIN f
  BY <1>3, <1>4, <1>5
<1>6. CASE a \notin DOMAIN f
  BY <1>3, <1>4, <1>6
<1>. QED BY <1>4, <1>5, <1>6

(* Committed, a pending write is the row store's write.                    *)
LEMMA AppliedWrite ==
  ASSUME NEW d \in Contents, NEW p \in C!Pendings, NEW r, r = C!Applied(d, p),
         NEW a \in Acts, NEW z \in Zomes \cup {None}, a \notin DOMAIN r.act,
         \A i \in DOMAIN p.gone : p.gone[i].key \in DOMAIN r.act,
         p.head # None => p.head.cell = About[a].cell, NEW n \in Nat, n = r.head[About[a].cell].seq + 1
  PROVE  C!Applied(d, Pended(p, a, n, z)) = Written(r, a, z)
<1>. DEFINE q == Pended(p, a, n, z)
            c == About[a].cell
            w == C!Applied(d, q)
<1>1. /\ p.act \in C!Lists(Acts, RowType) /\ p.entry \in C!Lists(Entries, Cells)
      /\ p.link \in C!Lists(Acts, {None}) /\ p.gone \in C!Lists(Acts, Acts)
      /\ p.head \in [cell : Cells, seq : Nat, act : Acts] \cup {None}
  BY PendingFacts
<1>2. /\ r.act = C!Over(d.act, p.act) /\ r.entry = C!Over(d.entry, p.entry)
      /\ r.link = Deleted(C!Over(d.link, p.link), p.gone) /\ r.head = C!HeadOver(d.head, p.head)
  BY AppliedParts
<1>3. /\ w.act = C!Over(d.act, q.act) /\ w.entry = C!Over(d.entry, q.entry)
      /\ w.link = Deleted(C!Over(d.link, q.link), q.gone) /\ w.head = C!HeadOver(d.head, q.head)
      /\ w = [act |-> w.act, entry |-> w.entry, link |-> w.link, head |-> w.head]
  <2>. HIDE DEF q
  <2>1. w = [act |-> w.act, entry |-> w.entry, link |-> w.link, head |-> w.head]
    BY DEF C!Applied
  <2>. QED BY <2>1, AppliedParts
<1>4. c \in Cells /\ Row(n, z) \in RowType
  BY AboutFacts DEF Row, RowType
<1>5. /\ q.act = C!Listed(p.act, a, Row(n, z))
      /\ q.entry = (IF isEntryAction(a) THEN C!Listed(p.entry, About[a].entry, c) ELSE p.entry)
      /\ q.link = (IF About[a].type = "CreateLink" THEN C!Listed(p.link, a, None) ELSE p.link)
      /\ q.gone = (IF About[a].type = "DeleteLink" THEN C!Listed(p.gone, About[a].original, a) ELSE p.gone)
      /\ q.head = [cell |-> c, seq |-> n, act |-> a]
  BY DEF Pended
<1>. HIDE DEF q, w
<1>6. w.act = Upsert(r.act, a, Row(n, z))
  BY <1>1, <1>2, <1>3, <1>4, <1>5, OverListed
<1>7. w.entry = IF isEntryAction(a) THEN Upsert(r.entry, About[a].entry, c) ELSE r.entry
  <2>1. CASE isEntryAction(a)
    <3>1. About[a].entry \in Entries
      BY <2>1, AboutFacts
    <3>. QED BY <1>1, <1>2, <1>3, <1>4, <1>5, <2>1, <3>1, OverListed
  <2>2. CASE ~isEntryAction(a)
    BY <1>2, <1>3, <1>5, <2>2
  <2>. QED BY <2>1, <2>2
<1>8. w.link = WrittenLinks(r, a)
  <2>. DEFINE links == C!Over(d.link, p.link)
  <2>1. CASE About[a].type = "CreateLink"
    <3>1. C!Over(d.link, q.link) = Upsert(links, a, None) /\ q.gone = p.gone
      BY <1>1, <1>5, <2>1, OverListed
    <3>2. Deleted(Upsert(links, a, None), p.gone) = Upsert(Deleted(links, p.gone), a, None)
      BY DeletedUpsert
    <3>. HIDE DEF links
    <3>3. w.link = Upsert(r.link, a, None)
      BY <1>2, <1>3, <3>1, <3>2 DEF links
    <3>. QED BY <2>1, <3>3 DEF WrittenLinks
  <2>2. CASE About[a].type = "DeleteLink"
    <3>1. About[a].original \in Acts
      BY <2>2, AboutFacts
    <3>2. q.link = p.link /\ q.gone = C!Listed(p.gone, About[a].original, a)
      BY <1>5, <2>2
    <3>3. w.link = IF About[a].original \in DOMAIN r.link THEN [r.link EXCEPT ![About[a].original] = a] ELSE r.link
      BY <1>1, <1>2, <1>3, <3>1, <3>2, DeletedMore
    <3>. QED BY <2>2, <3>3 DEF WrittenLinks
  <2>3. CASE About[a].type \notin {"CreateLink", "DeleteLink"}
    BY <1>2, <1>3, <1>5, <2>3 DEF WrittenLinks
  <2>. QED BY <2>1, <2>2, <2>3
<1>9. w.head = [r.head EXCEPT ![c] = [seq |-> n, act |-> a]]
  <2>1. d.head \in [Cells -> HeadType \cup {None}]
    BY ContentFacts
  <2>2. q.head # None
    BY <1>4, <1>5, PendingAssumption
  <2>3. w.head = [d.head EXCEPT ![c] = [seq |-> n, act |-> a]]
    BY <1>3, <1>5, <2>2 DEF C!HeadOver
  <2>4. CASE p.head = None
    BY <1>2, <2>3, <2>4 DEF C!HeadOver
  <2>5. CASE p.head # None
    <3>1. r.head = [d.head EXCEPT ![c] = [seq |-> p.head.seq, act |-> p.head.act]]
      BY <1>2, <2>5 DEF C!HeadOver
    <3>. QED BY <1>4, <2>1, <2>3, <3>1
  <2>. QED BY <2>4, <2>5
<1>10. w = Written(r, a, z)
  BY <1>3, <1>6, <1>7, <1>8, <1>9 DEF Written
<1>. QED BY <1>10 DEF w, q

(***************************************************************************)
(* The session cache and the pending lists stay true to the rows           *)
(***************************************************************************)
(* The committed rows while a transaction is open, or None.                *)
SavedRows == IF pending = None THEN None ELSE idb

(* The rows that the cached store stands for (Over).                       *)
LEMMA RowsAreR ==
  /\ C!R = (IF pending = None THEN idb ELSE C!Applied(idb, pending))
  /\ C!R' = (IF pending' = None THEN idb' ELSE C!Applied(idb', pending'))
  /\ SavedRows' = (IF pending' = None THEN None ELSE idb')
BY DEF C!R, SavedRows

(* What the proofs take from CachedInv.                                    *)
LEMMA CachedFacts ==
  ASSUME C!CachedInv
  PROVE  /\ RowsInv(idb) /\ RowsInv(C!R) /\ idb \in Contents /\ C!R \in Contents /\ idb # None
         /\ inCall \in Cells \cup {None} /\ (pending = None <=> inCall = None)
         /\ (pending # None => pending \in C!Pendings) /\ cache \in C!Caches
         /\ \A a \in DOMAIN cache.act : a \in DOMAIN C!R.act /\ cache.act[a] = C!R.act[a]
         /\ cache.entry \subseteq DOMAIN C!R.entry
         /\ \A c \in DOMAIN cache.head : c \in Cells /\ cache.head[c] # None
<1>1. C!CachedTypeOK /\ C!CacheTrue
  BY DEF C!CachedInv
<1>2. RowsInv(idb) /\ RowsInv(C!R)
  BY <1>1, RowCopies DEF C!CachedTypeOK
<1>3. cache \in C!Caches
  BY <1>1 DEF C!CachedTypeOK
<1>4. cache.head \in Tables(Cells, HeadType)
  BY <1>3, CacheFacts
<1>5. \A c \in DOMAIN cache.head : c \in Cells /\ cache.head[c] \in HeadType
  BY <1>4, TableFacts
<1>6. None \notin HeadType /\ None \notin Contents
  BY NoneAssumption DEF HeadType
<1>7. inCall \in Cells \cup {None} /\ (pending = None <=> inCall = None) /\ (pending # None => pending \in C!Pendings)
  BY <1>1 DEF C!CachedTypeOK
<1>8. /\ \A a \in DOMAIN cache.act : a \in DOMAIN C!R.act /\ cache.act[a] = C!R.act[a]
      /\ cache.entry \subseteq DOMAIN C!R.entry
  BY <1>1 DEF C!CacheTrue
<1>9. idb \in Contents /\ C!R \in Contents
  BY <1>2 DEF RowsInv
<1>. QED BY <1>2, <1>3, <1>5, <1>6, <1>7, <1>8, <1>9

(* What a running call finds in the cache.                                 *)
LEMMA RunningFacts ==
  ASSUME C!CachedInv, inCall # None
  PROVE  /\ C!R.head[inCall] # None /\ inCall \in DOMAIN cache.head /\ cache.head[inCall] = C!R.head[inCall]
         /\ OfCell(C!R, inCall) \subseteq DOMAIN cache.act
         /\ \A e \in DOMAIN C!R.entry : C!R.entry[e] = inCall => e \in cache.entry
         /\ cache.link = Restrict(C!R.link, {a \in DOMAIN C!R.link : About[a].cell = inCall})
         /\ \A i \in DOMAIN pending.gone : pending.gone[i].key \in DOMAIN C!R.act
         /\ (pending.head # None => pending.head.cell = inCall)
BY RowCopies, Copies DEF C!CachedInv, C!CacheWhole

(* The next state, conjunct by conjunct.                                   *)
LEMMA CachedNextFacts ==
  ASSUME RowsInv(idb'), RowsInv(C!R'), inCall' \in Cells \cup {None}, (pending' = None <=> inCall' = None),
         (pending' # None => pending' \in C!Pendings), cache' \in C!Caches,
         \A a \in DOMAIN cache'.act : a \in DOMAIN C!R'.act /\ cache'.act[a] = C!R'.act[a],
         cache'.entry \subseteq DOMAIN C!R'.entry,
         inCall' # None =>
           /\ C!R'.head[inCall'] # None /\ inCall' \in DOMAIN cache'.head /\ cache'.head[inCall'] = C!R'.head[inCall']
           /\ OfCell(C!R', inCall') \subseteq DOMAIN cache'.act
           /\ \A e \in DOMAIN C!R'.entry : C!R'.entry[e] = inCall' => e \in cache'.entry
           /\ cache'.link = Restrict(C!R'.link, {a \in DOMAIN C!R'.link : About[a].cell = inCall'})
           /\ \A i \in DOMAIN pending'.gone : pending'.gone[i].key \in DOMAIN C!R'.act
           /\ (pending'.head # None => pending'.head.cell = inCall')
  PROVE  C!CachedInv'
<1>1. C!CachedTypeOK'
  BY RowCopies DEF C!CachedTypeOK
<1>2. C!CacheTrue'
  BY DEF C!CacheTrue
<1>3. C!CacheWhole'
  BY RowCopies, Copies DEF C!CacheWhole
<1>. QED BY <1>1, <1>2, <1>3 DEF C!CachedInv

(* The caches of a worker that just started.                               *)
LEMMA NothingCached ==
  /\ C!NoCache \in C!Caches /\ DOMAIN C!NoCache.act = {} /\ C!NoCache.entry = {}
  /\ C!NoPending \in C!Pendings /\ C!NoPending.head = None /\ DOMAIN C!NoPending.gone = {}
<1>1. \A D, V : <<>> \in Tables(D, V)
  BY SMT DEF Tables
<1>2. C!NoCache \in C!Caches
  BY <1>1, CacheFacts DEF C!NoCache
<1>3. \A D, V : <<>> \in C!Lists(D, V)
  BY DEF C!Lists
<1>4. C!NoPending \in C!Pendings
  BY <1>3 DEF C!NoPending, C!Pendings
<1>5. C!NoCache.act = <<>> /\ C!NoCache.entry = {} /\ C!NoPending.head = None /\ C!NoPending.gone = <<>>
  BY DEF C!NoCache, C!NoPending
<1>. QED BY <1>2, <1>4, <1>5

(* A commit of no writes leaves the database as it is.                     *)
LEMMA NothingApplied ==
  ASSUME NEW d \in Contents
  PROVE  C!Applied(d, C!NoPending) = d
<1>1. /\ d = [act |-> d.act, entry |-> d.entry, link |-> d.link, head |-> d.head]
      /\ d.act = [x \in DOMAIN d.act |-> d.act[x]] /\ d.entry = [x \in DOMAIN d.entry |-> d.entry[x]]
      /\ d.link = [x \in DOMAIN d.link |-> d.link[x]]
  BY ContentFacts, TableFacts
<1>2. C!Over(d.act, <<>>) = d.act /\ C!Over(d.entry, <<>>) = d.entry /\ C!Over(d.link, <<>>) = d.link
  BY <1>1, OverNothing
<1>3. C!Restrict(d.link, DOMAIN d.link) = d.link
  BY <1>1 DEF C!Restrict
<1>4. C!NoPending.act = <<>> /\ C!NoPending.entry = <<>> /\ C!NoPending.link = <<>> /\ C!NoPending.gone = <<>>
      /\ C!NoPending.head = None
  BY DEF C!NoPending
<1>. QED BY <1>1, <1>2, <1>3, <1>4 DEF C!Applied, C!HeadOver

(* An empty database, nothing pending, nothing cached.                     *)
LEMMA CachedInitInv ==
  ASSUME C!CachedInit
  PROVE  C!CachedInv /\ C!R = NoRows /\ SavedRows = None
<1>1. idb = NoRows /\ pending = None /\ cache = C!NoCache /\ inCall = None
  BY RowCopies DEF C!CachedInit
<1>2. C!R = NoRows /\ SavedRows = None
  BY <1>1 DEF C!R, SavedRows
<1>3. C!CachedTypeOK
  BY <1>1, <1>2, NoRowsInv, NothingCached, RowCopies DEF C!CachedTypeOK
<1>4. C!CacheTrue /\ C!CacheWhole
  BY <1>1, NothingCached DEF C!CacheTrue, C!CacheWhole
<1>. QED BY <1>2, <1>3, <1>4 DEF C!CachedInv

(* The links of a cell, as a write of the cell leaves them.                *)
LinksOf(f, c) == Restrict(f, {x \in DOMAIN f : About[x].cell = c})

(* The links that the cache has after a write.                             *)
LEMMA WrittenCachedLinks ==
  ASSUME NEW r, NEW k, NEW a, k.link = LinksOf(r.link, About[a].cell), a \notin DOMAIN r.link
  PROVE  WrittenLinks(k, a) = LinksOf(WrittenLinks(r, a), About[a].cell)
<1>. DEFINE c == About[a].cell
            o == About[a].original
            w == WrittenLinks(r, a)
            K == {x \in DOMAIN r.link : About[x].cell = c}
            J == {x \in DOMAIN w : About[x].cell = c}
<1>. SUFFICES WrittenLinks(k, a) = LinksOf(w, c)
  OBVIOUS
<1>1. k.link = [x \in K |-> r.link[x]]
  BY DEF LinksOf, Restrict
<1>0. LinksOf(w, c) = [x \in J |-> w[x]]
  BY DEF LinksOf, Restrict
<1>2. CASE About[a].type = "CreateLink"
  <2>1. WrittenLinks(k, a) = [x \in K \cup {a} |-> IF x = a THEN None ELSE r.link[x]]
    BY <1>1, <1>2 DEF WrittenLinks, Upsert
  <2>2. w = [x \in DOMAIN r.link \cup {a} |-> IF x = a THEN None ELSE r.link[x]]
    BY <1>2 DEF WrittenLinks, Upsert
  <2>3. J = K \cup {a}
    BY <2>2
  <2>5. \A x \in K \cup {a} : w[x] = IF x = a THEN None ELSE r.link[x]
    BY <2>2
  <2>. HIDE DEF w, J, K
  <2>. QED BY <1>0, <2>1, <2>3, <2>5
<1>3. CASE About[a].type = "DeleteLink" /\ o \in DOMAIN r.link
  <2>1. w = [r.link EXCEPT ![o] = a]
    BY <1>3 DEF WrittenLinks
  <2>2. J = K /\ \A x \in K : w[x] = IF x = o THEN a ELSE r.link[x]
    BY <1>3, <2>1
  <2>3. CASE o \in K
    <3>1. WrittenLinks(k, a) = [k.link EXCEPT ![o] = a]
      BY <1>1, <1>3, <2>3 DEF WrittenLinks
    <3>. HIDE DEF w, J, K
    <3>. QED BY <1>0, <1>1, <2>2, <2>3, <3>1
  <2>4. CASE o \notin K
    <3>1. WrittenLinks(k, a) = k.link
      BY <1>1, <1>3, <2>4 DEF WrittenLinks
    <3>. HIDE DEF w, J, K
    <3>. QED BY <1>0, <1>1, <2>2, <2>4, <3>1
  <2>. QED BY <2>3, <2>4
<1>4. CASE About[a].type # "CreateLink" /\ ~(About[a].type = "DeleteLink" /\ o \in DOMAIN r.link)
  <2>1. w = r.link /\ WrittenLinks(k, a) = k.link
    BY <1>1, <1>4 DEF WrittenLinks
  <2>2. LinksOf(r.link, c) = k.link
    OBVIOUS
  <2>. HIDE DEF w
  <2>. QED BY <2>1, <2>2
<1>. QED BY <1>2, <1>3, <1>4

(* The pending writes stay of their type.                                  *)
LEMMA PendedType ==
  ASSUME NEW p \in C!Pendings, NEW a \in Acts, NEW n \in Nat, NEW z \in Zomes \cup {None}
  PROVE  Pended(p, a, n, z) \in C!Pendings
<1>1. \A D, V : \A s \in C!Lists(D, V) : \A k \in D : \A v \in V : C!Listed(s, k, v) \in C!Lists(D, V)
  BY DEF C!Lists, C!Listed
<1>2. About[a].cell \in Cells /\ (isEntryAction(a) => About[a].entry \in Entries)
      /\ (About[a].type = "DeleteLink" => About[a].original \in Acts)
  BY AboutFacts
<1>3. Row(n, z) \in RowType
  BY DEF Row, RowType
<1>4. /\ C!Listed(p.act, a, Row(n, z)) \in C!Lists(Acts, RowType)
      /\ (IF isEntryAction(a) THEN C!Listed(p.entry, About[a].entry, About[a].cell) ELSE p.entry) \in C!Lists(Entries, Cells)
      /\ (IF About[a].type = "CreateLink" THEN C!Listed(p.link, a, None) ELSE p.link) \in C!Lists(Acts, {None})
      /\ (IF About[a].type = "DeleteLink" THEN C!Listed(p.gone, About[a].original, a) ELSE p.gone) \in C!Lists(Acts, Acts)
  BY <1>1, <1>2, <1>3, PendingFacts
<1>. QED BY <1>2, <1>4 DEF Pended, C!Pendings, RowType

(* So do the caches.                                                       *)
LEMMA InCacheType ==
  ASSUME NEW k \in C!Caches, NEW a \in Acts, NEW n \in Nat, NEW z \in Zomes \cup {None}
  PROVE  InCache(k, a, n, z) \in C!Caches
<1>. DEFINE q == InCache(k, a, n, z)
<1>1. About[a].cell \in Cells /\ (isEntryAction(a) => About[a].entry \in Entries)
  BY AboutFacts
<1>2. Row(n, z) \in RowType /\ [seq |-> n, act |-> a] \in HeadType
  BY DEF Row, RowType, HeadType
<1>3. /\ k.act \in Tables(Acts, RowType) /\ k.entry \subseteq Entries
      /\ k.link \in Tables(Acts, Acts \cup {None}) /\ k.head \in Tables(Cells, HeadType)
  BY CacheFacts
<1>4. Upsert(k.act, a, Row(n, z)) \in Tables(Acts, RowType)
      /\ Upsert(k.head, About[a].cell, [seq |-> n, act |-> a]) \in Tables(Cells, HeadType)
  BY <1>1, <1>2, <1>3, UpsertType
<1>5. WrittenLinks(k, a) \in Tables(Acts, Acts \cup {None})
  BY <1>3, WrittenLinksType
<1>6. /\ q.act = Upsert(k.act, a, Row(n, z)) /\ q.entry \subseteq Entries /\ q.link = WrittenLinks(k, a)
      /\ q.head = Upsert(k.head, About[a].cell, [seq |-> n, act |-> a])
      /\ q = [act |-> q.act, entry |-> q.entry, link |-> q.link, head |-> q.head]
  BY <1>1, <1>3 DEF InCache
<1>. HIDE DEF q
<1>7. q \in C!Caches
  BY <1>4, <1>5, <1>6, CacheFacts
<1>. QED BY <1>7 DEF q

(* A host function writes, to the cache and to the lists.                  *)
LEMMA CachedWriteStep ==
  ASSUME C!CachedInv, NEW a \in Acts, C!WriteAction(a)
  PROVE  C!CachedInv' /\ C!Rows!WriteAction(a)
<1>. DEFINE c == About[a].cell
            r == C!R
            n == r.head[c].seq + 1
<1>1. /\ inCall = c /\ Writable(DOMAIN cache.act, a) /\ idb' = idb /\ inCall' = inCall
      /\ \E running \in Zomes \cup {None} :
           /\ pending' = C!Write(C!Both(pending, cache), a, RecordedZome(a, running)).pending
           /\ cache' = C!Write(C!Both(pending, cache), a, RecordedZome(a, running)).cache
  BY RowCopies, Copies DEF C!WriteAction
<1>2. PICK running \in Zomes \cup {None} :
        /\ pending' = C!Write(C!Both(pending, cache), a, RecordedZome(a, running)).pending
        /\ cache' = C!Write(C!Both(pending, cache), a, RecordedZome(a, running)).cache
  BY <1>1
<1>. DEFINE z == RecordedZome(a, running)
            p == pending'
            k == cache'
<1>3. z \in Zomes \cup {None}
  BY <1>2, AboutFacts, ChainActionsAssumption DEF RecordedZome
<1>4. c \in Cells /\ inCall # None /\ pending # None
  BY <1>1, AboutFacts, NoneAssumption, CachedFacts
<1>5. /\ RowsInv(r) /\ r \in Contents /\ idb \in Contents /\ idb # None /\ pending \in C!Pendings /\ cache \in C!Caches
      /\ r = C!Applied(idb, pending) /\ SavedRows = idb
  BY <1>4, CachedFacts DEF C!R, SavedRows
<1>6. /\ r.head[c] # None /\ cache.head[c] = r.head[c] /\ OfCell(r, c) \subseteq DOMAIN cache.act
      /\ \A e \in DOMAIN r.entry : r.entry[e] = c => e \in cache.entry
      /\ cache.link = Restrict(r.link, {x \in DOMAIN r.link : About[x].cell = c})
      /\ \A i \in DOMAIN pending.gone : pending.gone[i].key \in DOMAIN r.act
      /\ (pending.head # None => pending.head.cell = c)
  BY <1>1, <1>4, RunningFacts
<1>7. n \in Nat /\ n = NextSeq(C!getChainHead(c))
  BY <1>4, <1>5, <1>6, RowFacts DEF NextSeq, C!getChainHead
<1>8. DOMAIN cache.act \subseteq DOMAIN r.act /\ a \notin DOMAIN r.act /\ Writable(DOMAIN r.act, a)
  <2>1. DOMAIN cache.act \subseteq DOMAIN r.act
    BY CachedFacts
  <2>2. a \notin DOMAIN r.act
    BY <1>1, <1>6 DEF Writable, OfCell
  <2>. QED BY <1>1, <2>1, <2>2 DEF Writable
<1>9. p = Pended(pending, a, n, z) /\ k = InCache(cache, a, n, z)
  <2>1. C!Write(C!Both(pending, cache), a, z) = C!Both(Pended(pending, a, n, z), InCache(cache, a, n, z))
    <3>. HIDE DEF z, n
    <3>. QED BY <1>5, <1>7, SessionWrite
  <2>. QED BY <1>2, <2>1 DEF C!Both
<1>. HIDE DEF z, n, r
<1>10. p \in C!Pendings /\ k \in C!Caches /\ p # None
  BY <1>3, <1>5, <1>7, <1>9, PendedType, InCacheType, PendingFacts
<1>11. C!R' = Written(r, a, z) /\ C!R' = Write(r, a, z) /\ RowsInv(C!R')
  <2>1. C!Applied(idb, p) = Written(r, a, z)
    <3>1. n = r.head[About[a].cell].seq + 1
      BY DEF n
    <3>. QED BY <1>3, <1>5, <1>6, <1>7, <1>8, <1>9, <3>1, AppliedWrite
  <2>2. C!R' = Written(r, a, z)
    BY <1>1, <1>10, <2>1, RowsAreR
  <2>3. RowsInv(Write(r, a, z)) /\ Write(r, a, z) = Written(r, a, z)
    BY <1>3, <1>5, <1>6, <1>8, WriteKeepsRows
  <2>. QED BY <2>2, <2>3
<1>. DEFINE w == C!R'
<1>12. /\ DOMAIN w.act = DOMAIN r.act \cup {a} /\ w.act[a] = Row(n, z)
       /\ \A b \in DOMAIN r.act : w.act[b] = r.act[b]
       /\ DOMAIN w.entry = DOMAIN r.entry \cup (IF isEntryAction(a) THEN {About[a].entry} ELSE {})
       /\ w.link = WrittenLinks(r, a) /\ w.head[c] = [seq |-> n, act |-> a]
  <2>1. n = r.head[About[a].cell].seq + 1
    BY DEF n
  <2>2. w = Written(r, a, z)
    BY <1>11
  <2>. HIDE DEF w
  <2>. QED BY <1>3, <1>5, <1>6, <1>8, <2>1, <2>2, WrittenParts
<1>13. w.entry = IF isEntryAction(a) THEN Upsert(r.entry, About[a].entry, c) ELSE r.entry
  BY <1>11 DEF Written
<1>14. /\ k.act = Upsert(cache.act, a, Row(n, z)) /\ k.link = WrittenLinks(cache, a)
       /\ k.entry = cache.entry \cup (IF isEntryAction(a) THEN {About[a].entry} ELSE {})
       /\ k.head = Upsert(cache.head, c, [seq |-> n, act |-> a])
  BY <1>9 DEF InCache
<1>15. /\ DOMAIN k.act = DOMAIN cache.act \cup {a} /\ k.act[a] = Row(n, z)
       /\ \A b \in DOMAIN cache.act : b # a => k.act[b] = cache.act[b]
       /\ c \in DOMAIN k.head /\ k.head[c] = [seq |-> n, act |-> a]
  BY <1>14 DEF Upsert
<1>16. k.link = Restrict(w.link, {x \in DOMAIN w.link : About[x].cell = c})
  <2>1. a \notin DOMAIN r.link
    BY <1>5, <1>8 DEF RowsInv, LinkRows
  <2>2. cache.link = LinksOf(r.link, About[a].cell)
    BY <1>6 DEF LinksOf
  <2>3. WrittenLinks(cache, a) = LinksOf(WrittenLinks(r, a), About[a].cell)
    BY <2>1, <2>2, WrittenCachedLinks
  <2>. QED BY <1>12, <1>14, <2>3 DEF LinksOf
<1>17. /\ p.head.cell = c
       /\ p.gone = IF About[a].type = "DeleteLink" THEN C!Listed(pending.gone, About[a].original, a) ELSE pending.gone
  BY <1>9 DEF Pended
<1>18. \A i \in DOMAIN p.gone : p.gone[i].key \in DOMAIN w.act
  <2>1. CASE About[a].type = "DeleteLink"
    <3>1. About[a].original \in DOMAIN r.act
      BY <1>8, <2>1, ChainActionsAssumption DEF Writable
    <3>2. p.gone = Append(pending.gone, [key |-> About[a].original, value |-> a])
      BY <1>17, <2>1 DEF C!Listed
    <3>3. pending.gone \in Seq([key : Acts, value : Acts])
      BY <1>5, PendingFacts DEF C!Lists
    <3>4. \A i \in DOMAIN p.gone : (i \in DOMAIN pending.gone /\ p.gone[i] = pending.gone[i])
                                  \/ p.gone[i] = [key |-> About[a].original, value |-> a]
      BY <3>2, <3>3
    <3>. QED BY <1>6, <1>12, <3>1, <3>4
  <2>2. CASE About[a].type # "DeleteLink"
    BY <1>6, <1>12, <1>17, <2>2
  <2>. QED BY <2>1, <2>2
<1>19. \A b \in DOMAIN k.act : b \in DOMAIN w.act /\ k.act[b] = w.act[b]
  BY <1>8, <1>12, <1>15, CachedFacts DEF r
<1>20. k.entry \subseteq DOMAIN w.entry
  BY <1>12, <1>14, CachedFacts DEF r
<1>21. \A e \in DOMAIN w.entry : w.entry[e] = c => e \in k.entry
  BY <1>6, <1>13, <1>14 DEF Upsert
<1>22. OfCell(w, c) \subseteq DOMAIN k.act
  BY <1>6, <1>12, <1>15 DEF OfCell
<1>23. w.head[c] # None
  BY <1>7, <1>12, NoneAssumption
<1>24. C!CachedInv'
  <2>. HIDE DEF w, p, k
  <2>1. RowsInv(idb')
    BY <1>1, CachedFacts
  <2>. QED BY <1>1, <1>4, <1>10, <1>11, <1>12, <1>15, <1>16, <1>17, <1>18, <1>19, <1>20, <1>21, <1>22, <1>23, <2>1,
              CachedNextFacts DEF w, p, k
<1>25. C!Rows!WriteAction(a)
  <2>1. SavedRows' = SavedRows /\ SavedRows # None
    BY <1>1, <1>5, <1>10, RowsAreR
  <2>2. C!R' = C!Rows!Write(C!R, a, C!Rows!RecordedZome(a, running))
    BY <1>11, RowCopies DEF r, z, C!Rows!RecordedZome, RecordedZome
  <2>3. C!R.head[c] # None /\ C!Rows!Writable(DOMAIN C!R.act, a)
    BY <1>6, <1>8, RowCopies DEF r
  <2>. QED BY <2>1, <2>2, <2>3 DEF C!Rows!WriteAction, C!R, SavedRows
<1>. QED BY <1>24, <1>25

(* The list becomes one IndexedDB transaction.                             *)
LEMMA CachedCommitStep ==
  ASSUME C!CachedInv, C!commitTransaction
  PROVE  C!CachedInv' /\ C!Rows!commitTransaction
<1>1. pending # None /\ idb' = C!Applied(idb, pending) /\ pending' = None /\ inCall' = None /\ cache' = cache
  BY DEF C!commitTransaction
<1>2. C!R' = C!R /\ idb' = C!R /\ SavedRows # None /\ SavedRows' = None
  BY <1>1, CachedFacts, RowsAreR DEF SavedRows
<1>3. C!CachedInv'
  BY <1>1, <1>2, CachedFacts, CachedNextFacts
<1>4. C!Rows!commitTransaction
  BY <1>2 DEF C!Rows!commitTransaction, C!R, SavedRows
<1>. QED BY <1>3, <1>4

(* What a failed call wrote is gone, from the cache as well.               *)
LEMMA CachedDropStep ==
  ASSUME C!CachedInv, idb' = idb, pending' = None, inCall' = None,
         cache' = C!NoCache \/ cache' = [C!NoCache EXCEPT !.head = cache.head]
  PROVE  C!CachedInv' /\ (pending # None => C!Rows!rollbackTransaction)
                      /\ (pending = None => UNCHANGED <<C!R, SavedRows>>)
<1>1. C!R' = idb /\ SavedRows' = None
  BY RowsAreR
<1>2. cache' \in C!Caches /\ DOMAIN cache'.act = {} /\ cache'.entry = {}
  <2>1. CASE cache' = C!NoCache
    BY <2>1, NothingCached
  <2>2. CASE cache' = [C!NoCache EXCEPT !.head = cache.head]
    <3>1. /\ C!NoCache = [act |-> C!NoCache.act, entry |-> C!NoCache.entry, link |-> C!NoCache.link, head |-> C!NoCache.head]
          /\ C!NoCache.act \in Tables(Acts, RowType) /\ C!NoCache.entry \subseteq Entries
          /\ C!NoCache.link \in Tables(Acts, Acts \cup {None})
      BY NothingCached, CacheFacts
    <3>2. cache' = [act |-> C!NoCache.act, entry |-> C!NoCache.entry, link |-> C!NoCache.link, head |-> cache.head]
      BY <2>2, <3>1
    <3>3. cache.head \in Tables(Cells, HeadType)
      BY CachedFacts, CacheFacts
    <3>4. cache'.act = C!NoCache.act /\ cache'.entry = C!NoCache.entry /\ cache'.link = C!NoCache.link /\ cache'.head = cache.head
          /\ cache' = [act |-> cache'.act, entry |-> cache'.entry, link |-> cache'.link, head |-> cache'.head]
      BY <3>2
    <3>5. cache' \in C!Caches
      BY <3>1, <3>3, <3>4, CacheFacts
    <3>. QED BY <3>4, <3>5, NothingCached
  <2>. QED BY <2>1, <2>2
<1>3. C!CachedInv'
  BY <1>1, <1>2, CachedFacts, CachedNextFacts
<1>4. pending # None => C!Rows!rollbackTransaction
  BY <1>1, CachedFacts DEF C!Rows!rollbackTransaction, C!R, SavedRows
<1>5. pending = None => UNCHANGED <<C!R, SavedRows>>
  BY <1>1 DEF C!R, SavedRows
<1>. QED BY <1>3, <1>4, <1>5

(* clear.                                                                  *)
LEMMA CachedClearStep ==
  ASSUME C!CachedInv, C!clear
  PROVE  C!CachedInv' /\ C!Rows!clear
<1>1. inCall = None /\ pending = None /\ idb' = NoRows /\ cache' = C!NoCache /\ pending' = None /\ inCall' = None
  BY CachedFacts, RowCopies DEF C!clear
<1>2. C!R' = NoRows /\ SavedRows = None /\ SavedRows' = None
  BY <1>1, RowsAreR DEF SavedRows
<1>3. C!CachedInv'
  BY <1>1, <1>2, NoRowsInv, NothingCached, CachedNextFacts
<1>4. C!Rows!clear
  BY <1>2, RowCopies DEF C!Rows!clear, C!R, SavedRows
<1>. QED BY <1>3, <1>4

(* The chain of the cell is loaded and the transaction begins.             *)
LEMMA CachedBeginStep ==
  ASSUME C!CachedInv, NEW c \in Cells, C!BeginCall(c)
  PROVE  C!CachedInv' /\ C!Rows!beginTransaction
<1>. DEFINE own == {a \in DOMAIN idb.act : About[a].cell = c}
            loaded == Restrict(idb.act, own)
            links == {a \in DOMAIN idb.link : About[a].cell = c}
<1>1. /\ inCall = None /\ pending = None /\ idb.head[c] # None /\ idb' = idb
      /\ cache' = C!Preloaded(c) /\ pending' = C!NoPending /\ inCall' = c
  BY CachedFacts DEF C!BeginCall
<1>2. c # None /\ C!NoPending # None /\ C!NoPending \in C!Pendings
  BY NoneAssumption, NothingCached, PendingFacts
<1>3. C!R = idb /\ C!R' = idb /\ SavedRows = None /\ SavedRows' = idb /\ RowsInv(idb) /\ idb \in Contents
  BY <1>1, <1>2, CachedFacts, RowsAreR, NothingApplied DEF SavedRows
<1>4. cache' = [act |-> Overlay(loaded, cache.act), entry |-> cache.entry \cup {e \in DOMAIN idb.entry : idb.entry[e] = c},
                link |-> Restrict(idb.link, links), head |-> Upsert(cache.head, c, idb.head[c])]
  BY <1>1, Copies DEF C!Preloaded
<1>5. /\ cache'.act = Overlay(loaded, cache.act) /\ cache'.link = Restrict(idb.link, links)
      /\ cache'.entry = cache.entry \cup {e \in DOMAIN idb.entry : idb.entry[e] = c}
      /\ cache'.head = Upsert(cache.head, c, idb.head[c])
      /\ cache' = [act |-> cache'.act, entry |-> cache'.entry, link |-> cache'.link, head |-> cache'.head]
  BY <1>4
<1>6. /\ idb.act \in Tables(Acts, RowType) /\ idb.link \in Tables(Acts, Acts \cup {None}) /\ DOMAIN idb.entry \subseteq Entries
      /\ cache.act \in Tables(Acts, RowType) /\ cache.head \in Tables(Cells, HeadType) /\ cache.entry \subseteq Entries
      /\ idb.head[c] \in HeadType
  BY <1>1, <1>3, CachedFacts, CacheFacts, ContentFacts, RowFacts
<1>7. loaded \in Tables(Acts, RowType) /\ Restrict(idb.link, links) \in Tables(Acts, Acts \cup {None})
  <2>1. own \subseteq DOMAIN idb.act /\ links \subseteq DOMAIN idb.link
    OBVIOUS
  <2>. HIDE DEF own, links
  <2>. QED BY <1>6, <2>1, RestrictType
<1>8. DOMAIN loaded = own /\ \A a \in own : loaded[a] = idb.act[a]
  BY DEF Restrict
<1>. HIDE DEF loaded
<1>9. Overlay(loaded, cache.act) \in Tables(Acts, RowType) /\ Upsert(cache.head, c, idb.head[c]) \in Tables(Cells, HeadType)
  BY <1>6, <1>7, OverlayType, UpsertType
<1>10. cache' \in C!Caches
  <2>1. cache'.entry \subseteq Entries
    BY <1>5, <1>6
  <2>. QED BY <1>5, <1>7, <1>9, <2>1, CacheFacts
<1>11. DOMAIN cache'.act = own \cup DOMAIN cache.act /\ \A a \in DOMAIN cache'.act : a \in DOMAIN idb.act /\ cache'.act[a] = idb.act[a]
  <2>1. \A a \in DOMAIN cache.act : a \in DOMAIN idb.act /\ cache.act[a] = idb.act[a]
    BY <1>3, CachedFacts
  <2>. QED BY <1>5, <1>8, <2>1 DEF Overlay
<1>12. cache'.entry \subseteq DOMAIN idb.entry /\ \A e \in DOMAIN idb.entry : idb.entry[e] = c => e \in cache'.entry
  BY <1>3, <1>5, CachedFacts
<1>13. c \in DOMAIN cache'.head /\ cache'.head[c] = idb.head[c]
  BY <1>5 DEF Upsert
<1>14. OfCell(idb, c) \subseteq DOMAIN cache'.act
  BY <1>11 DEF OfCell
<1>15. DOMAIN pending'.gone = {} /\ pending'.head = None
  BY <1>1, NothingCached
<1>16. C!CachedInv'
  BY <1>1, <1>2, <1>3, <1>5, <1>10, <1>11, <1>12, <1>13, <1>14, <1>15, CachedNextFacts
<1>17. C!Rows!beginTransaction
  BY <1>3 DEF C!Rows!beginTransaction, C!R, SavedRows
<1>. QED BY <1>16, <1>17

(* Genesis enters the cache as it is stored.                               *)
LEMMA CachedFoundStep ==
  ASSUME C!CachedInv, NEW c \in Cells, C!FoundChain(c)
  PROVE  C!CachedInv' /\ C!Rows!FoundChain(c)
<1>. DEFINE G == Range(Genesis[c])
            f == idb'
            loaded == Restrict(f.act, G)
            made == {About[a].entry : a \in {b \in G : isEntryAction(b)}}
<1>1. /\ inCall = None /\ pending = None /\ (IF c \in DOMAIN cache.head THEN cache.head[c] ELSE idb.head[c]) = None
      /\ f = Found(idb, c) /\ pending' = None /\ inCall' = None
  BY RowCopies DEF C!FoundChain
<1>2. cache' = [act |-> Overlay(loaded, cache.act), entry |-> cache.entry \cup made, link |-> cache.link,
                head |-> Upsert(cache.head, c, f.head[c])]
  <2>1. C!Range(Genesis[c]) = G
    BY DEF C!Range, Range
  <2>. QED BY <2>1, Copies DEF C!FoundChain
<1>3. idb.head[c] = None /\ RowsInv(idb)
  BY <1>1, CachedFacts
<1>4. /\ RowsInv(f) /\ DOMAIN f.act = G \cup DOMAIN idb.act /\ \A a \in DOMAIN idb.act : f.act[a] = idb.act[a]
      /\ f = [act |-> Overlay(FoundingRows(c), idb.act), entry |-> Overlay(FoundingEntries(c), idb.entry),
               link |-> idb.link,
               head |-> [idb.head EXCEPT ![c] = [seq |-> Len(Genesis[c]) - 1, act |-> Genesis[c][Len(Genesis[c])]]]]
  <2>. HIDE DEF f
  <2>. QED BY <1>1, <1>3, FoundKeepsRows
<1>5. f.entry = Overlay(FoundingEntries(c), idb.entry)
  BY <1>4
<1>6. f.head[c] # None /\ f.head[c] \in HeadType /\ f \in Contents
  <2>1. f.head = [idb.head EXCEPT ![c] = [seq |-> Len(Genesis[c]) - 1, act |-> Genesis[c][Len(Genesis[c])]]]
    BY <1>4
  <2>2. idb.head \in [Cells -> HeadType \cup {None}]
    BY CachedFacts, ContentFacts
  <2>3. f.head[c] = [seq |-> Len(Genesis[c]) - 1, act |-> Genesis[c][Len(Genesis[c])]]
    BY <2>1, <2>2
  <2>4. f.head[c] \in HeadType
    BY <2>3, GenesisFacts DEF HeadType
  <2>5. f \in Contents
    BY <1>4 DEF RowsInv
  <2>. QED BY <2>4, <2>5, NoneAssumption DEF HeadType
<1>. HIDE DEF f
<1>7. /\ cache'.act = Overlay(loaded, cache.act) /\ cache'.entry = cache.entry \cup made
      /\ cache'.link = cache.link /\ cache'.head = Upsert(cache.head, c, f.head[c])
      /\ cache' = [act |-> cache'.act, entry |-> cache'.entry, link |-> cache'.link, head |-> cache'.head]
  BY <1>2
<1>8. made \subseteq DOMAIN f.entry /\ DOMAIN idb.entry \subseteq DOMAIN f.entry /\ DOMAIN f.entry \subseteq Entries
  <2>1. \A a \in G : a \in Acts /\ (isEntryAction(a) => About[a].entry # None)
    BY GenesisFacts, ChainActionsAssumption
  <2>2. DOMAIN FoundingEntries(c) = {About[a].entry : a \in G} \ {None}
    BY DEF FoundingEntries
  <2>3. DOMAIN f.entry = DOMAIN FoundingEntries(c) \cup DOMAIN idb.entry
    BY <1>5 DEF Overlay
  <2>4. DOMAIN f.entry \subseteq Entries
    BY <1>6, RowFacts
  <2>. QED BY <2>1, <2>2, <2>3, <2>4
<1>9. DOMAIN loaded = G /\ \A a \in G : loaded[a] = f.act[a]
  BY DEF Restrict
<1>10. loaded \in Tables(Acts, RowType) /\ cache.act \in Tables(Acts, RowType) /\ cache.entry \subseteq Entries
       /\ cache.link \in Tables(Acts, Acts \cup {None}) /\ cache.head \in Tables(Cells, HeadType)
  <2>1. f.act \in Tables(Acts, RowType) /\ G \subseteq DOMAIN f.act
    BY <1>4, <1>6, ContentFacts
  <2>. HIDE DEF G
  <2>2. loaded \in Tables(Acts, RowType)
    BY <2>1, RestrictType
  <2>. QED BY <2>2, CachedFacts, CacheFacts
<1>. HIDE DEF loaded, made
<1>11. cache' \in C!Caches
  <2>1. Overlay(loaded, cache.act) \in Tables(Acts, RowType) /\ Upsert(cache.head, c, f.head[c]) \in Tables(Cells, HeadType)
    BY <1>6, <1>10, OverlayType, UpsertType
  <2>2. cache'.entry \subseteq Entries
    BY <1>7, <1>8, <1>10
  <2>. QED BY <1>7, <1>10, <2>1, <2>2, CacheFacts
<1>12. C!R = idb /\ C!R' = f /\ SavedRows = None /\ SavedRows' = None
  BY <1>1, RowsAreR DEF SavedRows, C!R, f
<1>13. \A a \in DOMAIN cache'.act : a \in DOMAIN f.act /\ cache'.act[a] = f.act[a]
  <2>1. \A a \in DOMAIN cache.act : a \in DOMAIN f.act /\ cache.act[a] = f.act[a]
    BY <1>4, <1>12, CachedFacts
  <2>. QED BY <1>4, <1>7, <1>9, <2>1 DEF Overlay
<1>14. cache'.entry \subseteq DOMAIN f.entry
  BY <1>7, <1>8, <1>12, CachedFacts
<1>15. C!CachedInv'
  <2>1. RowsInv(idb')
    BY <1>4 DEF f
  <2>. QED BY <1>1, <1>4, <1>11, <1>12, <1>13, <1>14, <2>1, CachedNextFacts
<1>16. C!Rows!FoundChain(c)
  <2>1. C!R' = C!Rows!Found(C!R, c) /\ C!R.head[c] = None
    BY <1>1, <1>3, <1>12, RowCopies
  <2>. QED BY <1>12, <2>1 DEF C!Rows!FoundChain, C!R, SavedRows
<1>. QED BY <1>15, <1>16

(* Every step of the cached store keeps the invariant, and is one of the   *)
(* row store or none.                                                      *)
LEMMA CachedStep ==
  ASSUME C!CachedInv, [Next]_<<part, authorVars, cachedVars>>
  PROVE  C!CachedInv' /\ (C!Rows!StoreNext \/ UNCHANGED <<C!R, SavedRows>>)
<1>1. CASE UNCHANGED cachedVars
  <2>1. UNCHANGED <<idb, pending, cache, inCall>>
    BY <1>1 DEF cachedVars
  <2>2. C!CachedInv'
    BY <2>1 DEF C!CachedInv, C!CachedTypeOK, C!CacheTrue, C!CacheWhole, C!R
  <2>3. UNCHANGED <<C!R, SavedRows>>
    BY <2>1 DEF C!R, SavedRows
  <2>. QED BY <2>2, <2>3
<1>2. CASE C!CachedNext
  <2>1. CASE C!commitTransaction
    BY <2>1, CachedCommitStep DEF C!Rows!StoreNext
  <2>2. CASE C!CommitAborted
    BY <2>2, CachedDropStep DEF C!Rows!StoreNext, C!CommitAborted
  <2>3. CASE C!rollbackTransaction
    BY <2>3, CachedDropStep DEF C!Rows!StoreNext, C!rollbackTransaction
  <2>4. CASE C!Reload
    BY <2>4, CachedDropStep DEF C!Rows!StoreNext, C!Reload
  <2>5. CASE C!clear
    BY <2>5, CachedClearStep DEF C!Rows!StoreNext
  <2>6. ASSUME NEW c \in Cells, C!FoundChain(c) PROVE C!CachedInv' /\ C!Rows!StoreNext
    BY <2>6, CachedFoundStep DEF C!Rows!StoreNext
  <2>7. ASSUME NEW c \in Cells, C!BeginCall(c) PROVE C!CachedInv' /\ C!Rows!StoreNext
    BY <2>7, CachedBeginStep DEF C!Rows!StoreNext
  <2>8. ASSUME NEW a \in Acts, C!WriteAction(a) PROVE C!CachedInv' /\ C!Rows!StoreNext
    BY <2>8, CachedWriteStep DEF C!Rows!StoreNext
  <2>. QED BY <1>2, <2>1, <2>2, <2>3, <2>4, <2>5, <2>6, <2>7, <2>8 DEF C!CachedNext
<1>. QED BY <1>1, <1>2 DEF Next, cachedVars

(* The invariant of the cached store (SourceChainStorage): what is pending *)
(* was asked for by the running call, and its cache is true, and whole for *)
(* the cell of the call.                                                   *)
THEOREM CachedInvariant == Spec => []C!CachedInv
<1>1. Init => C!CachedInv
  BY CachedInitInv DEF Init
<1>2. C!CachedInv /\ [Next]_<<part, authorVars, cachedVars>> => C!CachedInv'
  BY CachedStep
<1>. QED BY <1>1, <1>2, PTL DEF Spec

(* SourceChainStorage implements the row store: the object stores with the *)
(* pending lists over them are its rows (commitTransaction, rollback, the  *)
(* writes inside a transaction).                                           *)
THEOREM CachedStoreImplementsRows == Spec => ImplementsRows
<1>1. Init => C!Rows!StoreInit
  BY CachedInitInv, RowCopies DEF Init, C!Rows!StoreInit, C!R, SavedRows
<1>2. C!CachedInv /\ [Next]_<<part, authorVars, cachedVars>> => [C!Rows!StoreNext]_(C!Rows!storeVars)
  BY CachedStep DEF C!Rows!storeVars, C!R, SavedRows
<1>. QED BY <1>1, <1>2, CachedInvariant, PTL DEF Spec, ImplementsRows, C!ImplementsRows, C!Rows!StoreSpec

(* Why the answers are the same: the cache is true and whole.              *)
LEMMA AnswersNow ==
  ASSUME C!CachedInv
  PROVE  SameAnswers
<1>. DEFINE r == C!R
            c == inCall
<1>1. SUFFICES ASSUME c # None
               PROVE  /\ C!getChainHead(c) = r.head[c]
                      /\ \A a \in Acts : About[a].cell = c =>
                           /\ a \in DOMAIN cache.act <=> a \in DOMAIN r.act
                           /\ a \in DOMAIN cache.act => cache.act[a] = r.act[a]
                      /\ \A e \in Entries :
                           /\ e \in cache.entry => e \in DOMAIN r.entry
                           /\ (e \in DOMAIN r.entry /\ r.entry[e] = c) => e \in cache.entry
                           /\ (e \in cache.entry /\ C!Rows!getDetails(r, e, c) # None) =>
                                C!OfTheCall(C!getDetails(e)) = C!Rows!getDetails(r, e, c)
                      /\ \A b \in Entries \cup Acts :
                           {a \in C!getLinks(b) : cache.link[a] = None} = C!Rows!getLinks(r, b, c)
  BY DEF SameAnswers, C!SameAnswers
<1>2. /\ RowsInv(r) /\ \A a \in DOMAIN cache.act : a \in DOMAIN r.act /\ cache.act[a] = r.act[a]
      /\ cache.entry \subseteq DOMAIN r.entry /\ DOMAIN r.act \subseteq Acts
  BY CachedFacts, RowFacts
<1>3. /\ cache.head[c] = r.head[c] /\ OfCell(r, c) \subseteq DOMAIN cache.act
      /\ \A e \in DOMAIN r.entry : r.entry[e] = c => e \in cache.entry
      /\ cache.link = Restrict(r.link, {a \in DOMAIN r.link : About[a].cell = c})
  BY <1>1, RunningFacts
<1>. HIDE DEF r, c
<1>4. \A a : About[a].cell = c => (a \in DOMAIN cache.act <=> a \in DOMAIN r.act)
  BY <1>2, <1>3 DEF OfCell
<1>5. ASSUME NEW e \in cache.entry, getDetails(r, e, c) # None
      PROVE  C!OfTheCall(C!getDetails(e)) = getDetails(r, e, c)
  <2>1. /\ getDetails(r, e, c) = [updates |-> UpdatesOf(r, e, c), deletes |-> DeletesOf(r, e, c)]
        /\ WithEntry(r, e) \cap OfCell(r, c) # {}
    BY <1>5 DEF getDetails
  <2>2. C!WithEntry(e) # {}
    BY <1>3, <2>1 DEF C!WithEntry, WithEntry, OfCell
  <2>. DEFINE U == {a \in DOMAIN cache.act : About[a].type = "Update" /\ OriginalEntry(a) = e}
              D == {a \in DOMAIN cache.act : About[a].type = "Delete" /\ OriginalEntry(a) = e}
  <2>3. C!getDetails(e) = [updates |-> U, deletes |-> D]
    BY <1>5, <2>2, Copies DEF C!getDetails
  <2>4. {a \in U : About[a].cell = c} = UpdatesOf(r, e, c) /\ {a \in D : About[a].cell = c} = DeletesOf(r, e, c)
    BY <1>4 DEF UpdatesOf, DeletesOf, OfCell
  <2>. HIDE DEF U, D
  <2>5. C!OfTheCall(C!getDetails(e)) =
          [f \in {"updates", "deletes"} |-> {a \in [updates |-> U, deletes |-> D][f] : About[a].cell = c}]
    BY <2>3 DEF C!OfTheCall, c
  <2>6. C!OfTheCall(C!getDetails(e)) = [updates |-> {a \in U : About[a].cell = c}, deletes |-> {a \in D : About[a].cell = c}]
    BY <2>5
  <2>. QED BY <2>1, <2>4, <2>6
<1>6. ASSUME NEW b PROVE {a \in C!getLinks(b) : cache.link[a] = None} = getLinks(r, b, c)
  BY <1>3, Copies DEF C!getLinks, getLinks, Restrict
<1>7. C!getChainHead(c) = r.head[c]
  BY <1>3 DEF C!getChainHead
<1>. QED BY <1>2, <1>3, <1>4, <1>5, <1>6, <1>7, RowCopies

(* While a call runs, the session cache answers as the row store would     *)
(* (preloadChainForCell, and the writes of SourceChainStorage).            *)
THEOREM CacheAnswersLikeRows == Spec => []SameAnswers
BY CachedInvariant, AnswersNow, PTL
=============================================================================
