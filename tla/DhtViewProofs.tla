---------------------------- MODULE DhtViewProofs ----------------------------
(***************************************************************************)
(* DhtView for any links, records, DNAs, capacities and calls: what was    *)
(* deleted stays deleted, the details of links only grow, and what the     *)
(* record cache holds is found, under no hash but its own.                 *)
(***************************************************************************)
EXTENDS DhtView, SequenceTheorems, TLAPS

(***************************************************************************)
(* The caches                                                              *)
(***************************************************************************)
Has(c, k, v) == \E i \in DOMAIN c : c[i] = [key |-> k, value |-> v]
Cache(K, V) == Seq([key : K, value : V])

LEMMA SeqFacts ==
  ASSUME NEW S, NEW c \in Seq(S)
  PROVE  /\ Len(c) \in Nat /\ DOMAIN c = 1..Len(c) /\ \A i \in DOMAIN c : c[i] \in S
         /\ \A i \in 1..Len(c) : c[i] \in S
OBVIOUS

LEMMA FunctionIsSeq ==
  ASSUME NEW S, NEW n \in Nat, NEW f \in [1..n -> S]
  PROVE  f \in Seq(S)
BY SeqDef

LEMMA CacheFacts ==
  ASSUME NEW K, NEW V, NEW c \in Cache(K, V)
  PROVE  /\ c \in Seq([key : K, value : V]) /\ Len(c) \in Nat /\ DOMAIN c = 1..Len(c)
         /\ \A i \in DOMAIN c : c[i] \in [key : K, value : V]
BY SeqFacts DEF Cache

(* A sequence from which one element is removed.                           *)
LEMMA RemoveFacts ==
  ASSUME NEW S, NEW c \in Seq(S), NEW n \in DOMAIN c
  PROVE  /\ RemoveAt(c, n) \in Seq(S) /\ DOMAIN RemoveAt(c, n) = 1..(Len(c) - 1)
         /\ \A i \in 1..(Len(c) - 1) : RemoveAt(c, n)[i] = IF i < n THEN c[i] ELSE c[i + 1]
<1>. DEFINE l == SubSeq(c, 1, n - 1)
            r == SubSeq(c, n + 1, Len(c))
<1>1. Len(c) \in Nat /\ DOMAIN c = 1..Len(c) /\ n \in 1..Len(c) /\ \A i \in 1..Len(c) : c[i] \in S
  BY SeqFacts
<1>2. /\ l \in Seq(S) /\ Len(l) = n - 1 /\ \A i \in 1..(n - 1) : l[i] = c[i]
  <2>1. n - 1 \in Int /\ \A i \in 1..(n - 1) : c[i] \in S
    BY <1>1
  <2>2. /\ l \in Seq(S) /\ Len(l) = IF 1 <= n - 1 THEN n - 1 - 1 + 1 ELSE 0
        /\ \A i \in 1..(n - 1 - 1 + 1) : l[i] = c[1 + i - 1]
    BY <2>1, SubSeqProperties
  <2>. HIDE DEF l
  <2>. QED BY <1>1, <2>2
<1>3. /\ r \in Seq(S) /\ Len(r) = Len(c) - n /\ \A i \in 1..(Len(c) - n) : r[i] = c[n + i]
  <2>1. n + 1 \in Int /\ Len(c) \in Int /\ \A i \in (n + 1)..Len(c) : c[i] \in S
    BY <1>1
  <2>2. /\ r \in Seq(S) /\ Len(r) = IF n + 1 <= Len(c) THEN Len(c) - (n + 1) + 1 ELSE 0
        /\ \A i \in 1..(Len(c) - (n + 1) + 1) : r[i] = c[n + 1 + i - 1]
    BY <2>1, SubSeqProperties
  <2>. HIDE DEF r
  <2>3. Len(r) = Len(c) - n
    BY <1>1, <2>2
  <2>4. ASSUME NEW i \in 1..(Len(c) - n) PROVE r[i] = c[n + i]
    <3>1. i \in 1..(Len(c) - (n + 1) + 1) /\ n + 1 + i - 1 = n + i
      BY <1>1
    <3>2. r[i] = c[n + 1 + i - 1]
      BY <2>2, <3>1
    <3>. QED BY <3>1, <3>2
  <2>. QED BY <2>2, <2>3, <2>4
<1>. HIDE DEF l, r
<1>4. /\ l \o r \in Seq(S) /\ Len(l \o r) = Len(l) + Len(r)
      /\ \A i \in 1..(Len(l) + Len(r)) : (l \o r)[i] = IF i <= Len(l) THEN l[i] ELSE r[i - Len(l)]
  BY <1>2, <1>3, ConcatProperties
<1>. DEFINE d == RemoveAt(c, n)
<1>5. d = l \o r
  BY DEF RemoveAt, l, r
<1>. HIDE DEF d
<1>6. d \in Seq(S) /\ Len(d) = Len(c) - 1 /\ DOMAIN d = 1..(Len(c) - 1)
  <2>1. d \in Seq(S) /\ Len(d) = Len(l) + Len(r)
    BY <1>4, <1>5
  <2>2. Len(l) + Len(r) = Len(c) - 1
    BY <1>1, <1>2, <1>3
  <2>. QED BY <2>1, <2>2, SeqFacts
<1>7. ASSUME NEW i \in 1..(Len(c) - 1) PROVE d[i] = IF i < n THEN c[i] ELSE c[i + 1]
  <2>1. d[i] = IF i <= n - 1 THEN l[i] ELSE r[i - (n - 1)]
    <3>1. Len(l) = n - 1 /\ i \in 1..(Len(l) + Len(r))
      BY <1>1, <1>2, <1>3
    <3>. QED BY <1>4, <1>5, <3>1
  <2>2. CASE i < n
    BY <2>1, <2>2, <1>1, <1>2
  <2>3. CASE ~(i < n)
    <3>1. i - (n - 1) \in 1..(Len(c) - n) /\ n + (i - (n - 1)) = i + 1
      BY <2>3, <1>1
    <3>2. r[i - (n - 1)] = c[i + 1]
      BY <3>1, <1>3
    <3>3. d[i] = r[i - (n - 1)]
      BY <2>1, <2>3, <1>1
    <3>. QED BY <2>3, <3>2, <3>3
  <2>. QED BY <2>2, <2>3
<1>. QED BY <1>6, <1>7 DEF d

(* Map.delete: of the other keys everything stays.                         *)
LEMMA WithoutFacts ==
  ASSUME NEW K, NEW V, NEW c \in Cache(K, V), Unique(c), NEW k \in K
  PROVE  /\ Without(c, k) \in Cache(K, V) /\ Unique(Without(c, k)) /\ ~Holds(Without(c, k), k)
         /\ \A j \in K : \A v : Has(Without(c, k), j, v) <=> j # k /\ Has(c, j, v)
<1>. DEFINE S == [key : K, value : V]
<1>0. c \in Seq(S) /\ \A i \in DOMAIN c : c[i] \in S
  BY CacheFacts
<1>1. CASE ~Holds(c, k)
  BY <1>0, <1>1 DEF Without, Holds, Has
<1>2. CASE Holds(c, k)
  <2>. DEFINE n == CHOOSE i \in DOMAIN c : c[i].key = k
              d == RemoveAt(c, n)
  <2>1. n \in DOMAIN c /\ c[n].key = k
    BY <1>2 DEF Holds
  <2>2. Len(c) \in Nat /\ DOMAIN c = 1..Len(c)
    BY CacheFacts
  <2>3. /\ d \in Seq(S) /\ DOMAIN d = 1..(Len(c) - 1)
        /\ \A i \in 1..(Len(c) - 1) : d[i] = IF i < n THEN c[i] ELSE c[i + 1]
    BY <1>0, <2>1, RemoveFacts
  <2>4. Without(c, k) = d
    BY <1>2 DEF Without
  <2>. HIDE DEF n, d
  <2>5. \A i \in DOMAIN d : \E j \in DOMAIN c : j # n /\ d[i] = c[j] /\ j = IF i < n THEN i ELSE i + 1
    <3>. SUFFICES ASSUME NEW i \in DOMAIN d
                  PROVE  \E j \in DOMAIN c : j # n /\ d[i] = c[j] /\ j = IF i < n THEN i ELSE i + 1
      OBVIOUS
    <3>. DEFINE j == IF i < n THEN i ELSE i + 1
    <3>1. j \in DOMAIN c /\ j # n /\ d[i] = c[j]
      BY <2>1, <2>2, <2>3
    <3>. QED BY <3>1
  <2>6. \A j \in DOMAIN c : j # n => \E i \in DOMAIN d : d[i] = c[j]
    <3>. SUFFICES ASSUME NEW j \in DOMAIN c, j # n PROVE \E i \in DOMAIN d : d[i] = c[j]
      OBVIOUS
    <3>1. CASE j < n
      BY <3>1, <2>1, <2>2, <2>3
    <3>2. CASE j > n
      <4>1. j - 1 \in DOMAIN d /\ d[j - 1] = c[j]
        BY <3>2, <2>1, <2>2, <2>3
      <4>. QED BY <4>1
    <3>. QED BY <3>1, <3>2, <2>1, <2>2
  <2>7. Unique(d)
    <3>. SUFFICES ASSUME NEW i \in DOMAIN d, NEW j \in DOMAIN d, d[i].key = d[j].key PROVE i = j
      BY DEF Unique
    <3>1. PICK x \in DOMAIN c : d[i] = c[x] /\ x = IF i < n THEN i ELSE i + 1
      BY <2>5
    <3>2. PICK y \in DOMAIN c : d[j] = c[y] /\ y = IF j < n THEN j ELSE j + 1
      BY <2>5
    <3>3. x = y
      BY <3>1, <3>2 DEF Unique
    <3>. QED BY <3>1, <3>2, <3>3, <2>1, <2>2, <2>3
  <2>8. ~Holds(d, k)
    BY <2>1, <2>5 DEF Holds, Unique
  <2>9. ASSUME NEW j \in K, NEW v PROVE Has(d, j, v) <=> j # k /\ Has(c, j, v)
    <3>1. ASSUME Has(d, j, v) PROVE j # k /\ Has(c, j, v)
      BY <3>1, <2>5, <2>8 DEF Has, Holds
    <3>2. ASSUME j # k, Has(c, j, v) PROVE Has(d, j, v)
      BY <3>2, <2>6, <2>1 DEF Has
    <3>. QED BY <3>1, <3>2
  <2>. QED BY <2>3, <2>4, <2>7, <2>8, <2>9 DEF Cache
<1>. QED BY <1>1, <1>2

(* What is held under a key is its value.                                  *)
LEMMA ValueFacts ==
  ASSUME NEW K, NEW V, NEW c \in Cache(K, V), Unique(c), NEW k \in K
  PROVE  /\ Holds(c, k) => Has(c, k, Value(c, k)) /\ Value(c, k) \in V
         /\ \A v : Has(c, k, v) => Holds(c, k) /\ Value(c, k) = v
<1>1. \A i \in DOMAIN c : c[i] \in [key : K, value : V]
  BY CacheFacts
<1>2. Range(c) = {c[i] : i \in DOMAIN c}
  BY DEF Range
<1>3. ASSUME NEW i \in DOMAIN c, c[i].key = k PROVE Value(c, k) = c[i].value
  <2>1. (CHOOSE e \in Range(c) : e.key = k) = c[i]
    BY <1>2, <1>3 DEF Unique
  <2>. QED BY <2>1 DEF Value
<1>. QED BY <1>1, <1>3 DEF Holds, Has

(* Map.set behind the others: at most the oldest of the others goes.       *)
LEMMA BehindFacts ==
  ASSUME NEW K, NEW V, NEW c \in Cache(K, V), Unique(c), NEW k \in K, ~Holds(c, k), NEW v \in V
  PROVE  LET d == Append(c, [key |-> k, value |-> v])
         IN /\ d \in Cache(K, V) /\ Unique(d)
            /\ \A j \in K : \A w : Has(d, j, w) <=> (j = k /\ w = v) \/ Has(c, j, w)
<1>. DEFINE e == [key |-> k, value |-> v]
            d == Append(c, e)
<1>1. /\ \A i \in DOMAIN c : c[i] \in [key : K, value : V]
      /\ Len(c) \in Nat /\ DOMAIN c = 1..Len(c)
  BY CacheFacts
<1>2. /\ d \in Seq([key : K, value : V]) /\ DOMAIN d = 1..(Len(c) + 1)
      /\ \A i \in DOMAIN c : d[i] = c[i]
      /\ d[Len(c) + 1] = e
  BY <1>1 DEF Cache
<1>. HIDE DEF d
<1>3. Unique(d)
  BY <1>1, <1>2 DEF Unique, Holds
<1>4. ASSUME NEW j \in K, NEW w PROVE Has(d, j, w) <=> (j = k /\ w = v) \/ Has(c, j, w)
  <2>1. ASSUME Has(d, j, w) PROVE (j = k /\ w = v) \/ Has(c, j, w)
    BY <2>1, <1>1, <1>2 DEF Has
  <2>2. ASSUME Has(c, j, w) PROVE Has(d, j, w)
    BY <2>2, <1>1, <1>2 DEF Has
  <2>3. Has(d, k, v)
    BY <1>1, <1>2 DEF Has
  <2>. QED BY <2>1, <2>2, <2>3
<1>. QED BY <1>2, <1>3, <1>4 DEF Cache, d

LEMMA PutFacts ==
  ASSUME NEW K, NEW V, NEW c \in Cache(K, V), Unique(c), NEW k \in K, NEW v \in V, NEW max \in Nat \ {0}
  PROVE  LET d == Put(c, k, v, max)
         IN /\ d \in Cache(K, V) /\ Unique(d) /\ Has(d, k, v)
            /\ \A j \in K : \A w : Has(d, j, w) => (j = k /\ w = v) \/ (j # k /\ Has(c, j, w))
<1>. DEFINE more == Append(Without(c, k), [key |-> k, value |-> v])
            d == Put(c, k, v, max)
<1>1. /\ more \in Cache(K, V) /\ Unique(more)
      /\ \A j \in K : \A w : Has(more, j, w) <=> (j = k /\ w = v) \/ (j # k /\ Has(c, j, w))
  BY WithoutFacts, BehindFacts
<1>2. d = IF Len(more) > max THEN Tail(more) ELSE more
  BY DEF Put
<1>3. more[Len(more)] = [key |-> k, value |-> v] /\ Len(more) \in Nat \ {0}
  <2>1. Without(c, k) \in Seq([key : K, value : V])
    BY WithoutFacts DEF Cache
  <2>. QED BY <2>1
<1>. HIDE DEF more, d
<1>4. CASE Len(more) > max
  <2>1. /\ d \in Cache(K, V) /\ DOMAIN d = 1..(Len(more) - 1) /\ DOMAIN more = 1..Len(more)
        /\ \A i \in DOMAIN d : d[i] = more[i + 1]
    BY <1>1, <1>2, <1>3, <1>4 DEF Cache
  <2>2. Unique(d)
    BY <1>1, <1>3, <2>1 DEF Unique
  <2>3. Has(d, k, v)
    <3>1. Len(more) - 1 \in DOMAIN d /\ d[Len(more) - 1] = more[Len(more)]
      BY <1>3, <1>4, <2>1
    <3>. QED BY <1>3, <3>1 DEF Has
  <2>4. ASSUME NEW j \in K, NEW w, Has(d, j, w) PROVE Has(more, j, w)
    BY <1>3, <2>1, <2>4 DEF Has
  <2>. QED BY <1>1, <2>1, <2>2, <2>3, <2>4 DEF d
<1>5. CASE ~(Len(more) > max)
  BY <1>1, <1>2, <1>5 DEF d
<1>. QED BY <1>4, <1>5

(* A hit moves the entry behind the others.                                *)
LEMMA TouchFacts ==
  ASSUME NEW K, NEW V, NEW c \in Cache(K, V), Unique(c), NEW k \in K
  PROVE  LET d == Touch(c, k)
         IN /\ d \in Cache(K, V) /\ Unique(d)
            /\ \A j \in K : \A w : Has(d, j, w) <=> Has(c, j, w)
<1>1. CASE ~Holds(c, k)
  BY <1>1 DEF Touch
<1>2. CASE Holds(c, k)
  <2>1. Touch(c, k) = Append(Without(c, k), [key |-> k, value |-> Value(c, k)])
    BY <1>2 DEF Touch
  <2>2. Has(c, k, Value(c, k)) /\ Value(c, k) \in V /\ \A w : Has(c, k, w) => w = Value(c, k)
    BY <1>2, ValueFacts
  <2>3. /\ Touch(c, k) \in Cache(K, V) /\ Unique(Touch(c, k))
        /\ \A j \in K : \A w : Has(Touch(c, k), j, w) <=> (j = k /\ w = Value(c, k)) \/ (j # k /\ Has(c, j, w))
    BY <2>1, <2>2, WithoutFacts, BehindFacts
  <2>. QED BY <2>2, <2>3
<1>. QED BY <1>1, <1>2

(***************************************************************************)
(* Types                                                                   *)
(***************************************************************************)
USE ViewAssumption

Lists == SUBSET Copies
Details == [live : SUBSET Copies, dead : SUBSET Copies]

LEMMA TypesAreCaches ==
  TypeOK => /\ links \in Cache(Keys, Lists)
            /\ details \in Cache(Keys, Details)
            /\ records.lru \in Cache(Hashes, Actions)
BY DEF TypeOK, Cache, CachedList, CachedDetails, CachedRecord, Details, Lists

(* The caches of a commit have the same keys.                              *)
LEMMA EachFacts ==
  ASSUME TypeOK, Unique(links), Unique(details)
  PROVE  /\ Each(links, LinkList) \in Cache(Keys, Lists) /\ Unique(Each(links, LinkList))
         /\ \A i \in DOMAIN Each(links, LinkList) :
              i \in DOMAIN links /\ Each(links, LinkList)[i].value = LinkList(links[i].key, links[i].value)
         /\ Each(details, DetailList) \in Cache(Keys, Details)
         /\ Unique(Each(details, DetailList))
         /\ \A k \in Keys : \A v : Has(details, k, v) => Has(Each(details, DetailList), k, DetailList(k, v))
         /\ \A i \in DOMAIN Each(details, DetailList) :
              /\ i \in DOMAIN details
              /\ Each(details, DetailList)[i].value = DetailList(details[i].key, details[i].value)
<1>1. \A k : Created(k) \subseteq Copies
  BY DEF Created, OwnCopy, Copies, TypeOK
<1>2. \A k, v : v \in SUBSET Copies => LinkList(k, v) \in SUBSET Copies
  BY <1>1 DEF LinkList
<1>3. \A k, v : v \in Details =>
                DetailList(k, v) \in Details
  BY <1>1 DEF DetailList, Details
<1>4. /\ links \in Seq(CachedList) /\ Len(links) \in Nat /\ DOMAIN links = 1..Len(links)
      /\ \A i \in DOMAIN links : links[i] \in CachedList
  BY SeqFacts DEF TypeOK
<1>5. /\ details \in Seq(CachedDetails) /\ Len(details) \in Nat /\ DOMAIN details = 1..Len(details)
      /\ \A i \in DOMAIN details : details[i] \in CachedDetails
  BY SeqFacts DEF TypeOK
<1>. DEFINE ls == Each(links, LinkList)
            ds == Each(details, DetailList)
<1>6. ls = [i \in DOMAIN links |-> [links[i] EXCEPT !.value = LinkList(links[i].key, links[i].value)]]
  BY DEF Each
<1>7. ds = [i \in DOMAIN details |-> [details[i] EXCEPT !.value = DetailList(details[i].key, details[i].value)]]
  BY DEF Each
<1>. HIDE DEF ls, ds
<1>8. /\ DOMAIN ls = 1..Len(links)
      /\ \A i \in DOMAIN ls : /\ ls[i] \in CachedList /\ ls[i].key = links[i].key
                             /\ ls[i].value = LinkList(links[i].key, links[i].value)
  BY <1>2, <1>4, <1>6 DEF CachedList
<1>9. /\ DOMAIN ds = 1..Len(details)
      /\ \A i \in DOMAIN ds : /\ ds[i] \in CachedDetails /\ ds[i].key = details[i].key
                             /\ ds[i].value = DetailList(details[i].key, details[i].value)
  BY <1>3, <1>5, <1>7 DEF CachedDetails, Details
<1>10. ls \in Seq(CachedList) /\ ds \in Seq(CachedDetails)
  <2>1. ls \in [1..Len(links) -> CachedList] /\ ds \in [1..Len(details) -> CachedDetails]
    BY <1>6, <1>7, <1>8, <1>9
  <2>. QED BY <2>1, <1>4, <1>5, FunctionIsSeq
<1>11. Unique(ls) /\ Unique(ds)
  BY <1>4, <1>5, <1>8, <1>9 DEF Unique
<1>12. ASSUME NEW k \in Keys, NEW v, Has(details, k, v) PROVE Has(ds, k, DetailList(k, v))
  <2>1. PICK i \in DOMAIN details : details[i] = [key |-> k, value |-> v]
    BY <1>12 DEF Has
  <2>2. i \in DOMAIN ds /\ ds[i] = [key |-> k, value |-> DetailList(k, v)]
    BY <2>1, <1>5, <1>7
  <2>. QED BY <2>2 DEF Has
<1>. QED BY <1>4, <1>5, <1>8, <1>9, <1>10, <1>11, <1>12 DEF Cache, CachedList, CachedDetails, Details, Lists, ls, ds

(* What the linker answers, and what is cached of it, are copies of links. *)
LEMMA AnswerType ==
  ASSUME TypeOK, NEW k \in Keys, NEW answer \in Answers(k), answer # None
  PROVE  /\ answer \in Lists
         /\ \A c \in answer : c.link \in published.links
<1>1. PICK some \in SUBSET {l \in published.links : DnaOf[l] = call /\ Matches(l, k)} :
        answer = {[link |-> l, hash |-> IF format = "links" THEN "own" ELSE "surrogate"] : l \in some}
  BY DEF Answers
<1>. QED BY <1>1 DEF TypeOK, Copies, Lists

LEMMA FetchedType ==
  ASSUME TypeOK, CachesInv, NEW k \in Keys, NEW answer \in Answers(k)
  PROVE  /\ LocalCopies(k) \in SUBSET Copies /\ ListHeld(k) \in Lists
         /\ DetailsHeld(k) \in Details
         /\ Fetched(k, answer) \in SUBSET Copies
         /\ Merged(k, answer) \in Details
<1>1. LocalCopies(k) \in SUBSET Copies
  BY DEF LocalCopies, OwnCopy, Copies, TypeOK, Rows
<1>2. ListHeld(k) \in Lists
  <2>1. {} \in Lists
    BY DEF Lists
  <2>2. Holds(links, k) => Value(links, k) \in Lists
    BY TypesAreCaches, ValueFacts DEF CachesInv
  <2>. QED BY <2>1, <2>2 DEF ListHeld
<1>3. DetailsHeld(k) \in Details
  <2>1. [live |-> {}, dead |-> {}] \in Details
    BY DEF Details
  <2>2. Holds(details, k) => Value(details, k) \in Details
    BY TypesAreCaches, ValueFacts DEF CachesInv
  <2>. QED BY <2>1, <2>2 DEF DetailsHeld
<1>4. Fetched(k, answer) \in SUBSET Copies
  BY <1>1, <1>2, <1>3, AnswerType DEF Fetched, Details, Lists
<1>. QED BY <1>1, <1>2, <1>3, <1>4 DEF Merged, Details

(* Reading links: both caches stay caches.                                 *)
LEMMA LinkReads ==
  ASSUME TypeOK, CachesInv, NEW k \in Keys, NEW answer \in Answers(k), GetLinks(k, answer) \/ GetLinksDetails(k, answer)
  PROVE  /\ links' \in Cache(Keys, Lists) /\ Unique(links')
         /\ details' \in Cache(Keys, Details) /\ Unique(details')
         /\ back' \subseteq Links
<1>1. links' \in Cache(Keys, Lists) /\ Unique(links')
  <2>1. CASE answer # None
    <3>1. links' = Put(links, k, answer, MaxLinkKeys) /\ answer \in Lists
      BY <2>1, AnswerType DEF GetLinks, GetLinksDetails, FetchLinks
    <3>. QED BY <3>1, PutFacts, TypesAreCaches DEF CachesInv
  <2>2. CASE answer = None
    <3>1. links' = Touch(links, k)
      BY <2>2 DEF GetLinks, GetLinksDetails, FetchLinks
    <3>. QED BY <3>1, TouchFacts, TypesAreCaches DEF CachesInv
  <2>. QED BY <2>1, <2>2
<1>2. details' \in Cache(Keys, Details) /\ Unique(details')
  <2>1. CASE GetLinksDetails(k, answer)
    <3>1. /\ details' = Put(details, k, Merged(k, answer), MaxLinkKeys)
          /\ Merged(k, answer) \in Details
      BY <2>1, FetchedType DEF GetLinksDetails
    <3>. QED BY <3>1, PutFacts, TypesAreCaches DEF CachesInv
  <2>2. CASE GetLinks(k, answer)
    <3>1. details' = Touch(details, k) \/ details' = details
      BY <2>2 DEF GetLinks
    <3>. QED BY <3>1, TouchFacts, TypesAreCaches DEF CachesInv
  <2>. QED BY <2>1, <2>2
<1>3. back' \subseteq Links
  BY DEF GetLinks, GetLinksDetails, Returned, TypeOK, Rows
<1>. QED BY <1>1, <1>2, <1>3

(* The record cache under a new key: the aliases it leaves are of records  *)
(* that are held.                                                          *)
LEMMA RecordReads ==
  ASSUME TypeOK, CachesInv, NEW h \in Hashes, NEW a \in Actions, GetFromLinker(h, a)
  PROVE  /\ records' \in [lru : Cache(Hashes, Actions), alias : [Hashes -> Hashes \cup {None}]]
         /\ Unique(records'.lru) /\ RecordsInv'
<1>. DEFINE other == IF h = a THEN EntryOf[a] ELSE a
            lru == Put(records.lru, h, a, MaxRecords)
            alias == [j \in Hashes |-> IF records.alias[j] = None \/ Holds(lru, records.alias[j])
                                       THEN records.alias[j] ELSE None]
<1>1. records' = [lru |-> lru, alias |-> [alias EXCEPT ![other] = h]]
  BY DEF GetFromLinker, CacheRecord
<1>2. /\ records.lru \in Cache(Hashes, Actions) /\ Unique(records.lru)
      /\ h \in {a, EntryOf[a]} /\ other \in Hashes /\ other # h /\ other \in Names(a) /\ h \in Names(a)
  BY TypesAreCaches DEF GetFromLinker, CachesInv, Hashes, Names
<1>3. /\ lru \in Cache(Hashes, Actions) /\ Unique(lru) /\ Has(lru, h, a)
      /\ \A j \in Hashes : \A w : Has(lru, j, w) => (j = h /\ w = a) \/ (j # h /\ Has(records.lru, j, w))
  BY <1>2, PutFacts
<1>4. records.alias \in [Hashes -> Hashes \cup {None}] /\ None \notin Hashes
  BY DEF TypeOK, Hashes
<1>5. \A i \in DOMAIN records.lru : records.lru[i] \in [key : Hashes, value : Actions]
  BY <1>2, CacheFacts
<1>6. records.alias[h] = None /\ ~Holds(records.lru, h)
  <2>1. Cached(h) = None
    BY DEF GetFromLinker
  <2>2. ~Holds(records.lru, Canonical(h))
    <3>1. ASSUME Holds(records.lru, Canonical(h)) PROVE FALSE
      <4>1. Canonical(h) \in Hashes
        BY <1>4 DEF Canonical
      <4>2. Value(records.lru, Canonical(h)) \in Actions
        BY <1>2, <3>1, <4>1, ValueFacts
      <4>. QED BY <2>1, <3>1, <4>2 DEF Cached
    <3>. QED BY <3>1
  <2>3. ASSUME records.alias[h] # None PROVE FALSE
    BY <2>2, <2>3 DEF CachesInv, RecordsInv, Holds, Canonical
  <2>. QED BY <2>2, <2>3 DEF Canonical
<1>. HIDE DEF lru, alias, other
<1>7. \A i \in DOMAIN lru : lru[i] \in [key : Hashes, value : Actions]
  BY <1>3, CacheFacts
<1>8. alias \in [Hashes -> Hashes \cup {None}]
  BY <1>4 DEF alias
<1>9. ASSUME NEW i \in DOMAIN lru PROVE lru[i].key \in Names(lru[i].value)
  <2>1. Has(lru, lru[i].key, lru[i].value)
    BY <1>7 DEF Has
  <2>2. CASE lru[i].key = h /\ lru[i].value = a
    BY <2>2, <1>2
  <2>3. CASE Has(records.lru, lru[i].key, lru[i].value)
    BY <2>3 DEF Has, CachesInv, RecordsInv
  <2>. QED BY <1>3, <1>7, <2>1, <2>2, <2>3
<1>10. ASSUME NEW j \in Hashes, records'.alias[j] # None
       PROVE  \E i \in DOMAIN lru : lru[i].key = records'.alias[j] /\ j \in Names(lru[i].value)
  <2>1. CASE j = other
    <3>1. records'.alias[j] = h
      BY <1>1, <1>2, <1>8, <2>1
    <3>. QED BY <1>2, <1>3, <2>1, <3>1 DEF Has
  <2>2. CASE j # other
    <3>1. records'.alias[j] = alias[j]
      BY <1>1, <1>2, <1>8, <2>2
    <3>2. records'.alias[j] = records.alias[j] /\ Holds(lru, records.alias[j])
      BY <3>1, <1>10 DEF alias
    <3>3. PICK i \in DOMAIN lru : lru[i].key = records.alias[j]
      BY <3>2 DEF Holds
    <3>4. PICK n \in DOMAIN records.lru : records.lru[n].key = records.alias[j] /\ j \in Names(records.lru[n].value)
      BY <1>10, <3>2 DEF CachesInv, RecordsInv
    <3>5. lru[i].key # h
      BY <1>6, <3>3, <3>4 DEF Holds
    <3>6. Has(lru, lru[i].key, lru[i].value)
      BY <1>7 DEF Has
    <3>7. Has(records.lru, lru[i].key, lru[i].value)
      BY <1>3, <1>7, <3>5, <3>6
    <3>8. PICK q \in DOMAIN records.lru : records.lru[q] = [key |-> lru[i].key, value |-> lru[i].value]
      BY <3>7 DEF Has
    <3>9. q = n
      BY <3>3, <3>4, <3>8 DEF CachesInv, Unique
    <3>. QED BY <3>2, <3>3, <3>4, <3>8, <3>9
  <2>. QED BY <2>1, <2>2
<1>. QED BY <1>1, <1>2, <1>3, <1>8, <1>9, <1>10 DEF RecordsInv

(***************************************************************************)
(* The steps                                                               *)
(***************************************************************************)
LEMMA InitInv == Init => TypeOK /\ CallInv /\ CachesInv
<1>. SUFFICES ASSUME Init PROVE TypeOK /\ CallInv /\ CachesInv
  OBVIOUS
<1>1. TypeOK
  <2>1. posting \in BOOLEAN /\ NoRows \in Rows
    BY DEF Init, NoRows, Rows
  <2>2. NoRecords \in [lru : Seq(CachedRecord), alias : [Hashes -> Hashes \cup {None}]]
    BY DEF NoRecords
  <2>. QED BY <2>1, <2>2 DEF Init, TypeOK
<1>2. CallInv
  BY DEF Init, CallInv, NoRows
<1>3. CachesInv
  BY DEF Init, CachesInv, RecordsInv, Unique, NoRecords
<1>. QED BY <1>1, <1>2, <1>3

(* The bounds are used up one by one.                                      *)
LEMMA LeftType ==
  ASSUME TypeOK,
         \/ left'= [left EXCEPT !.calls = @ - 1] /\ left.calls > 0
         \/ left'= [left EXCEPT !.writes = @ - 1] /\ left.writes > 0
         \/ left'= [left EXCEPT !.restarts = @ - 1] /\ left.restarts > 0
  PROVE  left' \in [calls : 0..MaxCalls, writes : 0..MaxWrites, restarts : 0..MaxRestarts]
<1>1. MaxCalls \in Nat /\ MaxWrites \in Nat /\ MaxRestarts \in Nat
  OBVIOUS
<1>2. left \in [calls : 0..MaxCalls, writes : 0..MaxWrites, restarts : 0..MaxRestarts]
  BY DEF TypeOK
<1>. QED BY <1>1, <1>2

(* A write changes rows, after the commit also what is on disk.            *)
LEMMA WroteFacts ==
  ASSUME TypeOK, CallInv, NEW r \in Rows, Wrote(r), ops' \subseteq [type : {"create", "delete"}, link : Links],
         posting => r.direct = rows.direct
  PROVE  /\ TypeOK' /\ rows' = r /\ disk' = (IF posting THEN r ELSE disk) /\ disk'.direct = disk.direct
         /\ UNCHANGED <<format, posting, links, details, records, back>>
<1>1. /\ UNCHANGED <<format, zome, call, posting, links, details, records, published, back>>
      /\ rows' = r /\ disk' = IF posting THEN r ELSE disk
  BY DEF Wrote
<1>2. left' \in [calls : 0..MaxCalls, writes : 0..MaxWrites, restarts : 0..MaxRestarts]
  BY LeftType DEF Wrote
<1>3. disk'.direct = disk.direct
  BY <1>1 DEF CallInv
<1>. QED BY <1>1, <1>2, <1>3 DEF TypeOK

(* Writes are queued for the caches as they are made, by the called zome   *)
(* function at least.                                                      *)
LEMMA WriteSteps ==
  ASSUME TypeOK, CallInv,
         (\E l \in Links, how \in Callers : CreateLink(l, how) \/ DeleteLink(l, how)) \/ (\E a \in Actions : Create(a))
  PROVE  /\ TypeOK' /\ CallInv' /\ disk'.direct = disk.direct
         /\ UNCHANGED <<format, links, details, records, back>>
<1>. DEFINE Done == /\ TypeOK' /\ CallInv' /\ disk'.direct = disk.direct
                    /\ UNCHANGED <<format, links, details, records, back>>
<1>0. /\ rows \in [links : SUBSET Links, gone : SUBSET Links, direct : SUBSET Links, actions : SUBSET Actions]
      /\ ops \subseteq [type : {"create", "delete"}, link : Links] /\ posting \in BOOLEAN
  BY DEF TypeOK, Rows
<1>1. ASSUME NEW l \in Links, NEW how \in Callers, CreateLink(l, how) PROVE Done
  <2>. DEFINE r == [rows EXCEPT !.links = @ \cup {l}]
              op == [type |-> "create", link |-> l]
  <2>1. r \in Rows /\ r.links = rows.links \cup {l} /\ r.gone = rows.gone /\ r.direct = rows.direct
    BY <1>0 DEF Rows
  <2>2. Wrote(r) /\ l \notin rows.links /\ (posting => ops' = ops) /\ ops \subseteq ops' /\ ops' \subseteq ops \cup {op}
    BY <1>1 DEF CreateLink, Queued, Writes
  <2>3. ops' \subseteq [type : {"create", "delete"}, link : Links] /\ op.type = "create" /\ op.link = l
    BY <1>0, <2>2
  <2>. HIDE DEF r, op
  <2>4. /\ TypeOK' /\ rows' = r /\ disk' = (IF posting THEN r ELSE disk) /\ disk'.direct = disk.direct
        /\ UNCHANGED <<format, posting, links, details, records, back>>
    BY <2>1, <2>2, <2>3, WroteFacts
  <2>5. CallInv'
    <3>1. CASE posting
      BY <2>1, <2>2, <2>4, <3>1 DEF CallInv
    <3>2. CASE ~posting
      BY <2>1, <2>2, <2>3, <2>4, <3>2 DEF CallInv
    <3>. QED BY <3>1, <3>2
  <2>. QED BY <2>4, <2>5
<1>2. ASSUME NEW l \in Links, NEW how \in Callers, DeleteLink(l, how) PROVE Done
  <2>. DEFINE r == [rows EXCEPT !.gone = @ \cup {l}, !.direct = IF how = "zome" THEN @ \cup {l} ELSE @]
              op == [type |-> "delete", link |-> l]
  <2>1. /\ r \in Rows /\ r.links = rows.links /\ r.gone = rows.gone \cup {l}
        /\ r.direct = IF how = "zome" THEN rows.direct \cup {l} ELSE rows.direct
    BY <1>0 DEF Rows
  <2>2. /\ Wrote(r) /\ l \in rows.links /\ (posting => ops' = ops /\ how # "zome")
        /\ ops \subseteq ops' /\ ops' \subseteq ops \cup {op} /\ (how = "zome" => op \in ops')
    BY <1>2 DEF DeleteLink, Queued, Writes
  <2>3. ops' \subseteq [type : {"create", "delete"}, link : Links] /\ op.type # "create"
    BY <1>0, <2>2
  <2>. HIDE DEF r
  <2>4. /\ TypeOK' /\ rows' = r /\ disk' = (IF posting THEN r ELSE disk) /\ disk'.direct = disk.direct
        /\ UNCHANGED <<format, posting, links, details, records, back>>
    BY <2>1, <2>2, <2>3, WroteFacts
  <2>5. CallInv'
    <3>1. CASE posting
      BY <2>1, <2>2, <2>4, <3>1 DEF CallInv
    <3>2. CASE ~posting
      BY <2>1, <2>2, <2>3, <2>4, <3>2 DEF CallInv
    <3>. QED BY <3>1, <3>2
  <2>. QED BY <2>4, <2>5
<1>3. ASSUME NEW a \in Actions, Create(a) PROVE Done
  <2>. DEFINE r == [rows EXCEPT !.actions = @ \cup {a}]
  <2>1. r \in Rows /\ r.links = rows.links /\ r.gone = rows.gone /\ r.direct = rows.direct
    BY <1>0 DEF Rows
  <2>2. Wrote(r) /\ ops' = ops
    BY <1>3 DEF Create
  <2>. HIDE DEF r
  <2>4. /\ TypeOK' /\ rows' = r /\ disk' = (IF posting THEN r ELSE disk) /\ disk'.direct = disk.direct
        /\ UNCHANGED <<format, posting, links, details, records, back>>
    BY <1>0, <2>1, <2>2, WroteFacts
  <2>5. CallInv'
    <3>1. CASE posting
      BY <2>1, <2>2, <2>4, <3>1 DEF CallInv
    <3>2. CASE ~posting
      BY <2>1, <2>2, <2>4, <3>2 DEF CallInv
    <3>. QED BY <3>1, <3>2
  <2>. QED BY <2>4, <2>5
<1>. QED BY <1>1, <1>2, <1>3

LEMMA CachesSame ==
  ASSUME CachesInv, UNCHANGED <<links, details, records>>
  PROVE  CachesInv'
BY DEF CachesInv, RecordsInv, Unique

LEMMA StepInv == ASSUME TypeOK, CallInv, CachesInv, Next PROVE TypeOK' /\ CallInv' /\ CachesInv'
<1>1. CASE (\E d \in Dnas : Begin(d)) \/ Publish
  <2>1. UNCHANGED <<links, details, records, format, zome, disk, rows, posting, ops, back>>
    BY <1>1 DEF Begin, Publish
  <2>2. call' \in Dnas \cup {None} /\ left' \in [calls : 0..MaxCalls, writes : 0..MaxWrites, restarts : 0..MaxRestarts]
    BY <1>1, LeftType DEF Begin, Publish, TypeOK
  <2>3. published' \in [links : SUBSET Links, actions : SUBSET Actions]
    <3>1. published \in [links : SUBSET Links, actions : SUBSET Actions]
      BY DEF TypeOK
    <3>. QED BY <1>1, <3>1 DEF Begin, Publish
  <2>4. TypeOK'
    BY <2>1, <2>2, <2>3 DEF TypeOK
  <2>5. CallInv'
    BY <2>1 DEF CallInv
  <2>. QED BY <2>1, <2>4, <2>5, CachesSame
<1>2. CASE (\E l \in Links, how \in Callers : CreateLink(l, how) \/ DeleteLink(l, how)) \/ (\E a \in Actions : Create(a))
  BY <1>2, WriteSteps, CachesSame
<1>3. CASE Commit
  <2>1. CallInv'
    BY <1>3 DEF Commit, CallInv
  <2>2. CachesInv'
    BY <1>3, EachFacts DEF Commit, CachesInv, RecordsInv, Unique
  <2>3. links' \in Seq(CachedList) /\ details' \in Seq(CachedDetails)
    BY <1>3, EachFacts DEF Commit, Cache, CachedList, CachedDetails, Details, Lists, CachesInv
  <2>. QED BY <1>3, <2>1, <2>2, <2>3 DEF Commit, TypeOK
<1>4. CASE Rollback \/ EndPost
  <2>1. TypeOK' /\ CallInv'
    BY <1>4 DEF Rollback, EndPost, TypeOK, CallInv
  <2>. QED BY <1>4, <2>1, CachesSame DEF Rollback, EndPost
<1>5. ASSUME NEW k \in Keys, NEW answer \in Answers(k), GetLinks(k, answer) \/ GetLinksDetails(k, answer)
      PROVE  TypeOK' /\ CallInv' /\ CachesInv'
  <2>1. UNCHANGED <<format, zome, disk, rows, call, posting, ops, published, left, records>>
    BY <1>5 DEF GetLinks, GetLinksDetails, Reading
  <2>2. CallInv'
    BY <2>1 DEF CallInv
  <2>3. CachesInv'
    BY <1>5, <2>1, LinkReads DEF CachesInv, RecordsInv
  <2>4. links' \in Seq(CachedList) /\ details' \in Seq(CachedDetails) /\ back' \subseteq Links
    BY <1>5, LinkReads DEF Cache, CachedList, CachedDetails, Details, Lists
  <2>. QED BY <2>1, <2>2, <2>3, <2>4 DEF TypeOK
<1>6. ASSUME NEW h \in Hashes, GetCached(h) PROVE TypeOK' /\ CallInv' /\ CachesInv'
  <2>1. /\ UNCHANGED <<format, zome, disk, rows, call, posting, ops, published, left, links, details, back>>
        /\ records' = [records EXCEPT !.lru = Touch(@, Canonical(h))]
    BY <1>6 DEF GetCached, Reading
  <2>2. Canonical(h) \in Hashes
    BY DEF Canonical, TypeOK
  <2>3. /\ records.lru \in Cache(Hashes, Actions)
        /\ records'.lru = Touch(records.lru, Canonical(h)) /\ records'.alias = records.alias
    BY <2>1, TypesAreCaches DEF TypeOK
  <2>4. /\ records'.lru \in Cache(Hashes, Actions) /\ Unique(records'.lru)
        /\ \A j \in Hashes : \A w : Has(records'.lru, j, w) <=> Has(records.lru, j, w)
    BY <2>2, <2>3, TouchFacts DEF CachesInv
  <2>5. TypeOK'
    <3>1. records' \in [lru : Seq(CachedRecord), alias : [Hashes -> Hashes \cup {None}]]
      BY <2>1, <2>4, <2>3 DEF TypeOK, Cache, CachedRecord
    <3>. QED BY <2>1, <3>1 DEF TypeOK
  <2>6. /\ \A i \in DOMAIN records'.lru : records'.lru[i] \in [key : Hashes, value : Actions]
        /\ \A i \in DOMAIN records.lru : records.lru[i] \in [key : Hashes, value : Actions]
    <3>. DEFINE new == records'.lru
                old == records.lru
    <3>1. new \in Cache(Hashes, Actions) /\ old \in Cache(Hashes, Actions)
      BY <2>3, <2>4
    <3>. HIDE DEF new, old
    <3>2. /\ \A i \in DOMAIN new : new[i] \in [key : Hashes, value : Actions]
          /\ \A i \in DOMAIN old : old[i] \in [key : Hashes, value : Actions]
      BY <3>1, CacheFacts
    <3>. QED BY <3>2 DEF new, old
  <2>7. RecordsInv'
    <3>1. ASSUME NEW i \in DOMAIN records'.lru PROVE records'.lru[i].key \in Names(records'.lru[i].value)
      <4>1. Has(records'.lru, records'.lru[i].key, records'.lru[i].value)
        BY <2>6 DEF Has
      <4>2. Has(records.lru, records'.lru[i].key, records'.lru[i].value)
        BY <2>4, <2>6, <4>1
      <4>. QED BY <4>2 DEF Has, CachesInv, RecordsInv
    <3>2. ASSUME NEW j \in Hashes, records'.alias[j] # None
          PROVE  \E i \in DOMAIN records'.lru :
                   records'.lru[i].key = records'.alias[j] /\ j \in Names(records'.lru[i].value)
      <4>1. PICK i \in DOMAIN records.lru :
              records.lru[i].key = records.alias[j] /\ j \in Names(records.lru[i].value)
        BY <2>3, <3>2 DEF CachesInv, RecordsInv
      <4>2. Has(records.lru, records.lru[i].key, records.lru[i].value)
        BY <2>6 DEF Has
      <4>3. Has(records'.lru, records.lru[i].key, records.lru[i].value)
        BY <2>4, <2>6, <4>2
      <4>. QED BY <2>3, <4>1, <4>3 DEF Has
    <3>. QED BY <3>1, <3>2 DEF RecordsInv
  <2>8. CallInv'
    BY <2>1 DEF CallInv
  <2>9. CachesInv'
    BY <2>1, <2>4, <2>7 DEF CachesInv, Unique
  <2>. QED BY <2>5, <2>8, <2>9
<1>7. ASSUME NEW h \in Hashes, NEW a \in Actions, GetFromLinker(h, a) PROVE TypeOK' /\ CallInv' /\ CachesInv'
  <2>1. UNCHANGED <<format, zome, disk, rows, call, posting, ops, published, left, links, details, back>>
    BY <1>7 DEF GetFromLinker, Reading
  <2>2. /\ records' \in [lru : Cache(Hashes, Actions), alias : [Hashes -> Hashes \cup {None}]]
        /\ Unique(records'.lru) /\ RecordsInv'
    BY <1>7, RecordReads
  <2>3. TypeOK'
    BY <2>1, <2>2 DEF TypeOK, Cache, CachedRecord
  <2>4. CallInv'
    BY <2>1 DEF CallInv
  <2>5. CachesInv'
    BY <2>1, <2>2 DEF CachesInv, Unique
  <2>. QED BY <2>3, <2>4, <2>5
<1>8. CASE Restart
  <2>1. TypeOK'
    <3>1. left' \in [calls : 0..MaxCalls, writes : 0..MaxWrites, restarts : 0..MaxRestarts]
      BY <1>8, LeftType DEF Restart
    <3>2. NoRecords \in [lru : Seq(CachedRecord), alias : [Hashes -> Hashes \cup {None}]]
      BY DEF NoRecords
    <3>3. posting' \in BOOLEAN
      BY <1>8 DEF Restart
    <3>. QED BY <1>8, <3>1, <3>2, <3>3 DEF Restart, TypeOK
  <2>2. CallInv'
    BY <1>8 DEF Restart, CallInv
  <2>3. CachesInv'
    BY <1>8 DEF Restart, CachesInv, RecordsInv, Unique, NoRecords
  <2>. QED BY <2>1, <2>2, <2>3
<1>. QED BY <1>1, <1>2, <1>3, <1>4, <1>5, <1>6, <1>7, <1>8 DEF Next

(* The types, the queued operations and the caches: what is held is held   *)
(* once, and under its own names (LRULinkCache, LRURecordCache).           *)
THEOREM Invariance == Spec => [](TypeOK /\ CallInv /\ CachesInv)
<1>1. TypeOK /\ CallInv /\ CachesInv /\ UNCHANGED vars => TypeOK' /\ CallInv' /\ CachesInv'
  BY DEF TypeOK, CallInv, CachesInv, RecordsInv, Unique, vars
<1>2. TypeOK /\ CallInv /\ CachesInv /\ [Next]_vars => TypeOK' /\ CallInv' /\ CachesInv'
  BY <1>1, StepInv
<1>. QED BY InitInv, <1>2, PTL DEF Spec

(* What the record cache holds is found, and nothing else is found under a *)
(* hash (getRecordSync, cacheRecordSync, evictKey).                        *)
THEOREM WhatIsCachedIsFound == Spec => []RecordsFound
<1>1. ASSUME TypeOK, CachesInv PROVE RecordsFound
  <2>1. /\ records.lru \in Cache(Hashes, Actions) /\ Unique(records.lru)
        /\ \A i \in DOMAIN records.lru : records.lru[i] \in [key : Hashes, value : Actions]
    BY <1>1, TypesAreCaches, CacheFacts DEF CachesInv
  <2>2. None \notin Actions /\ \A h \in Hashes : Canonical(h) \in Hashes
    BY <1>1 DEF TypeOK, Canonical
  <2>3. ASSUME NEW h \in Hashes, Cached(h) # None PROVE h \in {Cached(h), EntryOf[Cached(h)]}
    <3>1. Holds(records.lru, Canonical(h)) /\ Cached(h) = Value(records.lru, Canonical(h))
      BY <2>3 DEF Cached
    <3>2. PICK i \in DOMAIN records.lru : records.lru[i] = [key |-> Canonical(h), value |-> Cached(h)]
      BY <2>1, <2>2, <3>1, ValueFacts DEF Has
    <3>3. h \in Names(Cached(h))
      <4>1. CASE records.alias[h] = None
        BY <1>1, <3>2, <4>1 DEF CachesInv, RecordsInv, Canonical
      <4>2. CASE records.alias[h] # None
        <5>1. PICK n \in DOMAIN records.lru :
                records.lru[n].key = records.alias[h] /\ h \in Names(records.lru[n].value)
          BY <1>1, <4>2 DEF CachesInv, RecordsInv
        <5>2. n = i
          BY <2>1, <3>2, <4>2, <5>1 DEF Unique, Canonical
        <5>. QED BY <3>2, <5>1, <5>2
      <4>. QED BY <4>1, <4>2
    <3>. QED BY <3>3 DEF Names
  <2>4. ASSUME NEW i \in DOMAIN records.lru PROVE Cached(records.lru[i].key) # None
    <3>1. records.lru[i].key \in Hashes
      BY <2>1
    <3>2. Holds(records.lru, Canonical(records.lru[i].key))
      BY <1>1, <3>1 DEF CachesInv, RecordsInv, Canonical, Holds
    <3>3. Value(records.lru, Canonical(records.lru[i].key)) \in Actions
      BY <2>1, <2>2, <3>1, <3>2, ValueFacts
    <3>. QED BY <2>2, <3>2, <3>3 DEF Cached
  <2>. QED BY <2>3, <2>4 DEF RecordsFound
<1>. QED BY <1>1, Invariance, PTL

(***************************************************************************)
(* Deleted links                                                           *)
(***************************************************************************)
(* l is on no list that is held.                                           *)
Hidden(l) ==
  /\ \A k \in Keys : \A v : Has(links, k, v) => OwnCopy(l) \notin v
  /\ \A k \in Keys : \A v : Has(details, k, v) => OwnCopy(l) \notin v.live

LEMMA HiddenFacts ==
  TypeOK => (DeletedStaysHidden <=> (format = "links" => \A l \in disk.direct \ back : Hidden(l)))
<1>. SUFFICES ASSUME TypeOK
              PROVE  DeletedStaysHidden <=> (format = "links" => \A l \in disk.direct \ back : Hidden(l))
  OBVIOUS
<1>1. /\ \A i \in DOMAIN links : links[i] \in [key : Keys, value : Lists]
      /\ \A i \in DOMAIN details : details[i] \in [key : Keys, value : Details]
  BY TypesAreCaches, CacheFacts
<1>2. \A l : Hidden(l) <=> /\ \A i \in DOMAIN links : OwnCopy(l) \notin links[i].value
                         /\ \A i \in DOMAIN details : OwnCopy(l) \notin details[i].value.live
  <2>1. /\ \A i \in DOMAIN links : links[i].key \in Keys /\ Has(links, links[i].key, links[i].value)
        /\ \A i \in DOMAIN details : details[i].key \in Keys /\ Has(details, details[i].key, details[i].value)
    BY <1>1 DEF Has
  <2>. QED BY <2>1 DEF Hidden, Has
<1>. QED BY <1>2 DEF DeletedStaysHidden, HeldOf

(* No read brings back a link that a committed call has deleted itself,    *)
(* unless the linker has sent it.                                          *)
LEMMA ReadsHide ==
  ASSUME TypeOK, CallInv, CachesInv, format = "links",
         NEW k \in Keys, NEW answer \in Answers(k), GetLinks(k, answer) \/ GetLinksDetails(k, answer),
         NEW l \in disk.direct \ back', Hidden(l)
  PROVE  Hidden(l)'
<1>1. answer # None => OwnCopy(l) \notin answer
  BY DEF GetLinks, GetLinksDetails, Returned, OwnCopy, CallInv
<1>2. OwnCopy(l) \notin LocalCopies(k)
  <2>1. l \in rows.gone
    BY DEF CallInv
  <2>. QED BY <2>1 DEF LocalCopies, OwnCopy
<1>3. OwnCopy(l) \notin ListHeld(k) /\ OwnCopy(l) \notin DetailsHeld(k).live
  <2>1. OwnCopy(l) \notin ListHeld(k)
    BY TypesAreCaches, ValueFacts DEF CachesInv, ListHeld, Hidden
  <2>2. Holds(details, k) => Has(details, k, Value(details, k))
    BY TypesAreCaches, ValueFacts DEF CachesInv
  <2>. QED BY <2>1, <2>2 DEF DetailsHeld, Hidden
<1>4. OwnCopy(l) \notin Fetched(k, answer) /\ OwnCopy(l) \notin Merged(k, answer).live
  BY <1>1, <1>2, <1>3 DEF Fetched, Merged
<1>5. ASSUME NEW j \in Keys, NEW v, Has(links', j, v) PROVE OwnCopy(l) \notin v
  <2>1. CASE answer # None
    <3>1. links' = Put(links, k, answer, MaxLinkKeys) /\ answer \in Lists
      BY <2>1, AnswerType DEF GetLinks, GetLinksDetails, FetchLinks
    <3>2. links \in Cache(Keys, Lists) /\ Unique(links) /\ MaxLinkKeys \in Nat \ {0}
      BY TypesAreCaches DEF CachesInv
    <3>3. Has(Put(links, k, answer, MaxLinkKeys), j, v)
      BY <1>5, <3>1
    <3>4. (j = k /\ v = answer) \/ Has(links, j, v)
      BY <3>1, <3>2, <3>3, PutFacts
    <3>. QED BY <1>1, <2>1, <3>4 DEF Hidden
  <2>2. CASE answer = None
    <3>1. links' = Touch(links, k)
      BY <2>2 DEF GetLinks, GetLinksDetails, FetchLinks
    <3>2. Has(links, j, v)
      BY <1>5, <3>1, TouchFacts, TypesAreCaches DEF CachesInv
    <3>. QED BY <3>2 DEF Hidden
  <2>. QED BY <2>1, <2>2
<1>6. ASSUME NEW j \in Keys, NEW v, Has(details', j, v) PROVE OwnCopy(l) \notin v.live
  <2>1. CASE GetLinksDetails(k, answer)
    <3>1. details' = Put(details, k, Merged(k, answer), MaxLinkKeys) /\ Merged(k, answer) \in Details
      BY <2>1, FetchedType DEF GetLinksDetails
    <3>2. (j = k /\ v = Merged(k, answer)) \/ Has(details, j, v)
      BY <1>6, <3>1, PutFacts, TypesAreCaches DEF CachesInv
    <3>. QED BY <1>4, <3>2 DEF Hidden
  <2>2. CASE GetLinks(k, answer)
    <3>1. details' = Touch(details, k) \/ details' = details
      BY <2>2 DEF GetLinks
    <3>2. Has(details, j, v)
      BY <1>6, <3>1, TouchFacts, TypesAreCaches DEF CachesInv
    <3>. QED BY <3>2 DEF Hidden
  <2>. QED BY <2>1, <2>2
<1>7. OwnCopy(l)' = OwnCopy(l)
  BY DEF OwnCopy
<1>. QED BY <1>5, <1>6, <1>7 DEF Hidden, Has

(* A commit takes what the call itself deleted off every list, and puts    *)
(* none back whose deletion was committed before.                          *)
LEMMA CommitHides ==
  ASSUME TypeOK, CallInv, CachesInv, Commit,
         NEW l \in disk'.direct, l \in disk.direct => Hidden(l)
  PROVE  Hidden(l)'
<1>1. l \in rows.direct /\ links' = Each(links, LinkList) /\ details' = Each(details, DetailList)
  BY DEF Commit
<1>2. ASSUME l \notin disk.direct PROVE OwnCopy(l) \in Deleted
  <2>1. [type |-> "delete", link |-> l] \in ops
    BY <1>1, <1>2 DEF CallInv
  <2>2. [type |-> "delete", link |-> l].link = l
    OBVIOUS
  <2>. QED BY <2>1, <2>2 DEF Deleted
<1>3. ASSUME l \in disk.direct, NEW k PROVE OwnCopy(l) \notin Created(k)
  BY <1>3 DEF CallInv, Created, OwnCopy
<1>4. /\ \A i \in DOMAIN links : links[i] \in [key : Keys, value : Lists]
      /\ \A i \in DOMAIN details : details[i] \in [key : Keys, value : Details]
  BY TypesAreCaches, CacheFacts
<1>5. ASSUME NEW i \in DOMAIN links' PROVE OwnCopy(l) \notin links'[i].value
  <2>1. i \in DOMAIN links /\ links'[i].value = LinkList(links[i].key, links[i].value)
    BY <1>1, EachFacts DEF CachesInv
  <2>2. l \in disk.direct => OwnCopy(l) \notin links[i].value
    BY <1>4, <2>1 DEF Hidden, Has
  <2>. QED BY <1>2, <1>3, <2>1, <2>2 DEF LinkList
<1>6. ASSUME NEW i \in DOMAIN details' PROVE OwnCopy(l) \notin details'[i].value.live
  <2>1. i \in DOMAIN details /\ details'[i].value = DetailList(details[i].key, details[i].value)
    BY <1>1, EachFacts DEF CachesInv
  <2>2. l \in disk.direct => OwnCopy(l) \notin details[i].value.live
    BY <1>4, <2>1 DEF Hidden, Has
  <2>. QED BY <1>2, <1>3, <2>1, <2>2 DEF DetailList
<1>7. OwnCopy(l)' = OwnCopy(l)
  BY DEF OwnCopy
<1>. QED BY <1>5, <1>6, <1>7 DEF Hidden, Has

(* A link that a called zome function deleted does not come back from the  *)
(* caches (removeLinkFromCache, addDeleteToLinkDetailsCache, fetchLinks).  *)
THEOREM DeletionsStand == Spec => []DeletedStaysHidden
<1>1. Init => DeletedStaysHidden
  BY DEF Init, DeletedStaysHidden, HeldOf, NoRows
<1>2. ASSUME TypeOK, CallInv, CachesInv, DeletedStaysHidden, Next PROVE DeletedStaysHidden'
  <2>0. format' = format /\ TypeOK'
    BY <1>2, StepInv DEF Next, Begin, CreateLink, DeleteLink, Create, Wrote, Commit, EndPost, Rollback, GetLinks,
       GetLinksDetails, GetCached, GetFromLinker, Reading, Publish, Restart
  <2>. SUFFICES ASSUME format = "links", NEW l \in disk'.direct \ back' PROVE Hidden(l)'
    <3>1. (TypeOK => (DeletedStaysHidden <=> (format = "links" => \A l \in disk.direct \ back : Hidden(l))))'
      BY HiddenFacts, PTL
    <3>. QED BY <2>0, <3>1
  <2>1. l \in disk.direct \ back => Hidden(l)
    BY <1>2, HiddenFacts
  <2>2. CASE UNCHANGED <<links, details, disk.direct, back>>
    BY <2>1, <2>2 DEF Hidden, Has, OwnCopy
  <2>3. CASE Commit
    BY <1>2, <2>1, <2>3, CommitHides DEF Commit
  <2>4. ASSUME NEW k \in Keys, NEW answer \in Answers(k), GetLinks(k, answer) \/ GetLinksDetails(k, answer)
        PROVE  Hidden(l)'
    <3>1. disk' = disk /\ back \subseteq back'
      BY <2>4 DEF GetLinks, GetLinksDetails, Reading, Returned
    <3>. QED BY <1>2, <2>1, <2>4, <3>1, ReadsHide
  <2>5. CASE Restart
    BY <2>5 DEF Restart, Hidden, Has
  <2>6. CASE (\E d \in Dnas : Begin(d)) \/ EndPost \/ Rollback \/ Publish
    BY <2>2, <2>6 DEF Begin, EndPost, Rollback, Publish
  <2>7. CASE (\E m \in Links, how \in Callers : CreateLink(m, how) \/ DeleteLink(m, how)) \/ (\E a \in Actions : Create(a))
    BY <1>2, <2>2, <2>7, WriteSteps
  <2>8. ASSUME NEW h \in Hashes, GetCached(h) \/ \E a \in Actions : GetFromLinker(h, a) PROVE Hidden(l)'
    BY <2>2, <2>8 DEF GetCached, GetFromLinker, Reading
  <2>. QED BY <1>2, <2>3, <2>4, <2>5, <2>6, <2>7, <2>8 DEF Next
<1>3. DeletedStaysHidden /\ UNCHANGED vars => DeletedStaysHidden'
  BY DEF DeletedStaysHidden, HeldOf, OwnCopy, vars
<1>4. TypeOK /\ CallInv /\ CachesInv /\ DeletedStaysHidden /\ [Next]_vars => DeletedStaysHidden'
  BY <1>2, <1>3
<1>. QED BY <1>1, <1>4, Invariance, PTL DEF Spec

(***************************************************************************)
(* Link details                                                            *)
(***************************************************************************)
Grown(k) ==
  Holds(details, k) /\ Holds(details', k) =>
    LET old == Value(details, k)
        new == Value(details', k)
    IN old.dead \subseteq new.dead /\ old.live \subseteq new.live \cup new.dead

(* Creates and deletes once known of a base are not forgotten while its    *)
(* details are held (mergeLinkDetailIntoCache, processGetLinksDetailsInput).*)
THEOREM DetailsOnlyGrow == Spec => LinkDetailsGrow
<1>1. ASSUME TypeOK, CallInv, CachesInv, Next, NEW k \in Keys PROVE Grown(k)
  <2>. SUFFICES ASSUME Holds(details, k), Holds(details', k)
                PROVE  LET old == Value(details, k)
                           new == Value(details', k)
                       IN old.dead \subseteq new.dead /\ old.live \subseteq new.live \cup new.dead
    BY DEF Grown
  <2>. DEFINE old == Value(details, k)
              new == Value(details', k)
  <2>1. details \in Cache(Keys, Details) /\ Unique(details)
    BY <1>1, TypesAreCaches DEF CachesInv
  <2>2. details' \in Cache(Keys, Details) /\ Unique(details')
    <3>1. TypeOK' /\ CachesInv'
      BY <1>1, StepInv
    <3>. QED BY <3>1 DEF TypeOK, CachesInv, Cache, CachedDetails, Details, Unique
  <2>3. Has(details, k, old) /\ Has(details', k, new) /\ \A v : Has(details', k, v) => v = new
    BY <2>1, <2>2, ValueFacts
  <2>4. \A v : Has(details, k, v) => v = old
    BY <2>1, ValueFacts
  <2>5. (\A v : Has(details', k, v) => Has(details, k, v)) => new = old
    BY <2>3, <2>4
  <2>. HIDE DEF old, new
  <2>6. CASE details' = details
    BY <2>5, <2>6 DEF old, new
  <2>7. CASE Commit
    <3>1. new = DetailList(k, old)
      BY <1>1, <2>3, <2>7, EachFacts DEF Commit, CachesInv
    <3>. QED BY <3>1 DEF DetailList, old, new
  <2>8. CASE Restart
    BY <2>8 DEF Restart, Holds
  <2>9. ASSUME NEW j \in Keys, NEW answer \in Answers(j), GetLinks(j, answer)
        PROVE  old.dead \subseteq new.dead /\ old.live \subseteq new.live \cup new.dead
    <3>1. details' = Touch(details, j) \/ details' = details
      BY <2>9 DEF GetLinks
    <3>. QED BY <2>1, <2>5, <3>1, TouchFacts
  <2>10. ASSUME NEW j \in Keys, NEW answer \in Answers(j), GetLinksDetails(j, answer)
         PROVE  old.dead \subseteq new.dead /\ old.live \subseteq new.live \cup new.dead
    <3>1. details' = Put(details, j, Merged(j, answer), MaxLinkKeys) /\ Merged(j, answer) \in Details
      BY <1>1, <2>10, FetchedType DEF GetLinksDetails
    <3>2. (k = j /\ new = Merged(j, answer)) \/ (k # j /\ Has(details, k, new))
      BY <2>1, <2>3, <3>1, PutFacts
    <3>3. k = j => DetailsHeld(j) = old
      BY DEF DetailsHeld, old
    <3>4. k = j => Merged(j, answer).dead = old.dead /\ old.live \subseteq Merged(j, answer).live
      BY <3>3 DEF Merged
    <3>. QED BY <2>4, <3>2, <3>4
  <2>11. CASE (\E d \in Dnas : Begin(d)) \/ EndPost \/ Rollback \/ Publish
    BY <2>6, <2>11 DEF Begin, EndPost, Rollback, Publish
  <2>12. CASE (\E l \in Links, how \in Callers : CreateLink(l, how) \/ DeleteLink(l, how)) \/ (\E a \in Actions : Create(a))
    BY <1>1, <2>6, <2>12, WriteSteps
  <2>13. ASSUME NEW h \in Hashes, GetCached(h) \/ \E a \in Actions : GetFromLinker(h, a)
         PROVE  old.dead \subseteq new.dead /\ old.live \subseteq new.live \cup new.dead
    BY <2>6, <2>13 DEF GetCached, GetFromLinker, old, new
  <2>14. old.dead \subseteq new.dead /\ old.live \subseteq new.live \cup new.dead
    BY <1>1, <2>6, <2>7, <2>8, <2>9, <2>10, <2>11, <2>12, <2>13 DEF Next, old, new
  <2>. QED BY <2>14 DEF old, new
<1>2. ASSUME TypeOK, CallInv, CachesInv, [Next]_vars
      PROVE  [\A k \in Keys : Holds(details, k) /\ Holds(details', k) =>
                LET old == Value(details, k)
                    new == Value(details', k)
                IN old.dead \subseteq new.dead /\ old.live \subseteq new.live \cup new.dead]_vars
  <2>1. CASE Next
    BY <1>1, <1>2, <2>1 DEF Grown
  <2>2. CASE UNCHANGED vars
    BY <2>2
  <2>. QED BY <1>2, <2>1, <2>2
<1>. QED BY <1>2, Invariance, PTL DEF Spec, LinkDetailsGrow
=============================================================================
