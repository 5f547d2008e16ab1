-------------------------- MODULE HappContextsProofs --------------------------
(***************************************************************************)
(* For any handlers, domains and scenarios of HappContexts: a seal on disk *)
(* never opens, the caches come to agree with the disk; and of requests in *)
(* turn: recovery loses no answered write, genesis comes first, keys of    *)
(* one's own stay.  And of a page's way to its hApp, for any pages,        *)
(* origins and challenges of Session: a denial stands, a call that waits   *)
(* for the user has the request that will answer it; what the client       *)
(* answers in joining, and who may install.  A step of Session is one of a *)
(* single part.                                                            *)
(***************************************************************************)
EXTENDS HappContexts, Session, TLAPS

(***************************************************************************)
(* Types and caches                                                        *)
(***************************************************************************)

(* At the start nothing is installed and no handler runs.                  *)
LEMMA InitCache == Init => TypeOK /\ CacheInv
<1>. SUFFICES ASSUME Init PROVE TypeOK /\ CacheInv
  OBVIOUS
<1>1. NoChain \in [founded : {"no", "none", "proof"}, recovered : {"no", "unreported", "reported"},
                    since : SUBSET {"answered", "unanswered"}]
  BY DEF NoChain
<1>2. Idle \in Handlers
  BY DEF Idle, Handlers
<1>3. TypeOK
  BY <1>1, <1>2, ScenarioAssumption, BoundsAssumption DEF Init, TypeOK
<1>4. CacheInv
  BY NilAssumption DEF Init, CacheInv, HandlerInv, RowInv, Durable, At, Uses, Idle
<1>. QED BY <1>3, <1>4

(* What a handler that uses a context knows of it.                         *)
LEMMA UsesFacts ==
  ASSUME TypeOK, CacheInv, NEW p \in Procs, Uses(proc[p])
  PROVE  /\ Id(p) \in Ids /\ obj[Id(p)] \in Contexts
         /\ Key(p) \in Ids /\ obj[Id(p)].domain \in Domains /\ obj[Id(p)].tag \in Tags
BY DEF TypeOK, CacheInv, HandlerInv, Id, Key, Contexts

(* The context of an id in the cache.                                      *)
LEMMA CachedFacts ==
  ASSUME TypeOK, NEW i \in cached
  PROVE  i \in Ids /\ obj[i] # Nil /\ obj[i] \in Contexts /\ obj[i].domain \in Domains
BY DEF TypeOK, Contexts

(* putContext: the row is what the object says, or there is another row of *)
(* the domain and the context has none; no other context is touched.       *)
LEMMA PutFacts ==
  ASSUME TypeOK, \A k \in Ids : RowInv(k), NEW i \in Ids, NEW c \in Contexts,
         disk[i] # Nil => disk[i].domain = c.domain, Put(i, c)
  PROVE  /\ disk' \in [Ids -> Contexts \cup {Nil}] /\ obj' \in [Ids -> Contexts \cup {Nil}]
         /\ cached' \subseteq {k \in Ids : obj'[k] # Nil} /\ dom' \in [Domains -> Ids \cup {Nil}]
         /\ \A k \in Ids : RowInv(k)'
         /\ cached' \ Durable' \subseteq cached \ Durable
         /\ \A k \in Ids \ {i} : disk'[k] = disk[k] /\ obj'[k] = obj[k]
         /\ obj'[i] = c /\ disk'[i] \in {disk[i], c}
         /\ disk[i] # Nil => disk'[i] = c
<1>1. c # Nil /\ c.domain \in Domains
  BY NilAssumption DEF Contexts
<1>2. obj' = [obj EXCEPT ![i] = c] /\ obj' \in [Ids -> Contexts \cup {Nil}] /\ obj'[i] = c
      /\ \A k \in Ids \ {i} : obj'[k] = obj[k]
  BY DEF Put, TypeOK
<1>3. CASE Refused(i, c.domain)
  <2>1. disk' = disk /\ cached' = cached /\ dom' = dom
    BY <1>3 DEF Put
  <2>2. disk[i] = Nil
    BY <1>3 DEF Refused, RowInv, Durable
  <2>3. \A k \in Ids : RowInv(k)'
    BY <1>2, <2>1, <2>2 DEF RowInv
  <2>. QED BY <1>1, <1>2, <2>1, <2>2, <2>3 DEF TypeOK, Durable
<1>4. CASE ~Refused(i, c.domain)
  <2>1. disk' = [disk EXCEPT ![i] = c] /\ cached' = cached \cup {i} /\ dom' = [dom EXCEPT ![c.domain] = i]
    BY <1>4 DEF Put
  <2>2. disk' \in [Ids -> Contexts \cup {Nil}] /\ disk'[i] = c /\ \A k \in Ids \ {i} : disk'[k] = disk[k]
    BY <2>1 DEF TypeOK
  <2>3. cached' \subseteq {k \in Ids : obj'[k] # Nil} /\ dom' \in [Domains -> Ids \cup {Nil}]
    BY <1>1, <1>2, <2>1 DEF TypeOK
  <2>4. ASSUME NEW k \in Ids PROVE RowInv(k)'
    <3>1. CASE k = i
      BY <1>1, <1>2, <2>1, <2>2, <3>1 DEF RowInv, TypeOK
    <3>2. CASE k # i /\ disk[k] # Nil
      <4>1. disk[k].domain # c.domain /\ disk[k].domain \in Domains
        BY <1>4, <3>2 DEF Refused, Durable, TypeOK, Contexts
      <4>. QED BY <1>2, <2>1, <2>2, <3>2, <4>1 DEF RowInv, TypeOK
    <3>3. CASE k # i /\ disk[k] = Nil
      BY <2>2, <3>3 DEF RowInv
    <3>. QED BY <3>1, <3>2, <3>3
  <2>5. cached' \ Durable' \subseteq cached \ Durable
    BY <1>1, <2>1, <2>2 DEF Durable
  <2>. QED BY <1>2, <2>2, <2>3, <2>4, <2>5
<1>. QED BY <1>3, <1>4

(* The handlers that do not step: they have contexts of their own, or ones *)
(* that keep an object.                                                    *)
LEMMA OthersKept ==
  ASSUME TypeOK, CacheInv, NEW p \in Procs, NEW r, proc' = [proc EXCEPT ![p] = r], NEW i \in Ids,
         \A k \in Ids \ {i} : obj'[k] = obj[k] /\ (disk[k] = Nil => disk'[k] = Nil),
         obj'[i] # Nil, obj[i] # Nil \/ (At(p, "store") /\ Id(p) = i),
         \A k \in Ids \ {i} : agent'[k] = agent[k], made' \in Nat, made <= made'
  PROVE  \A q \in Procs \ {p} : proc'[q] = proc[q] /\ HandlerInv(proc[q])'
<1>. SUFFICES ASSUME NEW q \in Procs, q # p PROVE proc'[q] = proc[q] /\ HandlerInv(proc[q])'
  OBVIOUS
<1>1. proc'[q] = proc[q] /\ HandlerInv(proc[q])
  BY DEF TypeOK, CacheInv
<1>2. proc[q].pc = "store" => proc[q].id # i /\ proc[q].id \in Ids /\ proc[q].id \in 1..made' /\ proc[q].key \in 1..made'
  <2>. SUFFICES ASSUME proc[q].pc = "store" PROVE proc[q].id # i /\ proc[q].id \in Ids
                    /\ proc[q].id \in 1..made' /\ proc[q].key \in 1..made'
    OBVIOUS
  <2>1. proc[q].id \in 1..made /\ proc[q].key \in 1..made /\ obj[proc[q].id] = Nil
    BY <1>1 DEF HandlerInv
  <2>2. proc[q].id \in Ids /\ proc[q].id \in 1..made' /\ proc[q].key \in 1..made'
    BY <2>1, BoundsAssumption DEF TypeOK, Ids
  <2>3. proc[q].id # i
    BY <2>1 DEF CacheInv, At, Id
  <2>. QED BY <2>2, <2>3
<1>3. proc[q].pc = "store" => agent'[proc[q].id] = 0 /\ obj'[proc[q].id] = Nil /\ disk'[proc[q].id] = Nil
  BY <1>1, <1>2 DEF HandlerInv
<1>4. Uses(proc[q]) => proc[q].id \in Ids /\ obj'[proc[q].id] # Nil
  BY <1>1 DEF HandlerInv
<1>. QED BY <1>1, <1>2, <1>3, <1>4 DEF HandlerInv, Uses

(* A handler goes on and leaves the contexts as they are.                  *)
LEMMA GoesOn ==
  ASSUME TypeOK, CacheInv, NEW p \in Procs, NEW r \in Handlers, proc' = [proc EXCEPT ![p] = r],
         UNCHANGED <<contexts, agent>>, made' \in Nat, made <= made', \A t \in Tags : keys'[t] <= made',
         HandlerInv(r), r.pc # "store", ~At(p, "uncache")
  PROVE  CacheInv'
<1>1. \A q \in Procs : proc'[q] = IF q = p THEN r ELSE proc[q]
  BY DEF TypeOK
<1>2. UNCHANGED <<disk, obj, cached, dom, agent>> /\ made \in Nat /\ 1..made \subseteq 1..made'
  BY BoundsAssumption DEF contexts, TypeOK
<1>3. ASSUME NEW q \in Procs PROVE HandlerInv(proc[q])'
  <2>1. CASE q = p
    BY <1>1, <1>2, <2>1 DEF HandlerInv, Uses
  <2>2. CASE q # p
    <3>1. HandlerInv(proc[q]) /\ proc'[q] = proc[q]
      BY <1>1, <2>2 DEF CacheInv
    <3>. QED BY <1>2, <3>1 DEF HandlerInv, Uses
  <2>. QED BY <2>1, <2>2
<1>4. \A q, s \in Procs : At(q, "store")' /\ At(s, "store")' /\ Id(q)' = Id(s)' => q = s
  BY <1>1 DEF CacheInv, At, Id
<1>5. ASSUME NEW i \in Ids
      PROVE  /\ RowInv(i)' /\ (i > made' => obj'[i] = Nil)
             /\ agent'[i] <= made' /\ (agent'[i] = 0 => obj'[i] = Nil) /\ (i > made' => agent'[i] = 0)
  <2>1. RowInv(i)'
    BY <1>2 DEF CacheInv, RowInv
  <2>2. i \in Nat /\ agent[i] \in Nat
    BY BoundsAssumption DEF TypeOK, Ids
  <2>. QED BY <1>2, <2>1, <2>2 DEF CacheInv
<1>6. \A i \in cached' \ Durable' : \E q \in Procs : At(q, "uncache")' /\ Id(q)' = i
  BY <1>1, <1>2 DEF CacheInv, Durable, At, Id
<1>. QED BY <1>3, <1>4, <1>5, <1>6 DEF CacheInv

(* A handler puts a context, its own or a new one.                         *)
LEMMA PutInv ==
  ASSUME TypeOK, CacheInv, NEW p \in Procs, NEW r \in Handlers, proc' = [proc EXCEPT ![p] = r],
         NEW i \in Ids, NEW c \in Contexts, disk[i] # Nil => disk[i].domain = c.domain, Put(i, c),
         i <= made, obj[i] # Nil \/ (At(p, "store") /\ Id(p) = i),
         r = Idle \/ (r.pc = "genesis" /\ r.id = i), UNCHANGED <<keys, made>>, ~At(p, "uncache"),
         \A k \in Ids \ {i} : agent'[k] = agent[k], agent'[i] \in 1..made
  PROVE  /\ CacheInv'
         /\ disk' \in [Ids -> Contexts \cup {Nil}] /\ obj' \in [Ids -> Contexts \cup {Nil}]
         /\ cached' \subseteq {k \in Ids : obj'[k] # Nil} /\ dom' \in [Domains -> Ids \cup {Nil}]
<1>1. \A k \in Ids : RowInv(k)
  BY DEF CacheInv
<1>2. /\ disk' \in [Ids -> Contexts \cup {Nil}] /\ obj' \in [Ids -> Contexts \cup {Nil}]
      /\ cached' \subseteq {k \in Ids : obj'[k] # Nil} /\ dom' \in [Domains -> Ids \cup {Nil}]
      /\ \A k \in Ids : RowInv(k)'
      /\ cached' \ Durable' \subseteq cached \ Durable
      /\ \A k \in Ids \ {i} : disk'[k] = disk[k] /\ obj'[k] = obj[k]
      /\ obj'[i] = c
  BY <1>1, PutFacts
<1>3. c # Nil
  BY NilAssumption
<1>4. proc'[p] = r /\ \A q \in Procs \ {p} : proc'[q] = proc[q] /\ HandlerInv(proc[q])'
  <2>1. made' \in Nat /\ made <= made'
    BY BoundsAssumption DEF TypeOK
  <2>2. proc'[p] = r
    BY DEF TypeOK
  <2>3. \A k \in Ids \ {i} : obj'[k] = obj[k] /\ (disk[k] = Nil => disk'[k] = Nil)
    BY <1>2
  <2>4. obj'[i] # Nil
    BY <1>2, <1>3
  <2>5. \A q \in Procs \ {p} : proc'[q] = proc[q] /\ HandlerInv(proc[q])'
    BY <2>1, <2>3, <2>4, OthersKept
  <2>. QED BY <2>2, <2>5
<1>5. HandlerInv(proc[p])'
  <2>1. CASE r = Idle
    BY <1>4, <2>1 DEF HandlerInv, Uses, Idle
  <2>2. CASE r.pc = "genesis" /\ r.id = i
    BY <1>2, <1>3, <1>4, <2>2 DEF HandlerInv, Uses
  <2>. QED BY <2>1, <2>2
<1>6. r.pc # "store"
  BY DEF Idle
<1>7. \A q, s \in Procs : At(q, "store")' /\ At(s, "store")' /\ Id(q)' = Id(s)' => q = s
  BY <1>4, <1>6 DEF CacheInv, At, Id
<1>8. \A k \in Ids : k > made' => obj'[k] = Nil
  BY <1>2, BoundsAssumption DEF CacheInv, TypeOK, Ids
<1>10. ASSUME NEW k \in Ids PROVE agent'[k] <= made' /\ (agent'[k] = 0 => obj'[k] = Nil) /\ (k > made' => agent'[k] = 0)
  <2>1. k \in Nat /\ i \in Nat /\ made \in Nat
    BY BoundsAssumption DEF TypeOK, Ids
  <2>. QED BY <1>2, <2>1 DEF CacheInv
<1>9. \A k \in cached' \ Durable' : \E q \in Procs : At(q, "uncache")' /\ Id(q)' = k
  BY <1>2, <1>4 DEF CacheInv, At, Id
<1>. QED BY <1>2, <1>4, <1>5, <1>7, <1>8, <1>9, <1>10 DEF CacheInv

(* A handler puts its context with another status or seal.                 *)
LEMMA ChangeInv ==
  ASSUME TypeOK, CacheInv, NEW p \in Procs, proc' = [proc EXCEPT ![p] = Idle], NEW i \in cached,
         NEW c \in Contexts, c.domain = obj[i].domain, Put(i, c), UNCHANGED <<agent, keys, made>>, ~At(p, "uncache")
  PROVE  /\ CacheInv'
         /\ disk' \in [Ids -> Contexts \cup {Nil}] /\ obj' \in [Ids -> Contexts \cup {Nil}]
         /\ cached' \subseteq {k \in Ids : obj'[k] # Nil} /\ dom' \in [Domains -> Ids \cup {Nil}]
<1>1. i \in Ids /\ obj[i] # Nil
  BY DEF TypeOK
<1>2. disk[i] # Nil => disk[i].domain = c.domain
  BY <1>1 DEF CacheInv, RowInv
<1>3. i <= made /\ agent[i] \in 1..made
  BY <1>1, BoundsAssumption DEF CacheInv, Ids, TypeOK
<1>4. Idle \in Handlers
  BY DEF Idle, Handlers
<1>. QED BY <1>1, <1>2, <1>3, <1>4, PutInv

(* Whatever a handler does to keys and chains, they keep their types and   *)
(* bounds.                                                                 *)
Chains == [founded : {"no", "none", "proof"}, recovered : {"no", "unreported", "reported"},
           since : SUBSET {"answered", "unanswered"}]

OtherTypes ==
  /\ agent \in [Ids -> Ids \cup {0}] /\ keys \in [Tags -> Ids \cup {0}]
  /\ chain \in [Ids -> Chains] /\ forked \in [Ids -> SUBSET {"answered", "unanswered"}]
  /\ made \in 0..MaxInstalls /\ requests \in Nat /\ restarts \in Nat
  /\ \A t \in Tags : keys[t] <= made

(* Every step of a handler keeps the types and the invariant of the caches.*)
LEMMA HandlingInv ==
  ASSUME TypeOK, CacheInv, UNCHANGED sc, NEW p \in Procs, Handling(p)
  PROVE  TypeOK' /\ CacheInv'
<1>1. OtherTypes /\ sc' \in Scenario /\ proc[p] \in Handlers /\ HandlerInv(proc[p]) /\ Idle \in Handlers /\ HandlerInv(Idle)
      /\ sc.domains \subseteq Domains /\ sc.installs \in 0..MaxInstalls /\ sc.ops \subseteq AllOps
        /\ sc.tags \subseteq Tags /\ made \in Nat
  BY BoundsAssumption DEF TypeOK, OtherTypes, Chains, CacheInv, Idle, Handlers, HandlerInv, Uses, Scenario
<1>2. \A i \in cached : i \in Ids /\ obj[i] # Nil /\ obj[i] \in Contexts
  BY CachedFacts
<1>3. ASSUME NEW r \in Handlers, proc' = [proc EXCEPT ![p] = r], UNCHANGED <<contexts, agent>>, made <= made',
             HandlerInv(r), r.pc # "store", ~At(p, "uncache"), OtherTypes'
      PROVE  TypeOK' /\ CacheInv'
  <2>3. made' \in Nat /\ \A t \in Tags : keys'[t] <= made'
    BY <1>3, BoundsAssumption DEF OtherTypes
  <2>1. CacheInv'
    BY <1>3, <2>3, GoesOn
  <2>2. proc' \in [Procs -> Handlers] /\ UNCHANGED <<disk, obj, cached, dom>>
    BY <1>3 DEF TypeOK, contexts
  <2>. QED BY <1>1, <1>3, <2>1, <2>2 DEF TypeOK, OtherTypes, Chains
<1>4. ASSUME NEW r \in Handlers, proc' = [proc EXCEPT ![p] = r], OtherTypes', CacheInv',
             disk' \in [Ids -> Contexts \cup {Nil}], obj' \in [Ids -> Contexts \cup {Nil}],
             cached' \subseteq {k \in Ids : obj'[k] # Nil}, dom' \in [Domains -> Ids \cup {Nil}]
      PROVE  TypeOK' /\ CacheInv'
  <2>1. proc' \in [Procs -> Handlers]
    BY <1>4 DEF TypeOK
  <2>. QED BY <1>1, <1>4, <2>1 DEF TypeOK, OtherTypes, Chains
<1>5. ASSUME NEW op, NEW r, Handler(p, op, r), r \in Handlers, HandlerInv(r), r.pc # "store", r.pc # "idle",
             UNCHANGED <<contexts, agent, keys, worker, made>>
      PROVE  TypeOK' /\ CacheInv'
  <2>1. op \in AllOps /\ proc' = [proc EXCEPT ![p] = [r EXCEPT !.op = op]] /\ proc[p] = Idle
        /\ requests' = requests + 1 /\ restarts' = restarts
    BY <1>1, <1>5 DEF Handler, Request
  <2>2. [r EXCEPT !.op = op] \in Handlers /\ HandlerInv([r EXCEPT !.op = op]) /\ [r EXCEPT !.op = op].pc = r.pc
    BY <1>5, <2>1 DEF Handlers, HandlerInv, Uses
  <2>3. OtherTypes' /\ ~At(p, "uncache") /\ UNCHANGED <<contexts, agent>> /\ made <= made'
    BY <1>1, <1>5, <2>1 DEF OtherTypes, worker, At, Idle
  <2>. QED BY <1>3, <1>5, <2>1, <2>2, <2>3
<1>6. ASSUME NEW op, NEW pc, NEW i \in cached, Handler(p, op, [Idle EXCEPT !.pc = pc, !.id = i]),
             pc \in {"genesis", "validate", "exec", "recover", "unkey"}, UNCHANGED <<contexts, agent, keys, worker, made>>
      PROVE  TypeOK' /\ CacheInv'
  <2>1. [Idle EXCEPT !.pc = pc, !.id = i] \in Handlers /\ [Idle EXCEPT !.pc = pc, !.id = i].pc = pc
        /\ [Idle EXCEPT !.pc = pc, !.id = i].id = i
    BY <1>2, <1>6 DEF Idle, Handlers
  <2>2. HandlerInv([Idle EXCEPT !.pc = pc, !.id = i])
    BY <1>2, <1>6, <2>1 DEF HandlerInv, Uses
  <2>. QED BY <1>5, <1>6, <2>1, <2>2
<1>7. ASSUME NEW pc, Uses(proc[p]), ~At(p, "uncache"), proc' = [proc EXCEPT ![p].pc = pc],
             pc \in {"complete", "exec", "seal", "mark", "drop"}, UNCHANGED <<contexts, agent, made>>, OtherTypes'
      PROVE  TypeOK' /\ CacheInv'
  <2>1. proc' = [proc EXCEPT ![p] = [proc[p] EXCEPT !.pc = pc]]
    BY <1>7
  <2>2. [proc[p] EXCEPT !.pc = pc] \in Handlers /\ HandlerInv([proc[p] EXCEPT !.pc = pc])
        /\ [proc[p] EXCEPT !.pc = pc].pc # "store"
    BY <1>1, <1>7 DEF Handlers, HandlerInv, Uses
  <2>3. made <= made' /\ UNCHANGED <<contexts, agent>>
    BY <1>1, <1>7
  <2>. QED BY <1>3, <1>7, <2>1, <2>2, <2>3
<1>8. ASSUME Done(p), ~At(p, "uncache"), UNCHANGED <<contexts, agent>>, made <= made', OtherTypes' PROVE TypeOK' /\ CacheInv'
  <2>1. Idle.pc # "store"
    BY DEF Idle
  <2>. QED BY <1>1, <1>3, <1>8, <2>1 DEF Done
<1>9. ASSUME proc' = [proc EXCEPT ![p] = Idle], NEW i \in cached, NEW c \in Contexts, c.domain = obj[i].domain,
             Put(i, c), UNCHANGED <<agent, keys, made>>, OtherTypes', ~At(p, "uncache")
      PROVE  TypeOK' /\ CacheInv'
  BY <1>1, <1>4, <1>9, ChangeInv
<1>10. ASSUME UNCHANGED <<agent, keys, worker, made, counters>> PROVE OtherTypes'
  BY <1>1, <1>10 DEF OtherTypes, worker, counters
<1>11. CASE StartInstall(p)
  <2>1. PICK d \in sc.domains, deferred \in BOOLEAN, proofs \in BOOLEAN : \E t \in {OwnTag(d)} \cup sc.tags :
          Handler(p, "install", [Idle EXCEPT !.pc = "key", !.domain = d, !.tag = t,
                                             !.deferred = deferred, !.proofs = proofs])
    BY <1>11 DEF StartInstall
  <2>2. PICK t \in {OwnTag(d)} \cup sc.tags :
          Handler(p, "install", [Idle EXCEPT !.pc = "key", !.domain = d, !.tag = t,
                                             !.deferred = deferred, !.proofs = proofs])
    BY <2>1
  <2>. DEFINE r == [Idle EXCEPT !.pc = "key", !.domain = d, !.tag = t, !.deferred = deferred, !.proofs = proofs]
  <2>7. d \in Domains /\ t \in Tags
    BY <1>1, TagsAssumption
  <2>3. r \in Handlers /\ r.pc = "key" /\ r.domain \in Domains /\ r.tag \in Tags
    BY <2>7 DEF Handlers, Idle, AllOps
  <2>. HIDE DEF r
  <2>4. HandlerInv(r)
    BY <2>3 DEF HandlerInv, Uses
  <2>5. UNCHANGED <<contexts, agent, keys, worker, made>>
    BY <1>11 DEF StartInstall
  <2>6. Handler(p, "install", r)
    BY <2>2 DEF r
  <2>. QED BY <1>5, <2>3, <2>4, <2>5, <2>6
<1>12. CASE MakeKey(p)
  <2>. DEFINE t == proc[p].tag
  <2>1. /\ At(p, "key") /\ t \in Tags /\ proc[p].domain \in Domains
        /\ UNCHANGED <<contexts, disk, obj, cached, dom, agent, chain, forked, requests, restarts>>
    BY <1>1, <1>12 DEF MakeKey, At, HandlerInv, contexts, worker, counters
  <2>2. CASE Done(p) /\ UNCHANGED <<keys, made>>
    BY <1>1, <1>8, <2>1, <2>2 DEF OtherTypes, At
  <2>3. ASSUME made < sc.installs, made' = made + 1, keys' = [keys EXCEPT ![t] = IF @ = 0 THEN made + 1 ELSE @]
        PROVE  OtherTypes' /\ keys'[t] \in 1..made' /\ made + 1 \in Ids /\ keys'[t] \in Ids
    <3>1. made + 1 \in Ids /\ made' \in 0..MaxInstalls /\ Ids \subseteq Nat
      BY <1>1, <2>3, BoundsAssumption DEF OtherTypes, Ids
    <3>2. keys'[t] \in 1..made' /\ keys'[t] \in Ids
      <4>1. keys[t] \in Ids \cup {0} /\ keys[t] <= made /\ keys'[t] = (IF keys[t] = 0 THEN made + 1 ELSE keys[t])
        BY <1>1, <2>1, <2>3 DEF OtherTypes
      <4>2. \A n \in Ids : n \in Nat /\ n > 0
        BY DEF Ids
      <4>3. made' = made + 1 /\ made \in Nat
        BY <1>1, <2>3
      <4>4. CASE keys[t] = 0
        BY <3>1, <4>1, <4>3, <4>4
      <4>5. CASE keys[t] # 0
        BY <4>1, <4>2, <4>3, <4>5
      <4>. QED BY <4>4, <4>5
    <3>3. keys' \in [Tags -> Ids \cup {0}]
      <4>1. keys \in [Tags -> Ids \cup {0}]
        BY <1>1 DEF OtherTypes
      <4>2. (IF keys[t] = 0 THEN made + 1 ELSE keys[t]) \in Ids \cup {0}
        BY <2>1, <3>1, <4>1
      <4>. QED BY <2>1, <2>3, <4>1, <4>2
    <3>4. ASSUME NEW u \in Tags PROVE keys'[u] <= made'
      <4>1. keys[u] \in Nat /\ keys[u] <= made /\ (u # t => keys'[u] = keys[u])
        <5>1. keys \in [Tags -> Ids \cup {0}] /\ \A v \in Tags : keys[v] <= made
          BY <1>1 DEF OtherTypes
        <5>2. keys[u] \in Nat
          <6>1. keys[u] \in Ids \/ keys[u] = 0
            BY <5>1
          <6>2. 0 \in Nat
            OBVIOUS
          <6>. QED BY <3>1, <6>1, <6>2, Zenon
        <5>. QED BY <2>1, <2>3, <5>1, <5>2
      <4>. QED BY <1>1, <2>3, <3>2, <4>1
    <3>. QED BY <1>1, <2>1, <3>1, <3>2, <3>3, <3>4 DEF OtherTypes
  <2>4. ASSUME made < sc.installs, made' = made + 1, keys' = [keys EXCEPT ![t] = IF @ = 0 THEN made + 1 ELSE @], Done(p)
        PROVE  TypeOK' /\ CacheInv'
    <3>1. OtherTypes' /\ made <= made' /\ ~At(p, "uncache")
      BY <1>1, <2>1, <2>3, <2>4 DEF At
    <3>. QED BY <1>8, <2>1, <2>4, <3>1
  <2>5. ASSUME made < sc.installs, made' = made + 1, keys' = [keys EXCEPT ![t] = IF @ = 0 THEN made + 1 ELSE @],
               proc' = [proc EXCEPT ![p] = [@ EXCEPT !.pc = "store", !.id = made + 1, !.key = keys'[t]]]
        PROVE  TypeOK' /\ CacheInv'
    <3>1. OtherTypes' /\ keys'[t] \in 1..made' /\ made + 1 \in Ids /\ keys'[t] \in Ids
      BY <2>3, <2>5
    <3>. DEFINE r == [proc[p] EXCEPT !.pc = "store", !.id = made + 1, !.key = keys'[t]]
    <3>2. r \in Handlers /\ proc' = [proc EXCEPT ![p] = r] /\ r.pc = "store" /\ r.id = made + 1
          /\ r.key = keys'[t] /\ r.domain = proc[p].domain /\ r.tag = t
      BY <1>1, <2>5, <3>1 DEF Handlers
    <3>3. obj[made + 1] = Nil /\ disk[made + 1] = Nil /\ agent[made + 1] = 0
      BY <1>1, <3>1 DEF CacheInv, RowInv, TypeOK
    <3>. HIDE DEF r
    <3>4. \A q \in Procs : proc'[q] = IF q = p THEN r ELSE proc[q]
      BY <3>2 DEF TypeOK
    <3>5. HandlerInv(proc[p])'
      <4>3. made \in Nat
        BY <1>1
      <4>4. made + 1 \in 1..made'
        BY <2>5, <4>3
      <4>1. proc'[p] = r /\ made + 1 \in 1..made'
        BY <3>4, <4>4
      <4>2. obj'[made + 1] = Nil /\ disk'[made + 1] = Nil /\ agent'[made + 1] = 0
        BY <2>1, <3>3
      <4>. QED BY <2>1, <3>1, <3>2, <4>1, <4>2 DEF HandlerInv, Uses
    <3>6. ASSUME NEW q \in Procs, q # p PROVE HandlerInv(proc[q])'
      <4>1. HandlerInv(proc[q]) /\ proc'[q] = proc[q] /\ 1..made \subseteq 1..made'
        BY <1>1, <2>5, <3>4, <3>6 DEF CacheInv
      <4>. QED BY <2>1, <4>1 DEF HandlerInv, Uses
    <3>7. ASSUME NEW q \in Procs, NEW u \in Procs, At(q, "store")', At(u, "store")', Id(q)' = Id(u)' PROVE q = u
      <4>1. \A v \in Procs : At(v, "store") => Id(v) \in 1..made
        BY DEF CacheInv, HandlerInv, At, Id
      <4>2. made + 1 \notin 1..made
        BY <1>1
      <4>. QED BY <3>2, <3>4, <3>7, <4>1, <4>2 DEF CacheInv, At, Id
    <3>8. ASSUME NEW i \in Ids
          PROVE  /\ RowInv(i)' /\ (i > made' => obj'[i] = Nil)
                 /\ agent'[i] <= made' /\ (agent'[i] = 0 => obj'[i] = Nil) /\ (i > made' => agent'[i] = 0)
      <4>1. RowInv(i)'
        BY <2>1 DEF CacheInv, RowInv
      <4>2. i \in Nat /\ agent[i] \in Nat
        BY BoundsAssumption DEF TypeOK, Ids
      <4>. QED BY <1>1, <2>1, <2>5, <4>1, <4>2 DEF CacheInv
    <3>9. \A i \in cached' \ Durable' : \E q \in Procs : At(q, "uncache")' /\ Id(q)' = i
      BY <2>1, <3>4 DEF CacheInv, Durable, At, Id
    <3>10. CacheInv'
      BY <3>1, <3>5, <3>6, <3>7, <3>8, <3>9 DEF CacheInv, OtherTypes
    <3>. QED BY <1>4, <2>1, <3>1, <3>2, <3>10 DEF TypeOK
  <2>. QED BY <1>12, <2>2, <2>4, <2>5 DEF MakeKey
<1>31. CASE NewKey(p) \/ DeleteEntry(p)
  <2>1. /\ proc[p] = Idle /\ requests' = requests + 1 /\ UNCHANGED <<contexts, agent, worker, proc, restarts>>
        /\ \/ made < sc.installs /\ made' = made + 1 /\ \E t \in Tags : keys' = [keys EXCEPT ![t] = made + 1]
           \/ made' = made /\ \E t \in Tags : keys' = [keys EXCEPT ![t] = 0]
    BY <1>31 DEF NewKey, DeleteEntry, Request
  <2>2. PICK t \in Tags, k \in {0, made'} : keys' = [keys EXCEPT ![t] = k] /\ (k = 0 \/ (made < sc.installs /\ made' = made + 1))
    BY <1>1, <2>1
  <2>3. made' \in 0..MaxInstalls /\ made <= made' /\ (k = 0 \/ k \in Ids)
    BY <1>1, <2>1, <2>2, BoundsAssumption DEF OtherTypes, Ids
  <2>4. \A u \in Tags : keys'[u] <= made'
    <3>1. \A u \in Tags : keys[u] \in Nat /\ keys[u] <= made /\ keys'[u] \in {keys[u], k}
      BY <1>1, <2>2, BoundsAssumption DEF OtherTypes, Ids
    <3>. QED BY <1>1, <2>3, <3>1
  <2>5. OtherTypes'
    BY <1>1, <2>1, <2>2, <2>3, <2>4 DEF OtherTypes, worker
  <2>6. Done(p) /\ ~At(p, "uncache")
    BY <2>1 DEF Done, TypeOK, At, Idle
  <2>. QED BY <1>8, <2>1, <2>3, <2>5, <2>6
<1>13. CASE StoreContext(p)
  <2>. DEFINE c == [domain |-> proc[p].domain, tag |-> proc[p].tag, deferred |-> proc[p].deferred,
                    sealed |-> "undefined", status |-> IF proc[p].deferred THEN "awaiting" ELSE "enabled"]
              r == IF proc[p].deferred /\ proc[p].proofs /\ ~Refused(proc[p].id, proc[p].domain)
                   THEN [proc[p] EXCEPT !.pc = "genesis"] ELSE Idle
  <2>1. At(p, "store") /\ Put(proc[p].id, c) /\ agent' = [agent EXCEPT ![proc[p].id] = proc[p].key]
        /\ UNCHANGED <<keys, worker, made, counters>>
    BY <1>13 DEF StoreContext
  <2>2. proc' = [proc EXCEPT ![p] = r]
    BY <1>13 DEF StoreContext, Goto, Done
  <2>3. proc[p].id \in Ids /\ proc[p].id <= made /\ disk[proc[p].id] = Nil /\ proc[p].key \in 1..made
        /\ proc[p].key \in Ids /\ proc[p].domain \in Domains /\ proc[p].tag \in Tags
    BY <1>1, <2>1, BoundsAssumption DEF HandlerInv, At, Ids, OtherTypes
  <2>4. c \in Contexts
    BY <1>1, <2>3 DEF Contexts, Handlers
  <2>5. r \in Handlers /\ (r = Idle \/ (r.pc = "genesis" /\ r.id = proc[p].id))
    BY <1>1 DEF Handlers
  <2>. HIDE DEF c, r
  <2>6. ~At(p, "uncache") /\ Id(p) = proc[p].id
    BY <2>1 DEF At, Id
  <2>7. OtherTypes' /\ agent'[proc[p].id] \in 1..made /\ \A k \in Ids \ {proc[p].id} : agent'[k] = agent[k]
    BY <1>1, <2>1, <2>3 DEF OtherTypes, worker, counters
  <2>8. /\ CacheInv'
        /\ disk' \in [Ids -> Contexts \cup {Nil}] /\ obj' \in [Ids -> Contexts \cup {Nil}]
        /\ cached' \subseteq {k \in Ids : obj'[k] # Nil} /\ dom' \in [Domains -> Ids \cup {Nil}]
    BY <2>1, <2>2, <2>3, <2>4, <2>5, <2>6, <2>7, PutInv
  <2>. QED BY <1>4, <2>1, <2>2, <2>5, <2>7, <2>8
<1>14. CASE StartProvide(p)
  <2>1. PICK i \in cached : Handler(p, "provide", [Idle EXCEPT !.pc = "genesis", !.id = i])
    BY <1>14 DEF StartProvide
  <2>. QED BY <1>6, <1>14, <2>1 DEF StartProvide
<1>15. CASE Genesis(p)
  <2>1. Uses(proc[p]) /\ ~At(p, "uncache")
    BY <1>15 DEF Genesis, At, Uses
  <2>2. UNCHANGED <<contexts, agent, made>> /\ made <= made'
    BY <1>1, <1>15 DEF Genesis
  <2>3. UNCHANGED chain \/ chain' = [chain EXCEPT ![Key(p)].founded = IF @ = "no" THEN "proof" ELSE @]
    BY <1>15 DEF Genesis
  <2>4. chain' \in [Ids -> Chains]
    BY <1>1, <2>1, <2>3, UsesFacts DEF OtherTypes, Chains
  <2>5. OtherTypes'
    BY <1>1, <1>15, <2>4 DEF Genesis, OtherTypes, counters
  <2>. QED BY <1>7, <1>8, <1>15, <2>1, <2>2, <2>5 DEF Genesis, Goto
<1>16. ASSUME NEW c, c \in Contexts, Id(p) \in cached, c.domain = obj[Id(p)].domain, Put(Id(p), c), Done(p),
              UNCHANGED <<agent, keys, made>>, OtherTypes', ~At(p, "uncache")
       PROVE  TypeOK' /\ CacheInv'
  BY <1>9, <1>16 DEF Done
<1>17. CASE CompleteMemproofs(p)
  <2>1. ~At(p, "uncache") /\ Done(p) /\ UNCHANGED <<agent, keys, worker, made, counters>> /\ made <= made'
    BY <1>1, <1>17 DEF CompleteMemproofs, At
  <2>2. Id(p) \in cached => [obj[Id(p)] EXCEPT !.status = "enabled"] \in Contexts
                            /\ [obj[Id(p)] EXCEPT !.status = "enabled"].domain = obj[Id(p)].domain
    BY <1>2 DEF Contexts
  <2>3. OtherTypes'
    BY <1>10, <2>1
  <2>. QED BY <1>8, <1>16, <1>17, <2>1, <2>2, <2>3, Zenon DEF CompleteMemproofs, contexts
<1>18. CASE StartCall(p)
  <2>1. \A d \in Domains : ByDomain(d) \subseteq cached
    BY DEF ByDomain, CacheInv, RowInv, Durable
  <2>2. UNCHANGED <<contexts, agent, keys, worker, made>>
    BY <1>18 DEF StartCall
  <2>3. \E i \in cached, pc \in {"exec", "validate"} : Handler(p, "call", [Idle EXCEPT !.pc = pc, !.id = i])
    BY <1>18, <2>1 DEF StartCall
  <2>. QED BY <1>6, <2>2, <2>3
<1>19. CASE Validate(p)
  <2>1. Uses(proc[p]) /\ ~At(p, "uncache") /\ OtherTypes' /\ UNCHANGED <<contexts, agent, made>> /\ made <= made'
    BY <1>1, <1>10, <1>19 DEF Validate, At, Uses
  <2>. QED BY <1>7, <1>8, <1>19, <2>1 DEF Validate, Goto
<1>20. CASE StartSignal(p)
  <2>1. PICK i \in cached : Handler(p, "signal", [Idle EXCEPT !.pc = "exec", !.id = i])
    BY <1>20 DEF StartSignal
  <2>. QED BY <1>6, <1>20, <2>1 DEF StartSignal
<1>21. CASE Exec(p)
  <2>1. Uses(proc[p]) /\ ~At(p, "uncache")
    BY <1>21 DEF Exec, At, Uses
  <2>2. UNCHANGED <<contexts, agent, made>> /\ made <= made'
    BY <1>1, <1>21 DEF Exec
  <2>3. UNCHANGED chain \/
        chain' = [chain EXCEPT ![Key(p)].founded = IF @ = "no" THEN "none" ELSE @,
                               ![Key(p)].since = IF chain[Key(p)].recovered = "no" THEN @ ELSE @ \cup {"unanswered"}]
    BY <1>21 DEF Exec
  <2>4. chain' \in [Ids -> Chains]
    BY <1>1, <2>1, <2>3, UsesFacts DEF OtherTypes, Chains
  <2>5. OtherTypes'
    BY <1>1, <1>21, <2>4 DEF Exec, OtherTypes, counters
  <2>. QED BY <1>7, <1>8, <1>21, <2>1, <2>2, <2>5 DEF Exec, Goto
<1>22. CASE Seal(p)
  <2>1. ~At(p, "uncache") /\ Done(p) /\ UNCHANGED <<agent, keys, forked, made, counters>> /\ made <= made' /\ Uses(proc[p])
    BY <1>1, <1>22 DEF Seal, At, Uses
  <2>2. Id(p) \in cached => [obj[Id(p)] EXCEPT !.sealed = "sealed"] \in Contexts
                            /\ [obj[Id(p)] EXCEPT !.sealed = "sealed"].domain = obj[Id(p)].domain
    BY <1>2 DEF Contexts
  <2>3. chain' \in [Ids -> Chains]
    BY <1>1, <1>22, <2>1, UsesFacts DEF Seal, OtherTypes, Chains
  <2>4. OtherTypes'
    BY <1>1, <2>1, <2>3 DEF OtherTypes, counters
  <2>. QED BY <1>8, <1>16, <1>22, <2>1, <2>2, <2>4 DEF Seal
<1>23. CASE StartRecover(p)
  <2>1. PICK i \in cached : Handler(p, "recover", [Idle EXCEPT !.pc = "recover", !.id = i])
    BY <1>23 DEF StartRecover
  <2>. QED BY <1>6, <1>23, <2>1 DEF StartRecover
<1>24. CASE RecoverChain(p)
  <2>1. Uses(proc[p]) /\ ~At(p, "uncache") /\ UNCHANGED <<contexts, agent, keys, made, counters>> /\ made <= made'
    BY <1>1, <1>24 DEF RecoverChain, At, Uses
  <2>2. OtherTypes'
    <3>1. Key(p) \in Ids /\ chain[Key(p)] \in Chains /\ forked[Key(p)] \subseteq {"answered", "unanswered"}
      BY <1>1, <2>1, UsesFacts DEF OtherTypes
    <3>. DEFINE c == chain[Key(p)]
                x == [founded |-> IF c.founded = "no" THEN "proof" ELSE c.founded,
                      recovered |-> IF c.recovered = "no" THEN "unreported" ELSE c.recovered, since |-> {}]
    <3>2. UNCHANGED worker \/
          (forked' = [forked EXCEPT ![Key(p)] = @ \cup c.since] /\ chain' = [chain EXCEPT ![Key(p)] = x])
      BY <1>24 DEF RecoverChain
    <3>3. x \in Chains /\ c.since \subseteq {"answered", "unanswered"}
      BY <3>1 DEF Chains
    <3>. HIDE DEF x
    <3>4. forked' \in [Ids -> SUBSET {"answered", "unanswered"}] /\ chain' \in [Ids -> Chains]
      BY <1>1, <3>1, <3>2, <3>3 DEF OtherTypes, worker
    <3>. QED BY <1>1, <2>1, <3>4 DEF OtherTypes, counters
  <2>. QED BY <1>7, <1>8, <1>24, <2>1, <2>2 DEF RecoverChain, Goto
<1>25. CASE MarkRecoveryRun(p)
  <2>1. ~At(p, "uncache") /\ Done(p) /\ UNCHANGED <<agent, keys, forked, made, counters>> /\ made <= made' /\ Uses(proc[p])
    BY <1>1, <1>25 DEF MarkRecoveryRun, At, Uses
  <2>2. Id(p) \in cached => [obj[Id(p)] EXCEPT !.sealed = "open"] \in Contexts
                            /\ [obj[Id(p)] EXCEPT !.sealed = "open"].domain = obj[Id(p)].domain
    BY <1>2 DEF Contexts
  <2>3. chain' \in [Ids -> Chains]
    BY <1>1, <1>25, <2>1, UsesFacts DEF MarkRecoveryRun, Report, OtherTypes, Chains
  <2>4. OtherTypes'
    BY <1>1, <2>1, <2>3 DEF OtherTypes, counters
  <2>. QED BY <1>8, <1>16, <1>25, <2>1, <2>2, <2>4 DEF MarkRecoveryRun
<1>26. CASE StartUninstall(p)
  <2>1. PICK i \in cached : Handler(p, "uninstall", [Idle EXCEPT !.pc = "unkey", !.id = i])
    BY <1>26 DEF StartUninstall
  <2>. QED BY <1>6, <1>26, <2>1 DEF StartUninstall
<1>27. CASE DeleteKey(p)
  <2>1. Uses(proc[p]) /\ ~At(p, "uncache")
    BY <1>27 DEF DeleteKey, At, Uses
  <2>2. UNCHANGED <<contexts, agent, worker, made, counters>> /\ obj[Id(p)].tag \in Tags
    BY <1>27, <2>1, UsesFacts DEF DeleteKey
  <2>3. \A t \in Tags : keys'[t] \in {keys[t], 0}
    BY <1>1, <1>27, <2>2 DEF DeleteKey, OtherTypes
  <2>4. keys' \in [Tags -> Ids \cup {0}]
    BY <1>1, <1>27, <2>2 DEF DeleteKey, OtherTypes
  <2>5. OtherTypes'
    BY <1>1, <2>2, <2>3, <2>4 DEF OtherTypes, counters, worker
  <2>. QED BY <1>7, <1>27, <2>1, <2>2, <2>5 DEF DeleteKey, Goto
<1>28. CASE DeleteRow(p)
  <2>. DEFINE d == IF Id(p) \in cached THEN obj[Id(p)].domain ELSE Nil
              r == [proc[p] EXCEPT !.pc = "uncache", !.domain = d]
  <2>1. At(p, "drop") /\ Uses(proc[p]) /\ Id(p) \in Ids /\ obj[Id(p)] \in Contexts /\ obj[Id(p)].domain \in Domains
        /\ disk' = [disk EXCEPT ![Id(p)] = Nil] /\ proc' = [proc EXCEPT ![p] = r]
        /\ UNCHANGED <<obj, cached, dom, agent, keys, worker, made, counters>>
    BY <1>28, UsesFacts DEF DeleteRow, At, Uses
  <2>2. r \in Handlers /\ r.pc = "uncache" /\ r.id = Id(p)
    <3>1. proc[p] \in Handlers /\ d \in Domains \cup {Nil}
      BY <1>1, <2>1
    <3>. HIDE DEF d
    <3>. QED BY <3>1 DEF Handlers, Id
  <2>. HIDE DEF r, d
  <2>3. \A q \in Procs : proc'[q] = IF q = p THEN r ELSE proc[q]
    BY <2>1 DEF TypeOK
  <2>4. disk' \in [Ids -> Contexts \cup {Nil}] /\ disk'[Id(p)] = Nil /\ \A k \in Ids \ {Id(p)} : disk'[k] = disk[k]
    BY <2>1 DEF TypeOK
  <2>5. ASSUME NEW q \in Procs PROVE HandlerInv(proc[q])'
    <3>1. CASE q = p
      BY <1>1, <2>1, <2>2, <2>3, <3>1 DEF HandlerInv, Uses, Id
    <3>2. CASE q # p
      BY <2>1, <2>3, <2>4, <3>2 DEF CacheInv, HandlerInv, Uses, TypeOK
    <3>. QED BY <3>1, <3>2
  <2>6. \A q, s \in Procs : At(q, "store")' /\ At(s, "store")' /\ Id(q)' = Id(s)' => q = s
    BY <2>2, <2>3 DEF CacheInv, At, Id
  <2>7. \A k \in Ids : RowInv(k)' /\ (k > made' => obj'[k] = Nil)
    BY <2>1, <2>4 DEF CacheInv, RowInv
  <2>8. ASSUME NEW k \in cached' \ Durable' PROVE \E q \in Procs : At(q, "uncache")' /\ Id(q)' = k
    <3>1. CASE k = Id(p)
      BY <2>2, <2>3, <3>1 DEF At, Id
    <3>2. CASE k # Id(p)
      <4>1. k \in cached \ Durable
        BY <2>1, <2>4, <2>8, <3>2 DEF Durable
      <4>2. PICK q \in Procs : At(q, "uncache") /\ Id(q) = k
        BY <4>1 DEF CacheInv
      <4>. QED BY <2>1, <2>3, <4>2 DEF At, Id
    <3>. QED BY <3>1, <3>2
  <2>9. CacheInv'
    BY <2>1, <2>5, <2>6, <2>7, <2>8 DEF CacheInv
  <2>. QED BY <1>4, <1>10, <2>1, <2>2, <2>4, <2>9 DEF TypeOK
<1>29. CASE Uncache(p)
  <2>1. At(p, "uncache") /\ proc' = [proc EXCEPT ![p] = Idle] /\ UNCHANGED <<disk, obj, agent, keys, worker, made, counters>>
        /\ cached' = (IF Id(p) \in Durable THEN cached ELSE cached \ {Id(p)})
        /\ dom' = [d \in Domains |-> IF d = proc[p].domain /\ dom[d] \notin Durable THEN Nil ELSE dom[d]]
    BY <1>29 DEF Uncache, Done
  <2>2. \A q \in Procs : proc'[q] = IF q = p THEN Idle ELSE proc[q]
    BY <2>1 DEF TypeOK
  <2>3. dom' \in [Domains -> Ids \cup {Nil}] /\ cached' \subseteq {k \in Ids : obj'[k] # Nil}
    BY <2>1 DEF TypeOK
  <2>4. ASSUME NEW q \in Procs PROVE HandlerInv(proc[q])'
    <3>1. CASE q = p
      <4>1. Idle.pc = "idle" /\ proc'[q] = Idle
        BY <2>2, <3>1 DEF Idle
      <4>. QED BY <4>1 DEF HandlerInv, Uses
    <3>2. CASE q # p
      <4>1. HandlerInv(proc[q]) /\ proc'[q] = proc[q]
        BY <2>2, <3>2 DEF CacheInv
      <4>. QED BY <2>1, <4>1 DEF HandlerInv, Uses
    <3>. QED BY <3>1, <3>2
  <2>5. \A q, s \in Procs : At(q, "store")' /\ At(s, "store")' /\ Id(q)' = Id(s)' => q = s
    BY <2>2 DEF CacheInv, At, Id, Idle
  <2>6. ASSUME NEW k \in Ids PROVE RowInv(k)' /\ (k > made' => obj'[k] = Nil)
    <3>1. CASE disk[k] = Nil
      BY <2>1, <3>1 DEF CacheInv, RowInv
    <3>2. CASE disk[k] # Nil
      <4>1. k \in Durable /\ RowInv(k) /\ disk[k].domain \in Domains
        BY <3>2 DEF Durable, CacheInv, TypeOK, Contexts
      <4>. QED BY <2>1, <3>2, <4>1 DEF RowInv, CacheInv
    <3>. QED BY <3>1, <3>2
  <2>7. ASSUME NEW k \in cached' \ Durable' PROVE \E q \in Procs : At(q, "uncache")' /\ Id(q)' = k
    <3>1. k \in cached \ Durable /\ k # Id(p)
      BY <2>1, <2>7 DEF Durable
    <3>2. PICK q \in Procs : At(q, "uncache") /\ Id(q) = k
      BY <3>1 DEF CacheInv
    <3>. QED BY <2>2, <3>1, <3>2 DEF At, Id
  <2>8. CacheInv'
    BY <2>1, <2>4, <2>5, <2>6, <2>7 DEF CacheInv
  <2>. QED BY <1>1, <1>4, <1>10, <2>1, <2>3, <2>8 DEF TypeOK
<1>30. ASSUME NEW i \in Ids, NEW enabled \in BOOLEAN, SetContextEnabled(p, i, enabled) PROVE TypeOK' /\ CacheInv'
  <2>. DEFINE c == [obj[i] EXCEPT !.status = IF enabled THEN "enabled" ELSE "disabled"]
  <2>1. proc[p] = Idle /\ i \in cached /\ Put(i, c) /\ UNCHANGED <<agent, keys, worker, proc, made>>
        /\ requests' = requests + 1 /\ restarts' = restarts
    BY <1>30 DEF SetContextEnabled, Request
  <2>2. c \in Contexts /\ c.domain = obj[i].domain
    BY <1>2, <2>1 DEF Contexts
  <2>. HIDE DEF c
  <2>3. proc' = [proc EXCEPT ![p] = Idle] /\ ~At(p, "uncache")
    BY <2>1 DEF TypeOK, At, Idle
  <2>4. OtherTypes'
    BY <1>1, <2>1 DEF OtherTypes, worker
  <2>. QED BY <1>9, <2>1, <2>2, <2>3, <2>4
<1>. QED
  BY <1>11, <1>12, <1>13, <1>14, <1>15, <1>17, <1>18, <1>19, <1>20, <1>21, <1>22, <1>23, <1>24, <1>25,
     <1>26, <1>27, <1>28, <1>29, <1>30, <1>31 DEF Handling

(* A restart leaves the rows, and the caches are read from them.           *)
LEMMA RestartInv ==
  ASSUME TypeOK, CacheInv, UNCHANGED sc, Restart
  PROVE  TypeOK' /\ CacheInv'
<1>1. /\ obj' = disk /\ disk' = disk /\ cached' = Durable /\ proc' = [p \in Procs |-> Idle] /\ made' = made
      /\ dom' = [d \in Domains |-> IF \E i \in Durable : disk[i].domain = d
                                    THEN CHOOSE i \in Durable : disk[i].domain = d ELSE Nil]
      /\ restarts' = restarts + 1 /\ UNCHANGED <<agent, keys, chain, forked, requests>>
  BY DEF Restart, worker
<1>2. Durable \subseteq Ids /\ \A i \in Ids : disk[i] # Nil <=> i \in Durable
  BY DEF Durable
<1>3. \A i, j \in Durable : disk[i].domain = disk[j].domain => i = j
  BY <1>2 DEF CacheInv, RowInv
<1>4. ASSUME NEW i \in Durable PROVE dom'[disk[i].domain] = i
  <2>1. disk[i].domain \in Domains
    BY <1>2 DEF TypeOK, Contexts
  <2>2. \E j \in Durable : disk[j].domain = disk[i].domain
    OBVIOUS
  <2>3. (CHOOSE j \in Durable : disk[j].domain = disk[i].domain) = i
    BY <1>3
  <2>. QED BY <1>1, <2>1, <2>2, <2>3
<1>5. dom' \in [Domains -> Ids \cup {Nil}]
  BY <1>1, <1>2
<1>6. Idle \in Handlers /\ Idle.pc = "idle"
  BY DEF Idle, Handlers
<1>7. TypeOK'
  BY <1>1, <1>2, <1>5, <1>6 DEF TypeOK
<1>8. \A p \in Procs : HandlerInv(proc[p])' /\ ~At(p, "store")'
  BY <1>1, <1>6 DEF HandlerInv, Uses, At
<1>9. \A i \in Ids : RowInv(i)' /\ (i > made' => obj'[i] = Nil)
  BY <1>1, <1>2, <1>4 DEF CacheInv, RowInv
<1>10. cached' \ Durable' = {}
  BY <1>1 DEF Durable
<1>11. \A i \in Ids : agent[i] = 0 => disk[i] = Nil
  BY DEF CacheInv, RowInv, TypeOK
<1>. QED BY <1>1, <1>7, <1>8, <1>9, <1>10, <1>11 DEF CacheInv

(* The types and the invariant of the caches, for handlers that overlap in *)
(* any way.                                                                *)
THEOREM CacheInvariance == Spec => [](TypeOK /\ CacheInv)
<1>1. ASSUME TypeOK, CacheInv, Next PROVE TypeOK' /\ CacheInv'
  BY <1>1, HandlingInv, RestartInv DEF Next
<1>2. ASSUME TypeOK, CacheInv, UNCHANGED vars PROVE TypeOK' /\ CacheInv'
  <2>1. TypeOK'
    BY <1>2 DEF TypeOK, vars
  <2>2. CacheInv'
    BY <1>2 DEF CacheInv, vars, HandlerInv, Uses, RowInv, Durable, At, Id
  <2>. QED BY <2>1, <2>2
<1>. QED BY InitCache, <1>1, <1>2, PTL DEF Spec

(* When no handler runs, the caches show exactly what is on disk.          *)
LEMMA QuietAgrees == ASSUME TypeOK, CacheInv PROVE AllCachesAgree
<1>. SUFFICES ASSUME Quiet PROVE cached = Durable /\ \A i \in Durable : obj[i] = disk[i] /\ ByDomain(disk[i].domain) = {i}
  BY DEF AllCachesAgree
<1>1. Durable \subseteq cached /\ \A i \in Durable : obj[i] = disk[i] /\ dom[disk[i].domain] = i
  BY DEF Durable, CacheInv, RowInv
<1>2. cached \subseteq Durable
  BY DEF CacheInv, Quiet, At, Idle
<1>3. \A i \in Durable : ByDomain(disk[i].domain) = {i}
  BY <1>1, NilAssumption DEF ByDomain, Durable
<1>. QED BY <1>1, <1>2, <1>3

(* ... whatever has overlapped, failed or restarted before.                *)
THEOREM CachesComeToAgree == Spec => []AllCachesAgree
BY CacheInvariance, QuietAgrees, PTL

(***************************************************************************)
(* Seals                                                                   *)
(***************************************************************************)

(* A row that is sealed is replaced by none that is not: whoever puts its  *)
(* context has its object, which is sealed as well.                        *)
LEMMA SealStep == ASSUME TypeOK, CacheInv, Next PROVE SealsKept
<1>. SUFFICES ASSUME NEW i \in Durable, disk[i].sealed = "sealed", disk'[i] # Nil PROVE disk'[i].sealed = "sealed"
  BY DEF SealsKept
<1>1. i \in Ids /\ disk[i] # Nil /\ obj[i] = disk[i]
  BY DEF Durable, CacheInv, RowInv
<1>2. ASSUME NEW k, NEW c, Put(k, c), k = i => c.sealed = "sealed" PROVE disk'[i].sealed = "sealed"
  BY <1>1, <1>2 DEF Put, TypeOK
<1>3. ASSUME disk' = disk PROVE disk'[i].sealed = "sealed"
  BY <1>3
<1>4. CASE Restart
  BY <1>3, <1>4 DEF Restart
<1>5. ASSUME NEW p \in Procs, Handling(p) PROVE disk'[i].sealed = "sealed"
  <2>1. CASE UNCHANGED contexts
    BY <1>3, <2>1 DEF contexts
  <2>2. CASE StoreContext(p)
    <3>1. proc[p].id # i
      BY <1>1, <2>2 DEF StoreContext, CacheInv, HandlerInv, At
    <3>. QED BY <1>2, <2>2, <3>1 DEF StoreContext
  <2>3. CASE CompleteMemproofs(p) \/ Seal(p) \/ MarkRecoveryRun(p)
    <3>1. obj[i] \in Contexts /\ obj[i].sealed = "sealed"
      BY <1>1 DEF TypeOK
    <3>2. CASE CompleteMemproofs(p) /\ Id(p) \in cached
      <4>1. Id(p) = i => [obj[Id(p)] EXCEPT !.status = "enabled"].sealed = "sealed"
        BY <3>1 DEF Contexts
      <4>. QED BY <1>2, <3>2, <4>1 DEF CompleteMemproofs
    <3>3. CASE Seal(p) /\ obj[Id(p)].sealed = "open" /\ Id(p) \in cached
      <4>1. Id(p) # i
        BY <3>1, <3>3
      <4>. QED BY <1>2, <3>3, <4>1 DEF Seal
    <3>4. CASE MarkRecoveryRun(p) /\ obj[Id(p)].sealed # "sealed" /\ Id(p) \in cached
      <4>1. Id(p) # i
        BY <3>1, <3>4
      <4>. QED BY <1>2, <3>4, <4>1 DEF MarkRecoveryRun
    <3>. QED BY <2>1, <2>3, <3>2, <3>3, <3>4 DEF CompleteMemproofs, Seal, MarkRecoveryRun
  <2>4. CASE DeleteRow(p)
    BY <1>1, <2>4 DEF DeleteRow, TypeOK
  <2>5. CASE Uncache(p)
    BY <1>3, <2>5 DEF Uncache
  <2>6. ASSUME NEW k \in Ids, NEW enabled \in BOOLEAN, SetContextEnabled(p, k, enabled) PROVE disk'[i].sealed = "sealed"
    <3>. DEFINE c == [obj[k] EXCEPT !.status = IF enabled THEN "enabled" ELSE "disabled"]
    <3>1. Put(k, c)
      BY <2>6 DEF SetContextEnabled
    <3>2. k = i => c.sealed = "sealed"
      BY <1>1 DEF TypeOK, Contexts
    <3>. HIDE DEF c
    <3>. QED BY <1>2, <3>1, <3>2
  <2>. QED
    BY <1>5, <2>1, <2>2, <2>3, <2>4, <2>5, <2>6
    DEF Handling, StartInstall, MakeKey, StartProvide, Genesis, StartCall, Validate, StartSignal, Exec,
        StartRecover, RecoverChain, StartUninstall, DeleteKey, NewKey, DeleteEntry
<1>. QED BY <1>4, <1>5 DEF Next

(* A durable seal is never opened again.                                   *)
THEOREM SealsNeverOpen == Spec => [][SealsKept]_vars
BY CacheInvariance, SealStep, PTL DEF Spec

(***************************************************************************)
(* Requests in turn                                                        *)
(***************************************************************************)

(* In turn only one handler runs: the others wait for their request.       *)
LEMMA OneHandler ==
  ASSUME TypeOK, InTurn, TurnInv, NEW p \in Procs, Handling(p)
  PROVE  \A q \in Procs \ {p} : proc[q] = Idle
<1>1. CASE Quiet
  BY <1>1 DEF Quiet
<1>2. CASE proc[p] # Idle
  BY <1>2 DEF TurnInv
<1>3. CASE proc[p] = Idle
  <2>1. ASSUME NEW pc, pc # "idle", At(p, pc) PROVE FALSE
    BY <1>3, <2>1 DEF At, Idle
  <2>2. \A op, r : Handler(p, op, r) => Quiet
    BY DEF Handler, Request, InTurn
  <2>3. \A op : Request(op) => Quiet
    BY DEF Request, InTurn
  <2>4. CASE StartInstall(p) \/ StartProvide(p) \/ StartCall(p) \/ StartSignal(p) \/ StartRecover(p) \/ StartUninstall(p)
    BY <1>1, <2>2, <2>4 DEF StartInstall, StartProvide, StartCall, StartSignal, StartRecover, StartUninstall
  <2>5. CASE MakeKey(p) \/ StoreContext(p) \/ Genesis(p) \/ CompleteMemproofs(p) \/ Validate(p) \/ Exec(p)
    BY <2>1, <2>5 DEF MakeKey, StoreContext, Genesis, CompleteMemproofs, Validate, Exec
  <2>6. CASE Seal(p) \/ RecoverChain(p) \/ MarkRecoveryRun(p) \/ DeleteKey(p) \/ DeleteRow(p) \/ Uncache(p)
    BY <2>1, <2>6 DEF Seal, RecoverChain, MarkRecoveryRun, DeleteKey, DeleteRow, Uncache
  <2>7. CASE NewKey(p) \/ DeleteEntry(p) \/ \E i \in Ids, enabled \in BOOLEAN : SetContextEnabled(p, i, enabled)
    BY <1>1, <2>3, <2>7 DEF SetContextEnabled, NewKey, DeleteEntry
  <2>. QED BY <2>4, <2>5, <2>6, <2>7 DEF Handling
<1>. QED BY <1>2, <1>3

(* A durable context.                                                      *)
LEMMA RowFacts ==
  ASSUME TypeOK, CacheInv, NEW i \in Durable
  PROVE  /\ i \in Ids /\ i \in cached /\ obj[i] = disk[i] /\ disk[i] # Nil /\ disk[i] \in Contexts
         /\ agent[i] \in Ids /\ agent[i] # 0 /\ i \in Installed /\ disk[i].domain \in Domains /\ disk[i].tag \in Tags
         /\ \A j \in Durable : disk[j].domain = disk[i].domain => j = i
<1>1. i \in Ids /\ disk[i] # Nil /\ disk[i] \in Contexts
  BY DEF Durable, TypeOK
<1>2. \A j \in Durable : j \in cached /\ obj[j] = disk[j] /\ dom[disk[j].domain] = j
  BY DEF Durable, CacheInv, RowInv
<1>3. agent[i] \in Ids /\ agent[i] # 0
  BY <1>1, <1>2 DEF CacheInv, TypeOK
<1>. QED BY <1>1, <1>2, <1>3 DEF Contexts, Installed

(* The context of the one handler is durable until it deletes it.          *)
LEMMA OwnRow ==
  ASSUME TypeOK, CacheInv, TurnInv, NEW p \in Procs, Uses(proc[p]), ~At(p, "uncache")
  PROVE  /\ Id(p) \in Durable /\ Id(p) \in cached /\ obj[Id(p)] = disk[Id(p)]
         /\ disk[Id(p)] \in Contexts /\ Key(p) = agent[Id(p)] /\ Key(p) \in Ids
<1>1. Id(p) \in Durable
  BY DEF TurnInv, TurnHandlerInv, At, Id
<1>. QED BY <1>1, RowFacts DEF Key

(* One handler at most, and what the one relies on holds of its next pc.   *)
HandlersInv ==
  /\ \A p, q \in Procs : proc[p] # Idle /\ proc[q] # Idle => p = q
  /\ \A p \in Procs : TurnHandlerInv(proc[p])

LEMMA NextHandler ==
  ASSUME TypeOK, NEW p \in Procs, \A q \in Procs \ {p} : proc[q] = Idle,
         NEW r, proc' = [proc EXCEPT ![p] = r], r = Idle \/ TurnHandlerInv(proc[p])'
  PROVE  HandlersInv'
<1>1. \A q \in Procs : proc'[q] = IF q = p THEN r ELSE Idle
  BY DEF TypeOK
<1>2. Idle.pc = "idle"
  BY DEF Idle
<1>3. ASSUME NEW q \in Procs PROVE TurnHandlerInv(proc[q])'
  <2>1. CASE proc'[q] = Idle
    BY <1>2, <2>1 DEF TurnHandlerInv, Uses
  <2>2. CASE proc'[q] # Idle
    BY <1>1, <2>2
  <2>. QED BY <2>1, <2>2
<1>. QED BY <1>1, <1>3 DEF HandlersInv

(* Nothing of contexts and chains changes.                                 *)
LEMMA ChainsKept ==
  ASSUME ChainsInv, UNCHANGED <<sc, disk, agent, chain, forked>>
  PROVE  ChainsInv'
BY DEF ChainsInv, AloneInv, Alone, Installed, Durable

(* One context and the chain of its key change: a context that is alone    *)
(* with its key keeps what ties it to its chain.                           *)
LEMMA ChainChange ==
  ASSUME TypeOK, CacheInv, ChainsInv, UNCHANGED <<sc, agent>>, NEW i \in Durable, NEW c \in Contexts, NEW x, NEW y,
         disk' = [disk EXCEPT ![i] = c], chain' = [chain EXCEPT ![agent[i]] = x], forked' = [forked EXCEPT ![agent[i]] = y],
         Alone(i) => "answered" \notin y,
         Alone(i) /\ AloneInv(i) => AloneInv(i)'
  PROVE  ChainsInv'
<1>1. i \in Ids /\ agent[i] \in Ids /\ c # Nil /\ i \in Installed
  BY RowFacts, NilAssumption
<1>2. /\ Durable' = Durable /\ Durable \subseteq Ids
      /\ \A j \in Ids : j # i => disk'[j] = disk[j]
      /\ \A k \in Ids : k # agent[i] => chain'[k] = chain[k] /\ forked'[k] = forked[k]
      /\ forked'[agent[i]] = y /\ agent' = agent /\ Installed' = Installed /\ sc' = sc
  BY <1>1 DEF TypeOK, Durable, Installed
<1>3. \A j \in Ids : Alone(j)' <=> Alone(j)
  BY <1>2 DEF Alone
<1>4. ASSUME NEW j \in Durable, Alone(j) PROVE AloneInv(j)'
  <2>1. AloneInv(j)
    BY <1>4 DEF ChainsInv
  <2>2. CASE j = i
    BY <1>4, <2>1, <2>2
  <2>3. CASE j # i
    <3>1. agent[j] # agent[i] /\ agent[j] \in Ids /\ disk'[j] = disk[j]
      BY <1>1, <1>2, <1>4, <2>3, RowFacts DEF Alone
    <3>. QED BY <1>2, <2>1, <3>1 DEF AloneInv
  <2>. QED BY <2>2, <2>3
<1>5. ASSUME NEW k \in Ids, \A j \in Ids : agent[j] # k PROVE chain'[k] = NoChain /\ forked'[k] = {}
  BY <1>1, <1>2, <1>5 DEF ChainsInv
<1>6. ASSUME NEW j \in Installed, Alone(j) PROVE "answered" \notin forked'[agent[j]]
  <2>1. "answered" \notin forked[agent[j]] /\ j \in Ids /\ agent[j] \in Ids
    BY <1>6 DEF ChainsInv, Installed, TypeOK
  <2>2. CASE j = i
    BY <1>2, <1>6, <2>2
  <2>3. CASE j # i
    <3>1. agent[j] # agent[i]
      BY <1>1, <1>6, <2>3 DEF Alone
    <3>. QED BY <1>2, <2>1, <3>1
  <2>. QED BY <2>2, <2>3
<1>7. \A j \in Durable' : Alone(j)' => AloneInv(j)'
  BY <1>2, <1>3, <1>4
<1>8. \A j \in Installed' : Alone(j)' => "answered" \notin forked'[agent'[j]]
  BY <1>2, <1>3, <1>6 DEF Installed
<1>9. \A k \in Ids : (\A j \in Ids : agent'[j] # k) => chain'[k] = NoChain /\ forked'[k] = {}
  BY <1>2, <1>5
<1>. QED BY <1>7, <1>8, <1>9 DEF ChainsInv

(* No key is taken, and no uninstallation ends: contexts keep their keys.  *)
LEMMA KeysKept ==
  ASSUME TypeOK, CacheInv, KeysInv, UNCHANGED <<sc, agent>>, \A i : ~Uninstalling(i),
         \A i \in Durable' : i \in Durable /\ disk'[i].tag = disk[i].tag,
         \A t \in Tags : keys[t] # 0 => keys'[t] = keys[t]
  PROVE  KeysInv'
<1>. SUFFICES ASSUME OwnKeys, sc.restarts = 0, "delkey" \notin sc.ops, NEW i \in Durable'
     PROVE  keys'[disk'[i].tag] = agent'[i]
  BY DEF KeysInv, OwnKeys, Installed, Alone
<1>1. keys[disk[i].tag] = agent[i]
  BY DEF KeysInv
<1>. QED BY <1>1, RowFacts

(* The handler goes on: nothing changes but keys that are made.            *)
LEMMA TurnGoesOn ==
  ASSUME TypeOK, CacheInv, TurnInv, NEW p \in Procs, \A q \in Procs \ {p} : proc[q] = Idle,
         NEW r, proc' = [proc EXCEPT ![p] = r], UNCHANGED <<sc, disk, agent, chain, forked>>,
         \A t \in Tags : keys[t] # 0 => keys'[t] = keys[t],
         proc[p].pc # "drop", r = Idle \/ TurnHandlerInv(proc[p])'
  PROVE  TurnInv'
<1>1. HandlersInv'
  BY NextHandler
<1>2. ChainsInv'
  BY ChainsKept DEF TurnInv
<1>3. \A i : ~Uninstalling(i)
  BY DEF Uninstalling, At, Idle
<1>4. KeysInv'
  BY <1>3, KeysKept DEF TurnInv, Durable
<1>. QED BY <1>1, <1>2, <1>4 DEF TurnInv, HandlersInv

(* The handler changes its context, its status or seal, or its chain.      *)
LEMMA TurnChange ==
  ASSUME TypeOK, CacheInv, TurnInv, NEW p \in Procs, \A q \in Procs \ {p} : proc[q] = Idle,
         NEW r, proc' = [proc EXCEPT ![p] = r], UNCHANGED <<sc, agent, keys>>, proc[p].pc # "drop",
         NEW i \in Durable, NEW c \in Contexts, NEW x, NEW y,
         disk' = [disk EXCEPT ![i] = c], chain' = [chain EXCEPT ![agent[i]] = x], forked' = [forked EXCEPT ![agent[i]] = y],
         c.tag = disk[i].tag, Alone(i) => "answered" \notin y,
         Alone(i) /\ AloneInv(i) => AloneInv(i)', r = Idle \/ TurnHandlerInv(proc[p])'
  PROVE  TurnInv'
<1>1. HandlersInv'
  BY NextHandler
<1>2. ChainsInv'
  BY ChainChange DEF TurnInv
<1>3. \A j : ~Uninstalling(j)
  BY DEF Uninstalling, At, Idle
<1>4. \A j \in Durable' : j \in Durable /\ disk'[j].tag = disk[j].tag
  BY NilAssumption DEF Durable, TypeOK
<1>5. KeysInv'
  BY <1>3, <1>4, KeysKept DEF TurnInv
<1>. QED BY <1>1, <1>2, <1>5 DEF TurnInv, HandlersInv

(* An installed context: one that shares no key with another.              *)
LEMMA StoreStep ==
  ASSUME TypeOK, CacheInv, InTurn, TurnInv, UNCHANGED sc, NEW p \in Procs, StoreContext(p),
         \A q \in Procs \ {p} : proc[q] = Idle
  PROVE  TurnInv'
<1>1. PICK i : i = proc[p].id
  OBVIOUS
<1>. DEFINE d == proc[p].domain
            c == [domain |-> d, tag |-> proc[p].tag, deferred |-> proc[p].deferred,
                  sealed |-> "undefined", status |-> IF proc[p].deferred THEN "awaiting" ELSE "enabled"]
            r == IF proc[p].deferred /\ proc[p].proofs /\ ~Refused(i, d) THEN [proc[p] EXCEPT !.pc = "genesis"] ELSE Idle
<1>2. At(p, "store") /\ proc[p].pc = "store" /\ Put(i, c) /\ UNCHANGED <<keys, chain, forked>>
      /\ agent' = [agent EXCEPT ![i] = proc[p].key] /\ proc' = [proc EXCEPT ![p] = r]
  BY <1>1 DEF StoreContext, At, worker, Goto, Done
<1>3. /\ i \in Ids /\ disk[i] = Nil /\ agent[i] = 0 /\ d \in Domains /\ keys[proc[p].tag] = proc[p].key
      /\ proc[p].key \in 1..made /\ proc[p].tag \in Tags /\ proc[p] \in Handlers
      /\ \A j \in Durable : disk[j].domain # d
  BY <1>1, <1>2, BoundsAssumption DEF CacheInv, TurnInv, HandlerInv, TurnHandlerInv, Ids, TypeOK
<1>4. proc[p].key \in Ids /\ proc[p].key # 0
  BY <1>3, BoundsAssumption DEF TypeOK, Ids
<1>5. c # Nil /\ ~Refused(i, d)
  BY <1>3, NilAssumption DEF Contexts, Handlers, Refused
<1>6. disk' = [disk EXCEPT ![i] = c]
  BY <1>2, <1>5 DEF Put
<1>7. r = Idle \/ (r.pc = "genesis" /\ r.id = i /\ c.status = "awaiting")
  BY <1>1, <1>3 DEF Handlers
<1>8. c.deferred => c.status = "awaiting"
  OBVIOUS
<1>9. c.sealed = "undefined" /\ c.tag = proc[p].tag
  OBVIOUS
<1>. HIDE DEF c, r, d
<1>10. /\ disk'[i] = c /\ i \notin Durable /\ Durable \subseteq Ids
       /\ \A j \in Ids : (j \in Durable' <=> j = i \/ j \in Durable) /\ (j # i => disk'[j] = disk[j])
       /\ Durable' \subseteq Ids
  BY <1>3, <1>5, <1>6 DEF Durable, TypeOK
<1>11. agent'[i] = proc[p].key /\ \A j \in Ids : j # i => agent'[j] = agent[j]
  BY <1>2, <1>3 DEF TypeOK
<1>12. HandlersInv'
  <2>1. proc'[p] = r
    BY <1>2 DEF TypeOK
  <2>2. r # Idle => TurnHandlerInv(proc[p])'
    BY <1>3, <1>7, <1>10, <2>1 DEF TurnHandlerInv, Uses
  <2>. QED BY <1>2, <2>2, NextHandler
<1>13. ASSUME NEW j \in Ids, j # i, agent[j] # 0, Alone(j)' PROVE Alone(j)
  BY <1>3, <1>11, <1>13 DEF Alone
<1>14. ASSUME NEW j \in Ids, agent'[j] # 0 PROVE j = i \/ agent[j] # 0
  BY <1>11, <1>14
<1>15. Alone(i)' => chain[agent'[i]] = NoChain /\ forked[agent'[i]] = {}
  <2>. SUFFICES ASSUME Alone(i)' PROVE chain[proc[p].key] = NoChain /\ forked[proc[p].key] = {}
    BY <1>11
  <2>1. \A j \in Ids : agent[j] # proc[p].key
    BY <1>3, <1>4, <1>11 DEF Alone
  <2>. QED BY <1>4, <2>1 DEF TurnInv, ChainsInv
<1>16. ChainsInv'
  <2>1. ASSUME NEW j \in Durable', Alone(j)' PROVE AloneInv(j)'
    <3>1. CASE j = i
      <4>1. chain'[agent'[i]] = NoChain
        BY <1>2, <1>15, <2>1, <3>1
      <4>. QED BY <1>8, <1>9, <1>10, <3>1, <4>1 DEF AloneInv, NoChain
    <3>2. CASE j # i
      <4>1. j \in Durable /\ j \in Ids /\ agent[j] # 0 /\ disk'[j] = disk[j] /\ agent'[j] = agent[j]
        BY <1>10, <1>11, <3>2, RowFacts
      <4>2. AloneInv(j)
        BY <1>13, <2>1, <3>2, <4>1 DEF TurnInv, ChainsInv
      <4>. QED BY <1>2, <4>1, <4>2 DEF AloneInv
    <3>. QED BY <3>1, <3>2
  <2>2. ASSUME NEW k \in Ids, \A j \in Ids : agent'[j] # k PROVE chain'[k] = NoChain /\ forked'[k] = {}
    <3>1. \A j \in Ids : agent[j] # k
      BY <1>3, <1>11, <2>2, BoundsAssumption DEF Ids
    <3>. QED BY <1>2, <3>1 DEF TurnInv, ChainsInv
  <2>3. ASSUME NEW j \in Installed', Alone(j)' PROVE "answered" \notin forked'[agent'[j]]
    <3>1. CASE j = i
      BY <1>2, <1>15, <2>3, <3>1
    <3>2. CASE j # i
      <4>1. j \in Installed /\ agent'[j] = agent[j] /\ j \in Ids /\ agent[j] # 0
        BY <1>11, <3>2 DEF Installed
      <4>. QED BY <1>2, <1>13, <2>3, <3>2, <4>1 DEF TurnInv, ChainsInv
    <3>. QED BY <3>1, <3>2
  <2>. QED BY <2>1, <2>2, <2>3 DEF ChainsInv
<1>17. KeysInv'
  <2>. SUFFICES ASSUME OwnKeys', sc.restarts = 0, "delkey" \notin sc.ops, NEW j \in Durable'
       PROVE  keys'[disk'[j].tag] = agent'[j]
    BY DEF KeysInv
  <2>1. CASE j = i
    BY <1>2, <1>3, <1>9, <1>10, <1>11, <2>1
  <2>2. CASE j # i
    <3>1. OwnKeys
      <4>. SUFFICES ASSUME NEW l \in Installed PROVE Alone(l)
        BY DEF OwnKeys
      <4>1. l \in Ids /\ agent[l] # 0 /\ l # i /\ l \in Installed'
        BY <1>3, <1>11 DEF Installed
      <4>. QED BY <1>13, <4>1 DEF OwnKeys
    <3>2. j \in Durable /\ disk'[j] = disk[j] /\ agent'[j] = agent[j]
      BY <1>10, <1>11, <2>2
    <3>3. ~Uninstalling(j)
      BY <1>2 DEF Uninstalling, At, Idle
    <3>. QED BY <1>2, <3>1, <3>2, <3>3 DEF TurnInv, KeysInv
  <2>. QED BY <2>1, <2>2
<1>. QED BY <1>12, <1>16, <1>17 DEF TurnInv, HandlersInv

(* The row of the handler's context is deleted.                            *)
LEMMA DropStep ==
  ASSUME TypeOK, CacheInv, TurnInv, UNCHANGED sc, NEW p \in Procs, DeleteRow(p), \A q \in Procs \ {p} : proc[q] = Idle
  PROVE  TurnInv'
<1>1. At(p, "drop") /\ Uses(proc[p]) /\ ~At(p, "uncache") /\ proc[p] \in Handlers
      /\ UNCHANGED <<agent, keys, chain, forked>> /\ disk' = [disk EXCEPT ![Id(p)] = Nil]
  BY DEF DeleteRow, At, Uses, worker, TypeOK
<1>2. PICK r : r = [proc[p] EXCEPT !.pc = "uncache", !.domain = IF Id(p) \in cached THEN obj[Id(p)].domain ELSE Nil]
  OBVIOUS
<1>3. proc' = [proc EXCEPT ![p] = r] /\ r.pc = "uncache"
  BY <1>1, <1>2 DEF DeleteRow, Handlers
<1>4. PICK i \in Durable : i = Id(p)
  BY <1>1, OwnRow
<1>5. Durable' = Durable \ {i} /\ \A j \in Durable' : disk'[j] = disk[j]
  BY <1>1, <1>4 DEF Durable, TypeOK
<1>6. HandlersInv'
  <2>1. proc'[p].pc = "uncache"
    BY <1>3 DEF TypeOK
  <2>2. TurnHandlerInv(proc[p])'
    BY <2>1 DEF TurnHandlerInv, Uses
  <2>. QED BY <1>3, <2>2, NextHandler
<1>7. ChainsInv'
  BY <1>1, <1>5 DEF TurnInv, ChainsInv, AloneInv, Alone, Installed
<1>8. KeysInv'
  <2>. SUFFICES ASSUME OwnKeys, sc.restarts = 0, "delkey" \notin sc.ops, NEW j \in Durable'
       PROVE  keys'[disk'[j].tag] = agent'[j]
    BY <1>1 DEF KeysInv, OwnKeys, Installed, Alone
  <2>1. j \in Durable /\ j # i /\ disk'[j] = disk[j]
    BY <1>5
  <2>2. ~Uninstalling(j)
    BY <1>4, <2>1 DEF Uninstalling, At, Idle
  <2>. QED BY <1>1, <2>1, <2>2 DEF TurnInv, KeysInv
<1>. QED BY <1>6, <1>7, <1>8 DEF TurnInv, HandlersInv

(* An uninstallation deletes the key under its context's tag: as long as   *)
(* all keys are their contexts' own, no other context has that tag.        *)
LEMMA UnkeyStep ==
  ASSUME TypeOK, CacheInv, TurnInv, UNCHANGED sc, NEW p \in Procs, DeleteKey(p), \A q \in Procs \ {p} : proc[q] = Idle
  PROVE  TurnInv'
<1>1. At(p, "unkey") /\ proc[p].pc = "unkey" /\ Uses(proc[p]) /\ ~At(p, "uncache") /\ proc[p] \in Handlers
      /\ UNCHANGED <<disk, agent, chain, forked>> /\ proc[p].op = "uninstall"
      /\ (keys' = [keys EXCEPT ![obj[Id(p)].tag] = 0] \/ (sc.lairFails /\ keys' = keys))
      /\ proc' = [proc EXCEPT ![p].pc = "drop"]
  BY DEF DeleteKey, Goto, At, Uses, contexts, worker, TypeOK, TurnInv, TurnHandlerInv
<1>2. PICK i \in Durable : i = Id(p) /\ obj[i] = disk[i]
  BY <1>1, OwnRow
<1>3. disk[i].tag \in Tags
  BY RowFacts
<1>4. (keys'[disk[i].tag] = 0 \/ sc.lairFails) /\ \A t \in Tags : t # disk[i].tag => keys'[t] = keys[t]
  BY <1>1, <1>2, <1>3 DEF TypeOK
<1>5. PICK r : r = [proc[p] EXCEPT !.pc = "drop"]
  OBVIOUS
<1>6. proc' = [proc EXCEPT ![p] = r] /\ r.pc = "drop" /\ r.id = i /\ r.op = "uninstall" /\ proc'[p] = r
  BY <1>1, <1>2, <1>5 DEF Handlers, Id, TypeOK
<1>7. HandlersInv'
  <2>1. TurnHandlerInv(proc[p])'
    BY <1>1, <1>2, <1>4, <1>6 DEF TurnHandlerInv, Uses, Durable
  <2>. QED BY <1>6, <2>1, NextHandler
<1>8. ChainsInv'
  BY <1>1, ChainsKept DEF TurnInv
<1>9. KeysInv'
  <2>. SUFFICES ASSUME OwnKeys, sc.restarts = 0, "delkey" \notin sc.ops, NEW j \in Durable
       PROVE  keys'[disk[j].tag] = agent[j] \/ Uninstalling(j)'
    BY <1>1 DEF KeysInv, OwnKeys, Installed, Alone, Durable
  <2>1. CASE j = i
    BY <1>6, <2>1 DEF Uninstalling, At, Id
  <2>2. CASE j # i
    <3>1. \A l : ~Uninstalling(l)
      BY <1>1 DEF Uninstalling, At, Idle
    <3>2. keys[disk[j].tag] = agent[j] /\ keys[disk[i].tag] = agent[i]
      BY <3>1 DEF TurnInv, KeysInv
    <3>3. agent[j] # agent[i]
      BY <2>2, RowFacts DEF OwnKeys, Alone
    <3>4. disk[j].tag \in Tags /\ disk[j].tag # disk[i].tag
      BY <3>2, <3>3, RowFacts
    <3>. QED BY <1>4, <3>2, <3>4
  <2>. QED BY <2>1, <2>2
<1>. QED BY <1>7, <1>8, <1>9 DEF TurnInv, HandlersInv

(* The service worker stops in turn.                                       *)
LEMMA StopStep ==
  ASSUME TypeOK, CacheInv, TurnInv, UNCHANGED sc, Restart
  PROVE  TurnInv'
<1>1. /\ UNCHANGED <<disk, agent, keys, chain, forked>> /\ restarts < sc.restarts
      /\ \A p \in Procs : proc'[p] = Idle
  BY DEF Restart, worker
<1>2. Idle.pc = "idle"
  BY DEF Idle
<1>3. HandlersInv'
  BY <1>1, <1>2 DEF HandlersInv, TurnHandlerInv, Uses
<1>4. ChainsInv'
  BY <1>1, ChainsKept DEF TurnInv
<1>5. sc.restarts # 0
  BY <1>1 DEF TypeOK
<1>6. KeysInv'
  BY <1>5 DEF KeysInv
<1>. QED BY <1>3, <1>4, <1>6 DEF TurnInv, HandlersInv

(* Every step of a handler keeps it.                                       *)
LEMMA TurnStep ==
  ASSUME TypeOK, CacheInv, InTurn, TurnInv, UNCHANGED sc, NEW p \in Procs, Handling(p)
  PROVE  TurnInv'
<1>1. \A q \in Procs \ {p} : proc[q] = Idle
  BY OneHandler
<1>2. proc[p] \in Handlers /\ TurnHandlerInv(proc[p]) /\ HandlerInv(proc[p])
  BY DEF TypeOK, TurnInv, CacheInv
<1>3. Idle.pc = "idle"
  BY DEF Idle
<1>4. ASSUME NEW op, NEW r, Handler(p, op, r)
      PROVE  /\ proc' = [proc EXCEPT ![p] = [r EXCEPT !.op = op]] /\ proc[p] = Idle /\ Quiet /\ op \in sc.ops
             /\ cached = Durable /\ \A i \in Durable : obj[i] = disk[i] /\ ByDomain(disk[i].domain) = {i}
  <2>1. Quiet
    BY <1>4 DEF Handler, Request, InTurn
  <2>. QED BY <1>4, <2>1, QuietAgrees DEF AllCachesAgree, Handler, Request
<1>5. ASSUME NEW op, NEW pc, NEW i \in Durable, Handler(p, op, [Idle EXCEPT !.pc = pc, !.id = i]),
             UNCHANGED <<contexts, agent, keys, worker, made>>,
             \/ pc = "genesis" /\ disk[i].status = "awaiting"
             \/ pc = "validate" /\ op = "call"
             \/ pc = "exec" /\ op = "call" /\ disk[i].status = "enabled"
             \/ pc = "exec" /\ op = "signal"
             \/ pc = "recover" /\ disk[i].sealed # "sealed"
             \/ pc = "unkey" /\ op = "uninstall"
      PROVE  TurnInv'
  <2>. DEFINE r == [[Idle EXCEPT !.pc = pc, !.id = i] EXCEPT !.op = op]
  <2>1. r.pc = pc /\ r.id = i /\ r.op = op
    BY DEF Idle
  <2>2. proc' = [proc EXCEPT ![p] = r] /\ proc[p] = Idle /\ op \in sc.ops
    BY <1>4, <1>5
  <2>. HIDE DEF r
  <2>3. proc[p].pc = "idle" /\ UNCHANGED <<disk, agent, keys, chain, forked>>
    BY <1>3, <1>5, <2>2 DEF contexts, worker
  <2>4. proc'[p] = r
    BY <2>2 DEF TypeOK
  <2>5. TurnHandlerInv(proc[p])'
    BY <1>5, <2>1, <2>2, <2>3, <2>4 DEF TurnHandlerInv, Durable, Uses
  <2>. QED BY <1>1, <2>2, <2>3, <2>5, TurnGoesOn
<1>6. ASSUME proc' = [proc EXCEPT ![p] = Idle], UNCHANGED <<disk, agent, chain, forked>>, proc[p].pc # "drop",
             \A t \in Tags : keys[t] # 0 => keys'[t] = keys[t]
      PROVE  TurnInv'
  BY <1>1, <1>6, TurnGoesOn
<1>7. ASSUME NEW pc, Goto(p, pc)
      PROVE  \E r : proc' = [proc EXCEPT ![p] = r] /\ r.pc = pc /\ r.id = Id(p) /\ r.op = proc[p].op /\ proc'[p] = r
  <2>. DEFINE r == [proc[p] EXCEPT !.pc = pc]
  <2>1. proc' = [proc EXCEPT ![p] = r] /\ proc'[p] = r
    BY <1>7 DEF Goto, TypeOK
  <2>2. r.pc = pc /\ r.id = Id(p) /\ r.op = proc[p].op
    BY <1>2 DEF Handlers, Id
  <2>. HIDE DEF r
  <2>. QED BY <2>1, <2>2
<1>8. ASSUME NEW i \in Durable, NEW c \in Contexts, Put(i, c), c.domain = disk[i].domain, c.tag = disk[i].tag,
             Done(p), UNCHANGED <<agent, keys, forked>>, proc[p].pc # "drop",
             NEW x, chain' = [chain EXCEPT ![agent[i]] = x],
             AloneInv(i) =>
               /\ c.deferred /\ "signal" \notin sc.ops =>
                    x.founded # "none" /\ (c.status # "awaiting" => x.founded # "no")
               /\ x.recovered = "reported" => c.sealed # "undefined"
               /\ "answered" \in x.since => c.sealed = "sealed"
      PROVE  TurnInv'
  <2>1. proc' = [proc EXCEPT ![p] = Idle] /\ agent[i] \in Ids /\ i \in Ids /\ i \in Installed
    BY <1>8, RowFacts DEF Done
  <2>2. ~Refused(i, c.domain)
    BY <1>8, RowFacts DEF Refused
  <2>3. disk' = [disk EXCEPT ![i] = c] /\ disk'[i] = c
    BY <1>8, <2>1, <2>2 DEF Put, TypeOK
  <2>4. chain'[agent'[i]] = x
    BY <1>8, <2>1 DEF TypeOK
  <2>5. AloneInv(i) => AloneInv(i)'
    BY <1>8, <2>3, <2>4 DEF AloneInv
  <2>6. Alone(i) => "answered" \notin forked[agent[i]]
    BY <2>1 DEF TurnInv, ChainsInv
  <2>7. forked' = [forked EXCEPT ![agent[i]] = forked[agent[i]]]
    BY <1>8, <2>1 DEF TypeOK
  <2>. QED BY <1>1, <1>8, <2>1, <2>3, <2>5, <2>6, <2>7, TurnChange
<1>9. ASSUME Uses(proc[p]), ~At(p, "uncache"), ~At(p, "drop"), UNCHANGED <<disk, agent, keys>>,
             NEW r, proc' = [proc EXCEPT ![p] = r], r = Idle \/ TurnHandlerInv(proc[p])',
             NEW x, chain' = [chain EXCEPT ![Key(p)] = x], NEW y, forked' = [forked EXCEPT ![Key(p)] = y],
             Alone(Id(p)) => "answered" \notin y,
             Alone(Id(p)) /\ AloneInv(Id(p)) =>
               /\ disk[Id(p)].deferred /\ "signal" \notin sc.ops =>
                    x.founded # "none" /\ (disk[Id(p)].status # "awaiting" => x.founded # "no")
               /\ x.recovered = "reported" => disk[Id(p)].sealed # "undefined"
               /\ "answered" \in x.since => disk[Id(p)].sealed = "sealed"
      PROVE  TurnInv'
  <2>1. Id(p) \in Durable /\ Key(p) = agent[Id(p)] /\ Key(p) \in Ids /\ disk[Id(p)] \in Contexts
    BY <1>9, OwnRow
  <2>2. PICK i \in Durable : i = Id(p)
    BY <2>1
  <2>3. disk' = [disk EXCEPT ![i] = disk[i]]
    BY <1>9 DEF TypeOK
  <2>4. chain'[agent'[i]] = x
    BY <1>9, <2>1, <2>2 DEF TypeOK
  <2>5. Alone(i) /\ AloneInv(i) => AloneInv(i)'
    BY <1>9, <2>2, <2>4 DEF AloneInv
  <2>6. proc[p].pc # "drop"
    BY <1>9 DEF At
  <2>. QED BY <1>1, <1>9, <2>1, <2>2, <2>3, <2>5, <2>6, TurnChange
<1>10. ASSUME Uses(proc[p]), ~At(p, "uncache")
       PROVE  /\ Id(p) \in Durable /\ Id(p) \in cached /\ obj[Id(p)] = disk[Id(p)] /\ Key(p) = agent[Id(p)]
              /\ disk[Id(p)] \in Contexts /\ Key(p) \in Ids /\ Id(p) \in Installed
  BY <1>10, OwnRow, RowFacts
<1>11. CASE StartInstall(p)
  <2>1. PICK d, t, deferred, proofs :
          /\ ByDomain(d) = {}
          /\ Handler(p, "install", [Idle EXCEPT !.pc = "key", !.domain = d, !.tag = t, !.deferred = deferred, !.proofs = proofs])
    BY <1>11, Zenon DEF StartInstall
  <2>. DEFINE r == [[Idle EXCEPT !.pc = "key", !.domain = d, !.tag = t, !.deferred = deferred, !.proofs = proofs] EXCEPT !.op = "install"]
  <2>2. r.pc = "key" /\ r.domain = d
    BY DEF Idle
  <2>3. proc' = [proc EXCEPT ![p] = r] /\ proc[p] = Idle /\ \A i \in Durable : disk[i].domain # d
    BY <1>4, <2>1
  <2>. HIDE DEF r
  <2>4. UNCHANGED <<disk, agent, keys, chain, forked>> /\ proc[p].pc = "idle" /\ proc'[p] = r
    BY <1>3, <1>11, <2>3 DEF StartInstall, contexts, worker, TypeOK
  <2>5. TurnHandlerInv(proc[p])'
    BY <2>2, <2>3, <2>4 DEF TurnHandlerInv, Durable, Uses
  <2>. QED BY <1>1, <2>3, <2>4, <2>5, TurnGoesOn
<1>12. CASE MakeKey(p)
  <2>. DEFINE t == proc[p].tag
              r == [proc[p] EXCEPT !.pc = "store", !.id = made + 1, !.key = keys'[t]]
  <2>1. proc[p].pc = "key" /\ proc[p].pc # "drop" /\ UNCHANGED <<disk, agent, chain, forked>> /\ t \in Tags
        /\ \A i \in Durable : disk[i].domain # proc[p].domain
    BY <1>2, <1>12 DEF MakeKey, contexts, worker, At, HandlerInv, TurnHandlerInv
  <2>2. keys' = keys \/ keys' = [keys EXCEPT ![t] = IF @ = 0 THEN made + 1 ELSE @]
    BY <1>12, Zenon DEF MakeKey
  <2>3. proc' = [proc EXCEPT ![p] = Idle] \/ proc' = [proc EXCEPT ![p] = r]
    BY <1>12, Zenon DEF MakeKey, Done
  <2>4. r.pc = "store" /\ r.domain = proc[p].domain /\ r.tag = t /\ r.key = keys'[t]
    BY <1>2 DEF Handlers
  <2>. HIDE DEF r, t
  <2>5. \A u \in Tags : keys[u] # 0 => keys'[u] = keys[u]
    BY <2>1, <2>2 DEF TypeOK
  <2>6. CASE proc' = [proc EXCEPT ![p] = r]
    <3>1. proc'[p] = r
      BY <2>6 DEF TypeOK
    <3>2. TurnHandlerInv(proc[p])'
      BY <2>1, <2>4, <3>1 DEF TurnHandlerInv, Durable, Uses
    <3>. QED BY <1>1, <2>1, <2>5, <2>6, <3>2, TurnGoesOn
  <2>. QED BY <1>6, <2>1, <2>3, <2>5, <2>6
<1>13. CASE StoreContext(p)
  BY <1>1, <1>13, StoreStep
<1>14. CASE NewKey(p)
  <2>1. proc[p] = Idle /\ proc' = proc /\ UNCHANGED <<disk, agent, chain, forked>>
        /\ \E t \in Tags : keys[t] = 0 /\ keys' = [keys EXCEPT ![t] = made + 1]
    BY <1>14, Zenon DEF NewKey, contexts, worker
  <2>2. \A t \in Tags : keys[t] # 0 => keys'[t] = keys[t]
    BY <2>1 DEF TypeOK
  <2>3. proc' = [proc EXCEPT ![p] = Idle] /\ proc[p].pc # "drop"
    BY <1>3, <2>1 DEF TypeOK
  <2>. QED BY <1>6, <2>1, <2>2, <2>3
<1>15. CASE DeleteEntry(p)
  <2>1. proc[p] = Idle /\ proc' = proc /\ UNCHANGED <<disk, agent, chain, forked>> /\ "delkey" \in sc.ops
    BY <1>15, Zenon DEF DeleteEntry, Request, contexts, worker
  <2>2. proc' = [proc EXCEPT ![p] = Idle]
    BY <2>1 DEF TypeOK
  <2>3. HandlersInv'
    BY <1>1, <2>2, NextHandler
  <2>4. ChainsInv'
    BY <2>1, ChainsKept DEF TurnInv
  <2>5. KeysInv'
    BY <2>1 DEF KeysInv
  <2>. QED BY <2>3, <2>4, <2>5 DEF TurnInv, HandlersInv
<1>16. CASE StartProvide(p)
  <2>1. PICK i \in cached : obj[i].status = "awaiting" /\ Handler(p, "provide", [Idle EXCEPT !.pc = "genesis", !.id = i])
    BY <1>16, Zenon DEF StartProvide
  <2>2. i \in Durable /\ disk[i].status = "awaiting"
    BY <1>4, <2>1
  <2>. QED BY <1>5, <1>16, <2>1, <2>2 DEF StartProvide
<1>17. CASE Genesis(p)
  <2>1. At(p, "genesis") /\ Uses(proc[p]) /\ ~At(p, "uncache") /\ ~At(p, "drop") /\ proc[p].pc # "drop"
        /\ UNCHANGED <<disk, agent, keys, forked>>
    BY <1>17 DEF Genesis, At, Uses, contexts
  <2>2. CASE Done(p) /\ UNCHANGED chain
    BY <1>6, <2>1, <2>2 DEF Done
  <2>. DEFINE ch == chain[Key(p)]
              x == [ch EXCEPT !.founded = IF ch.founded = "no" THEN "proof" ELSE ch.founded]
  <2>3. CASE chain' = [chain EXCEPT ![Key(p)].founded = IF @ = "no" THEN "proof" ELSE @] /\ (Goto(p, "complete") \/ Done(p))
    <3>1. Key(p) \in Ids /\ Id(p) \in Durable /\ Key(p) = agent[Id(p)] /\ disk[Id(p)].status = "awaiting"
      BY <1>2, <1>10, <2>1 DEF TurnHandlerInv, At, Id
    <3>2. chain' = [chain EXCEPT ![Key(p)] = x]
      BY <2>3, Zenon
    <3>3. x.founded # "no" /\ (ch.founded # "none" => x.founded # "none") /\ x.recovered = ch.recovered /\ x.since = ch.since
      BY <3>1 DEF TypeOK
    <3>. HIDE DEF x
    <3>4. \E r : proc' = [proc EXCEPT ![p] = r] /\ (r = Idle \/ (r.pc = "complete" /\ r.id = Id(p) /\ proc'[p] = r))
      BY <1>7, <2>3 DEF Done
    <3>5. PICK r : proc' = [proc EXCEPT ![p] = r] /\ (r = Idle \/ (r.pc = "complete" /\ r.id = Id(p) /\ proc'[p] = r))
      BY <3>4
    <3>6. chain'[Key(p)] = x
      BY <3>1, <3>2 DEF TypeOK
    <3>7. r # Idle => TurnHandlerInv(proc[p])'
      BY <2>1, <3>1, <3>3, <3>5, <3>6 DEF TurnHandlerInv, Durable, Uses
    <3>8. Alone(Id(p)) => "answered" \notin forked[Key(p)]
      BY <1>10, <2>1 DEF TurnInv, ChainsInv
    <3>9. forked' = [forked EXCEPT ![Key(p)] = forked[Key(p)]]
      BY <2>1 DEF TypeOK
    <3>10. Alone(Id(p)) /\ AloneInv(Id(p)) =>
             /\ disk[Id(p)].deferred /\ "signal" \notin sc.ops =>
                  x.founded # "none" /\ (disk[Id(p)].status # "awaiting" => x.founded # "no")
             /\ x.recovered = "reported" => disk[Id(p)].sealed # "undefined"
             /\ "answered" \in x.since => disk[Id(p)].sealed = "sealed"
      BY <3>1, <3>3 DEF AloneInv
    <3>. QED BY <1>9, <2>1, <3>2, <3>5, <3>7, <3>8, <3>9, <3>10
  <2>. QED BY <1>17, <2>2, <2>3, Zenon DEF Genesis
<1>18. CASE CompleteMemproofs(p)
  <2>1. At(p, "complete") /\ Uses(proc[p]) /\ ~At(p, "uncache") /\ proc[p].pc # "drop"
        /\ UNCHANGED <<agent, keys, chain, forked>> /\ Done(p)
    BY <1>18 DEF CompleteMemproofs, At, Uses, worker
  <2>2. PICK i \in Durable : i = Id(p)
    BY <1>10, <2>1
  <2>3. obj[i] = disk[i] /\ disk[i] \in Contexts /\ agent[i] \in Ids /\ chain[agent[i]].founded # "no"
    BY <1>2, <1>10, <2>1, <2>2 DEF TurnHandlerInv, At, Id
  <2>4. PICK c : c = [obj[i] EXCEPT !.status = "enabled"]
    OBVIOUS
  <2>5. Put(i, c)
    BY <1>10, <1>18, <2>1, <2>2, <2>4 DEF CompleteMemproofs
  <2>6. c \in Contexts /\ c.domain = disk[i].domain /\ c.tag = disk[i].tag /\ c.deferred = disk[i].deferred
        /\ c.sealed = disk[i].sealed
    BY <2>3, <2>4 DEF Contexts
  <2>7. PICK x : x = chain[agent[i]]
    OBVIOUS
  <2>8. chain' = [chain EXCEPT ![agent[i]] = x]
    BY <2>1, <2>7 DEF TypeOK
  <2>9. AloneInv(i) =>
          /\ c.deferred /\ "signal" \notin sc.ops =>
               x.founded # "none" /\ (c.status # "awaiting" => x.founded # "no")
          /\ x.recovered = "reported" => c.sealed # "undefined"
          /\ "answered" \in x.since => c.sealed = "sealed"
    BY <2>3, <2>6, <2>7 DEF AloneInv
  <2>. QED BY <1>8, <2>1, <2>5, <2>6, <2>8, <2>9
<1>19. CASE StartCall(p)
  <2>1. CASE \E i \in cached : obj[i].status = "enabled" /\ Handler(p, "call", [Idle EXCEPT !.pc = "exec", !.id = i])
    <3>1. PICK i \in cached : obj[i].status = "enabled" /\ Handler(p, "call", [Idle EXCEPT !.pc = "exec", !.id = i])
      BY <2>1
    <3>2. i \in Durable /\ disk[i].status = "enabled"
      BY <1>4, <3>1
    <3>. QED BY <1>5, <1>19, <3>1, <3>2 DEF StartCall
  <2>2. CASE \E d \in Domains : \E i \in ByDomain(d) : Handler(p, "call", [Idle EXCEPT !.pc = "validate", !.id = i])
    <3>1. PICK d, i : i \in ByDomain(d) /\ Handler(p, "call", [Idle EXCEPT !.pc = "validate", !.id = i])
      BY <2>2
    <3>2. i \in Durable
      BY <1>4, <3>1 DEF ByDomain
    <3>. QED BY <1>5, <1>19, <3>1, <3>2 DEF StartCall
  <2>. QED BY <1>19, <2>1, <2>2, Zenon DEF StartCall
<1>20. CASE Validate(p)
  <2>1. At(p, "validate") /\ Uses(proc[p]) /\ ~At(p, "uncache") /\ proc[p].pc # "drop" /\ UNCHANGED <<disk, agent, keys, chain, forked>>
    BY <1>20 DEF Validate, At, Uses, contexts, worker
  <2>2. Id(p) \in Durable /\ obj[Id(p)] = disk[Id(p)] /\ proc[p].op = "call"
    BY <1>2, <1>10, <2>1 DEF TurnHandlerInv, At
  <2>3. ASSUME NEW pc, Goto(p, pc),
               \/ pc = "drop" /\ (sc.lairFails \/ keys[disk[Id(p)].tag] = 0)
               \/ pc = "exec" /\ disk[Id(p)].status = "enabled"
        PROVE  TurnInv'
    <3>1. PICK r : proc' = [proc EXCEPT ![p] = r] /\ r.pc = pc /\ r.id = Id(p) /\ r.op = proc[p].op /\ proc'[p] = r
      BY <1>7, <2>3
    <3>2. TurnHandlerInv(proc[p])'
      BY <2>1, <2>2, <2>3, <3>1 DEF TurnHandlerInv, Durable, Uses
    <3>. QED BY <1>1, <2>1, <3>1, <3>2, TurnGoesOn
  <2>4. CASE Done(p)
    BY <1>6, <2>1, <2>4 DEF Done
  <2>. QED BY <1>20, <2>2, <2>3, <2>4 DEF Validate
<1>21. CASE StartSignal(p)
  <2>1. PICK i \in cached : Handler(p, "signal", [Idle EXCEPT !.pc = "exec", !.id = i])
    BY <1>21, Zenon DEF StartSignal
  <2>2. i \in Durable
    BY <1>4, <2>1
  <2>. QED BY <1>5, <1>21, <2>1, <2>2 DEF StartSignal
<1>22. CASE Exec(p)
  <2>1. At(p, "exec") /\ Uses(proc[p]) /\ ~At(p, "uncache") /\ ~At(p, "drop") /\ proc[p].pc # "drop"
        /\ UNCHANGED <<disk, agent, keys, forked>>
    BY <1>22 DEF Exec, At, Uses, contexts
  <2>2. CASE Done(p) /\ UNCHANGED chain
    BY <1>6, <2>1, <2>2 DEF Done
  <2>. DEFINE ch == chain[Key(p)]
              x == [ch EXCEPT !.founded = IF ch.founded = "no" THEN "none" ELSE ch.founded,
                              !.since = IF chain[Key(p)].recovered = "no" THEN ch.since ELSE ch.since \cup {"unanswered"}]
  <2>3. CASE /\ chain' = [chain EXCEPT ![Key(p)].founded = IF @ = "no" THEN "none" ELSE @,
                                       ![Key(p)].since = IF chain[Key(p)].recovered = "no" THEN @ ELSE @ \cup {"unanswered"}]
             /\ Done(p) \/ (proc[p].op = "call" /\ Goto(p, "seal"))
    <3>1. Key(p) \in Ids /\ Id(p) \in Durable /\ Key(p) = agent[Id(p)]
          /\ (disk[Id(p)].status # "awaiting" \/ "signal" \in sc.ops)
      BY <1>2, <1>10, <2>1 DEF TurnHandlerInv, At, Id
    <3>2. chain' = [chain EXCEPT ![Key(p)] = x]
      BY <2>3, <3>1 DEF TypeOK
    <3>3. (ch.founded # "no" => x.founded = ch.founded) /\ x.recovered = ch.recovered
          /\ ("answered" \in x.since => "answered" \in ch.since)
      BY <3>1 DEF TypeOK
    <3>. HIDE DEF x
    <3>4. \E r : proc' = [proc EXCEPT ![p] = r]
                 /\ (r = Idle \/ (r.pc = "seal" /\ r.id = Id(p) /\ r.op = "call" /\ proc'[p] = r))
      BY <1>7, <2>3 DEF Done
    <3>5. PICK r : proc' = [proc EXCEPT ![p] = r]
                   /\ (r = Idle \/ (r.pc = "seal" /\ r.id = Id(p) /\ r.op = "call" /\ proc'[p] = r))
      BY <3>4
    <3>6. r # Idle => TurnHandlerInv(proc[p])'
      BY <2>1, <3>1, <3>5 DEF TurnHandlerInv, Durable, Uses
    <3>7. Alone(Id(p)) => "answered" \notin forked[Key(p)]
      BY <1>10, <2>1 DEF TurnInv, ChainsInv
    <3>8. forked' = [forked EXCEPT ![Key(p)] = forked[Key(p)]]
      BY <2>1 DEF TypeOK
    <3>9. Alone(Id(p)) /\ AloneInv(Id(p)) =>
            /\ disk[Id(p)].deferred /\ "signal" \notin sc.ops =>
                 x.founded # "none" /\ (disk[Id(p)].status # "awaiting" => x.founded # "no")
            /\ x.recovered = "reported" => disk[Id(p)].sealed # "undefined"
            /\ "answered" \in x.since => disk[Id(p)].sealed = "sealed"
      BY <3>1, <3>3 DEF AloneInv
    <3>. QED BY <1>9, <2>1, <3>2, <3>5, <3>6, <3>7, <3>8, <3>9
  <2>. QED BY <1>22, <2>2, <2>3, Zenon DEF Exec
<1>23. CASE Seal(p)
  <2>1. At(p, "seal") /\ Uses(proc[p]) /\ ~At(p, "uncache") /\ ~At(p, "drop") /\ proc[p].pc # "drop"
        /\ UNCHANGED <<agent, keys, forked>> /\ Done(p) /\ proc' = [proc EXCEPT ![p] = Idle]
    BY <1>23 DEF Seal, At, Uses, Done
  <2>. DEFINE ch == chain[Key(p)]
              x == [ch EXCEPT !.since = IF ch.recovered = "reported" THEN ch.since \cup {"answered"} ELSE ch.since]
  <2>2. PICK i \in Durable : i = Id(p) /\ i \in cached /\ obj[i] = disk[i] /\ disk[i] \in Contexts /\ agent[i] = Key(p)
    BY <1>10, <2>1
  <2>3. chain' = [chain EXCEPT ![Key(p)] = x] /\ Key(p) \in Ids
    BY <1>10, <1>23, <2>1, Zenon DEF Seal
  <2>4. x.founded = ch.founded /\ x.recovered = ch.recovered
        /\ ("answered" \in x.since => "answered" \in ch.since \/ ch.recovered = "reported")
    BY <2>3 DEF TypeOK
  <2>. HIDE DEF x
  <2>5. CASE obj[i].sealed = "open"
    <3>1. PICK c : c = [obj[i] EXCEPT !.sealed = "sealed"]
      OBVIOUS
    <3>2. Put(i, c)
      BY <1>23, <2>2, <2>5, <3>1 DEF Seal
    <3>3. c \in Contexts /\ c.domain = disk[i].domain /\ c.tag = disk[i].tag /\ c.deferred = disk[i].deferred
          /\ c.status = disk[i].status /\ c.sealed = "sealed"
      BY <2>2, <3>1 DEF Contexts
    <3>4. AloneInv(i) =>
            /\ c.deferred /\ "signal" \notin sc.ops =>
                 x.founded # "none" /\ (c.status # "awaiting" => x.founded # "no")
            /\ x.recovered = "reported" => c.sealed # "undefined"
            /\ "answered" \in x.since => c.sealed = "sealed"
      BY <2>2, <2>4, <3>3 DEF AloneInv
    <3>. QED BY <1>8, <2>1, <2>2, <2>3, <3>2, <3>3, <3>4
  <2>6. CASE obj[i].sealed # "open"
    <3>1. UNCHANGED <<disk, agent, keys>>
      BY <1>23, <2>1, <2>2, <2>6 DEF Seal, contexts
    <3>2. Alone(i) => "answered" \notin forked[Key(p)]
      BY <1>10, <2>1, <2>2 DEF TurnInv, ChainsInv
    <3>3. forked' = [forked EXCEPT ![Key(p)] = forked[Key(p)]]
      BY <2>1 DEF TypeOK
    <3>4. Alone(i) /\ AloneInv(i) =>
            /\ disk[i].deferred /\ "signal" \notin sc.ops =>
                 x.founded # "none" /\ (disk[i].status # "awaiting" => x.founded # "no")
            /\ x.recovered = "reported" => disk[i].sealed # "undefined"
            /\ "answered" \in x.since => disk[i].sealed = "sealed"
      BY <2>2, <2>4, <2>6 DEF AloneInv, Contexts
    <3>. QED BY <1>9, <2>1, <2>2, <2>3, <3>1, <3>2, <3>3, <3>4
  <2>. QED BY <2>5, <2>6
<1>24. CASE StartRecover(p)
  <2>1. PICK i \in cached : obj[i].sealed # "sealed" /\ Handler(p, "recover", [Idle EXCEPT !.pc = "recover", !.id = i])
    BY <1>24, Zenon DEF StartRecover
  <2>2. i \in Durable /\ disk[i].sealed # "sealed"
    BY <1>4, <2>1
  <2>. QED BY <1>5, <1>24, <2>1, <2>2 DEF StartRecover
<1>25. CASE RecoverChain(p)
  <2>1. At(p, "recover") /\ Uses(proc[p]) /\ ~At(p, "uncache") /\ ~At(p, "drop") /\ proc[p].pc # "drop"
        /\ UNCHANGED <<disk, agent, keys>> /\ (Goto(p, "mark") \/ Done(p))
    BY <1>25 DEF RecoverChain, At, Uses, contexts
  <2>2. Id(p) \in Durable /\ Key(p) = agent[Id(p)] /\ Key(p) \in Ids /\ disk[Id(p)].sealed # "sealed"
    BY <1>2, <1>10, <2>1 DEF TurnHandlerInv, At, Id
  <2>3. \E r : proc' = [proc EXCEPT ![p] = r] /\ (r = Idle \/ (r.pc = "mark" /\ r.id = Id(p) /\ proc'[p] = r))
    BY <1>7, <2>1 DEF Done
  <2>4. PICK r : proc' = [proc EXCEPT ![p] = r] /\ (r = Idle \/ (r.pc = "mark" /\ r.id = Id(p) /\ proc'[p] = r))
    BY <2>3
  <2>5. r # Idle => TurnHandlerInv(proc[p])'
    BY <2>1, <2>2, <2>4 DEF TurnHandlerInv, Durable, Uses
  <2>6. CASE UNCHANGED worker
    BY <1>1, <2>1, <2>4, <2>5, <2>6, TurnGoesOn DEF worker
  <2>. DEFINE ch == chain[Key(p)]
              y == forked[Key(p)] \cup ch.since
              x == [founded |-> IF ch.founded = "no" THEN "proof" ELSE ch.founded,
                    recovered |-> IF ch.recovered = "no" THEN "unreported" ELSE ch.recovered, since |-> {}]
  <2>7. CASE forked' = [forked EXCEPT ![Key(p)] = y] /\ chain' = [chain EXCEPT ![Key(p)] = x]
    <3>1. x.founded # "no" /\ (ch.founded # "none" => x.founded # "none")
          /\ (x.recovered = "reported" => ch.recovered = "reported") /\ x.since = {}
      OBVIOUS
    <3>2. Alone(Id(p)) => "answered" \notin y
      BY <1>10, <2>1, <2>2 DEF TurnInv, ChainsInv, AloneInv
    <3>. HIDE DEF x, y
    <3>3. Alone(Id(p)) /\ AloneInv(Id(p)) =>
            /\ disk[Id(p)].deferred /\ "signal" \notin sc.ops =>
                 x.founded # "none" /\ (disk[Id(p)].status # "awaiting" => x.founded # "no")
            /\ x.recovered = "reported" => disk[Id(p)].sealed # "undefined"
            /\ "answered" \in x.since => disk[Id(p)].sealed = "sealed"
      BY <2>2, <3>1 DEF AloneInv
    <3>. QED BY <1>9, <2>1, <2>4, <2>5, <2>7, <3>2, <3>3
  <2>8. UNCHANGED worker \/ (forked' = [forked EXCEPT ![Key(p)] = y] /\ chain' = [chain EXCEPT ![Key(p)] = x])
    BY <1>25, Zenon DEF RecoverChain
  <2>. QED BY <2>6, <2>7, <2>8
<1>26. CASE MarkRecoveryRun(p)
  <2>1. At(p, "mark") /\ Uses(proc[p]) /\ ~At(p, "uncache") /\ proc[p].pc # "drop"
        /\ UNCHANGED <<agent, keys, forked>> /\ Done(p) /\ Report(p)
    BY <1>26 DEF MarkRecoveryRun, At, Uses
  <2>. DEFINE ch == chain[Key(p)]
              x == [ch EXCEPT !.recovered = IF ch.recovered = "no" THEN ch.recovered ELSE "reported"]
  <2>2. PICK i \in Durable : i = Id(p) /\ i \in cached /\ obj[i] = disk[i] /\ disk[i] \in Contexts /\ agent[i] = Key(p)
    BY <1>10, <2>1
  <2>3. chain' = [chain EXCEPT ![agent[i]] = x] /\ Key(p) \in Ids
    BY <1>10, <2>1, <2>2, Zenon DEF Report
  <2>4. x.founded = ch.founded /\ x.since = ch.since
    BY <2>3 DEF TypeOK
  <2>. HIDE DEF x
  <2>5. disk[i].sealed # "sealed"
    BY <1>2, <2>1, <2>2 DEF TurnHandlerInv, At, Id
  <2>6. PICK c : c = [obj[i] EXCEPT !.sealed = "open"]
    OBVIOUS
  <2>7. Put(i, c)
    BY <1>26, <2>2, <2>5, <2>6 DEF MarkRecoveryRun
  <2>8. c \in Contexts /\ c.domain = disk[i].domain /\ c.tag = disk[i].tag /\ c.deferred = disk[i].deferred
        /\ c.status = disk[i].status /\ c.sealed = "open"
    BY <2>2, <2>6 DEF Contexts
  <2>9. AloneInv(i) =>
          /\ c.deferred /\ "signal" \notin sc.ops =>
               x.founded # "none" /\ (c.status # "awaiting" => x.founded # "no")
          /\ x.recovered = "reported" => c.sealed # "undefined"
          /\ "answered" \in x.since => c.sealed = "sealed"
    BY <2>2, <2>4, <2>5, <2>8 DEF AloneInv
  <2>. QED BY <1>8, <2>1, <2>3, <2>7, <2>8, <2>9
<1>27. CASE StartUninstall(p)
  <2>1. PICK i \in cached : Handler(p, "uninstall", [Idle EXCEPT !.pc = "unkey", !.id = i])
    BY <1>27, Zenon DEF StartUninstall
  <2>2. i \in Durable
    BY <1>4, <2>1
  <2>. QED BY <1>5, <1>27, <2>1, <2>2 DEF StartUninstall
<1>28. CASE DeleteKey(p)
  BY <1>1, <1>28, UnkeyStep
<1>29. CASE DeleteRow(p)
  BY <1>1, <1>29, DropStep
<1>30. CASE Uncache(p)
  <2>1. UNCHANGED <<disk, agent, keys, chain, forked>> /\ Done(p) /\ proc[p].pc # "drop"
    BY <1>30 DEF Uncache, At, worker
  <2>. QED BY <1>6, <2>1 DEF Done
<1>31. ASSUME NEW i \in Ids, NEW enabled \in BOOLEAN, SetContextEnabled(p, i, enabled) PROVE TurnInv'
  <2>1. proc[p] = Idle /\ Quiet /\ i \in cached /\ obj[i].status # "awaiting" /\ UNCHANGED <<agent, keys, chain, forked, proc>>
    BY <1>31 DEF SetContextEnabled, Request, InTurn, worker
  <2>2. i \in Durable /\ obj[i] = disk[i] /\ disk[i] \in Contexts /\ agent[i] \in Ids
    BY <2>1, QuietAgrees, RowFacts DEF AllCachesAgree
  <2>3. PICK c : c = [obj[i] EXCEPT !.status = IF enabled THEN "enabled" ELSE "disabled"]
    OBVIOUS
  <2>4. Put(i, c)
    BY <1>31, <2>3 DEF SetContextEnabled
  <2>5. c \in Contexts /\ c.domain = disk[i].domain /\ c.tag = disk[i].tag /\ c.deferred = disk[i].deferred
        /\ c.sealed = disk[i].sealed
    BY <2>2, <2>3 DEF Contexts
  <2>6. PICK x : x = chain[agent[i]]
    OBVIOUS
  <2>7. chain' = [chain EXCEPT ![agent[i]] = x] /\ Done(p) /\ proc[p].pc # "drop"
    BY <1>3, <2>1, <2>6 DEF TypeOK, Done
  <2>8. AloneInv(i) =>
          /\ c.deferred /\ "signal" \notin sc.ops =>
               x.founded # "none" /\ (c.status # "awaiting" => x.founded # "no")
          /\ x.recovered = "reported" => c.sealed # "undefined"
          /\ "answered" \in x.since => c.sealed = "sealed"
    BY <2>1, <2>2, <2>5, <2>6 DEF AloneInv
  <2>. QED BY <1>8, <2>1, <2>2, <2>4, <2>5, <2>7, <2>8
<1>. QED
  BY <1>11, <1>12, <1>13, <1>14, <1>15, <1>16, <1>17, <1>18, <1>19, <1>20, <1>21, <1>22, <1>23, <1>24, <1>25,
     <1>26, <1>27, <1>28, <1>29, <1>30, <1>31 DEF Handling

(* The invariant of requests in turn, with restarts, a failing Lair and    *)
(* any tags: one handler at most, what it relies on, and what ties a       *)
(* context that is alone with its key to its chain, and all contexts, as   *)
(* long as each is alone with its key, to their keys.                      *)
THEOREM TurnInvariance == Spec => []InTurnInv
<1>1. Init => InTurnInv
  <2>1. Init => HandlersInv
    BY DEF Init, HandlersInv, TurnHandlerInv, Idle, Uses
  <2>2. Init => ChainsInv /\ KeysInv
    BY DEF Init, ChainsInv, KeysInv, Durable, Installed
  <2>. QED BY <2>1, <2>2 DEF InTurnInv, TurnInv, HandlersInv
<1>2. ASSUME TypeOK, CacheInv, InTurnInv, Next PROVE InTurnInv'
  <2>. SUFFICES ASSUME InTurn, TurnInv PROVE TurnInv'
    BY <1>2 DEF InTurnInv, InTurn, Next
  <2>. QED BY <1>2, TurnStep, StopStep DEF Next
<1>3. ASSUME InTurnInv, UNCHANGED vars PROVE InTurnInv'
  <2>. SUFFICES ASSUME InTurn, TurnInv PROVE TurnInv'
    BY <1>3 DEF InTurnInv, InTurn, vars
  <2>1. UNCHANGED <<sc, disk, agent, keys, chain, forked, proc>>
    BY <1>3 DEF vars
  <2>2. HandlersInv'
    BY <2>1 DEF TurnInv, HandlersInv, TurnHandlerInv, Durable, Uses
  <2>3. ChainsInv'
    BY <2>1, ChainsKept DEF TurnInv
  <2>4. KeysInv'
    BY <2>1 DEF TurnInv, KeysInv, OwnKeys, Installed, Alone, Durable, Uninstalling, At, Id
  <2>. QED BY <2>2, <2>3, <2>4 DEF TurnInv, HandlersInv
<1>. QED BY CacheInvariance, <1>1, <1>2, <1>3, PTL DEF Spec

(* In turn, recovery never runs over a write the page has an answer to,    *)
(* however many other calls committed and were reported as errors.         *)
THEOREM RecoveryLosesNothing == Spec => []InTurnRecoveryKeepsWrites
<1>1. InTurnInv => InTurnRecoveryKeepsWrites
  BY DEF InTurnInv, TurnInv, ChainsInv, InTurnRecoveryKeepsWrites
<1>. QED BY TurnInvariance, <1>1, PTL

(* In turn, the chain of a hApp with deferred membrane proofs is founded   *)
(* with the proof, and before the context is enabled.                      *)
THEOREM GenesisComesFirst == Spec => []InTurnGenesisFirst
<1>1. InTurnInv => InTurnGenesisFirst
  BY DEF InTurnInv, TurnInv, ChainsInv, AloneInv, InTurnGenesisFirst, GenesisFirst
<1>. QED BY TurnInvariance, <1>1, PTL

(* In turn, a context that nobody is uninstalling has its key in Lair, as  *)
(* long as every context got a key of its own.                             *)
THEOREM KeysStay == Spec => []InTurnInstalledHasKey
<1>1. InTurnInv => InTurnInstalledHasKey
  BY DEF InTurnInv, TurnInv, KeysInv, Uninstalling, At, Id, InTurnInstalledHasKey, InstalledHasKey
<1>. QED BY TurnInvariance, <1>1, PTL

(* In turn, a step puts no row back that was deleted, enables no disabled  *)
(* hApp but by ENABLE_HAPP, and, if Lair does not fail, deletes no row     *)
(* whose key is in Lair.                                                   *)
LEMMA StayStep ==
  ASSUME TypeOK, CacheInv, InTurn, TurnInv, Next
  PROVE  GoneKept /\ DisabledKept /\ (~sc.lairFails => StaleOnly)
<1>. DEFINE Goal == GoneKept /\ DisabledKept /\ (~sc.lairFails => StaleOnly)
<1>1. ASSUME NEW k \in Ids, NEW c, c # Nil, Put(k, c), disk[k] # Nil \/ obj[k] = Nil,
             disk[k] # Nil /\ disk[k].status = "disabled" /\ c.status = "enabled"
               => \E p \in Procs : SetContextEnabled(p, k, TRUE)
      PROVE  Goal
  <2>1. disk' = disk \/ disk' = [disk EXCEPT ![k] = c]
    BY <1>1 DEF Put
  <2>2. \A i \in Ids : disk'[i] = disk[i] \/ (i = k /\ disk'[i] = c)
    BY <2>1 DEF TypeOK
  <2>. QED BY <1>1, <2>2 DEF GoneKept, DisabledKept, StaleOnly, Durable
<1>2. ASSUME disk' = disk PROVE Goal
  BY <1>2 DEF GoneKept, DisabledKept, StaleOnly, Durable
<1>3. CASE Restart
  BY <1>2, <1>3 DEF Restart
<1>4. ASSUME NEW p \in Procs, Handling(p) PROVE Goal
  <2>1. proc[p] \in Handlers /\ HandlerInv(proc[p]) /\ TurnHandlerInv(proc[p])
    BY DEF TypeOK, CacheInv, TurnInv
  <2>2. CASE UNCHANGED contexts
    BY <1>2, <2>2 DEF contexts
  <2>3. CASE StoreContext(p)
    <3>. DEFINE r == proc[p]
                c == [domain |-> r.domain, tag |-> r.tag, deferred |-> r.deferred, sealed |-> "undefined",
                      status |-> IF r.deferred THEN "awaiting" ELSE "enabled"]
    <3>1. Put(r.id, c)
      BY <2>3 DEF StoreContext
    <3>2. r.id \in Ids /\ obj[r.id] = Nil /\ disk[r.id] = Nil /\ r.tag \in Tags /\ r.domain \in Domains
      BY <2>1, <2>3, BoundsAssumption DEF StoreContext, HandlerInv, At, TypeOK, Ids
    <3>3. c # Nil
      BY <2>1, <3>2, NilAssumption DEF Contexts, Handlers
    <3>. HIDE DEF c
    <3>. QED BY <1>1, <3>1, <3>2, <3>3
  <2>4. ASSUME Uses(proc[p]), ~At(p, "uncache")
        PROVE  Id(p) \in Ids /\ disk[Id(p)] # Nil /\ obj[Id(p)] = disk[Id(p)] /\ disk[Id(p)] \in Contexts
    BY <2>4, OwnRow, RowFacts
  <2>5. CASE CompleteMemproofs(p) /\ Id(p) \in cached
    <3>. DEFINE c == [obj[Id(p)] EXCEPT !.status = "enabled"]
    <3>1. Put(Id(p), c) /\ At(p, "complete") /\ Uses(proc[p]) /\ ~At(p, "uncache")
      BY <2>5 DEF CompleteMemproofs, At, Uses
    <3>2. disk[Id(p)].status = "awaiting"
      BY <2>1, <3>1 DEF TurnHandlerInv, At, Id
    <3>3. c \in Contexts
      BY <2>4, <3>1 DEF Contexts
    <3>. HIDE DEF c
    <3>. QED BY <1>1, <2>4, <3>1, <3>2, <3>3, NilAssumption
  <2>6. ASSUME Seal(p) \/ MarkRecoveryRun(p), NEW s \in {"open", "sealed"}, Put(Id(p), [obj[Id(p)] EXCEPT !.sealed = s])
        PROVE  Goal
    <3>. DEFINE c == [obj[Id(p)] EXCEPT !.sealed = s]
    <3>1. Uses(proc[p]) /\ ~At(p, "uncache")
      BY <2>6 DEF Seal, MarkRecoveryRun, At, Uses
    <3>2. c \in Contexts /\ c.status = disk[Id(p)].status
      BY <2>4, <3>1 DEF Contexts
    <3>3. Put(Id(p), c)
      BY <2>6
    <3>. HIDE DEF c
    <3>. QED BY <1>1, <2>4, <3>1, <3>2, <3>3, NilAssumption
  <2>7. CASE DeleteRow(p)
    <3>1. At(p, "drop") /\ Uses(proc[p]) /\ ~At(p, "uncache") /\ disk' = [disk EXCEPT ![Id(p)] = Nil]
      BY <2>7 DEF DeleteRow, At, Uses
    <3>2. sc.lairFails \/ keys[disk[Id(p)].tag] = 0
      BY <2>1, <3>1 DEF TurnHandlerInv, At, Id
    <3>3. \A i \in Ids : disk'[i] = disk[i] \/ (i = Id(p) /\ disk'[i] = Nil)
      BY <3>1 DEF TypeOK
    <3>. QED BY <3>2, <3>3 DEF GoneKept, DisabledKept, StaleOnly, Durable
  <2>8. CASE Uncache(p)
    BY <1>2, <2>8 DEF Uncache
  <2>9. ASSUME NEW k \in Ids, NEW enabled \in BOOLEAN, SetContextEnabled(p, k, enabled) PROVE Goal
    <3>. DEFINE c == [obj[k] EXCEPT !.status = IF enabled THEN "enabled" ELSE "disabled"]
    <3>1. Put(k, c) /\ Quiet /\ k \in cached
      BY <2>9 DEF SetContextEnabled, Request, InTurn
    <3>2. disk[k] # Nil /\ disk[k] = obj[k] /\ disk[k] \in Contexts
      BY <3>1, QuietAgrees, RowFacts DEF AllCachesAgree
    <3>3. c \in Contexts /\ (c.status = "enabled" => enabled = TRUE)
      BY <3>2 DEF Contexts
    <3>. HIDE DEF c
    <3>. QED BY <1>1, <2>9, <3>1, <3>2, <3>3, NilAssumption
  <2>10. CASE CompleteMemproofs(p) \/ Seal(p) \/ MarkRecoveryRun(p)
    BY <2>2, <2>5, <2>6, <2>10 DEF CompleteMemproofs, Seal, MarkRecoveryRun
  <2>. QED
    BY <1>4, <2>2, <2>3, <2>7, <2>8, <2>9, <2>10
    DEF Handling, StartInstall, MakeKey, StartProvide, Genesis, StartCall, Validate, StartSignal, Exec,
        StartRecover, RecoverChain, StartUninstall, DeleteKey, NewKey, DeleteEntry
<1>. QED BY <1>3, <1>4 DEF Next

(* A seal on disk never opens; in turn, an uninstalled hApp stays gone, a  *)
(* disabled one disabled, and, if Lair does not fail, a context is deleted *)
(* only when its key is.                                                   *)
THEOREM ContextsDoStay == Spec => ContextsStay
<1>1. ASSUME TypeOK, CacheInv, InTurnInv, Next
      PROVE  SealsKept /\ (InTurn => GoneKept /\ DisabledKept /\ (~sc.lairFails => StaleOnly))
  BY <1>1, SealStep, StayStep DEF InTurnInv
<1>. QED BY CacheInvariance, TurnInvariance, <1>1, PTL DEF Spec, ContextsStay

(***************************************************************************)
(* Session: joining                                                        *)
(***************************************************************************)

(* The groups of what the client has answered are noted, and what is asked *)
(* for is of none of them.                                                 *)
AskInv ==
  /\ \A c \in answered : GroupOf[c] \in satisfied \cup {NoGroup}
  /\ asked # NoGroup => GroupOf[asked] \notin satisfied

(* With a joining service, what leads to the installation goes by its      *)
(* admission.                                                              *)
AdmittedInv ==
  options.joining =>
    /\ at # "direct"
    /\ at \in {"again", "provision", "bundle", "install"} => admitted
    /\ at = "joining" /\ session = "ready" => admitted

(* Every step of connect() and rejoin() keeps both.                        *)
LEMMA JoinSteps ==
  ASSUME AskInv, AdmittedInv, J!Next
  PROVE  AskInv' /\ AdmittedInv'
<1>1. J!Fail => at' \in {"failed", "connected"}
  BY DEF J!Fail, J!Goto, J!Outcome
<1>2. \A status : J!Session(status) => AskInv'
  BY DEF J!Session, AskInv
<1>3. UNCHANGED <<answered, satisfied, asked>> => AskInv'
  BY DEF AskInv
<1>4. J!Verdict /\ UNCHANGED <<options, at>> => AdmittedInv'
  BY DEF J!Verdict, AdmittedInv
<1>22. J!AlreadyJoined => admitted' /\ at' \in {"again", "reagain"}
  BY DEF J!AlreadyJoined, J!Goto
<1>5. CASE J!Approve
  BY <1>3, <1>5 DEF J!Approve, J!Goto, J!joining, AdmittedInv
<1>6. CASE J!Info
  BY <1>3, <1>6 DEF J!Info, J!Goto, J!joining, AdmittedInv
<1>7. CASE J!Relink
  BY <1>3, <1>7 DEF J!Relink, J!Goto, J!joining, AdmittedInv
<1>8. CASE J!Fallback
  BY <1>3, <1>8 DEF J!Fallback, J!Goto, J!joining, AdmittedInv
<1>9. CASE J!Join
  <2>1. CASE /\ \E status \in {"pending", "ready", "rejected"} : J!Session(status) /\ admitted' = (status = "ready")
             /\ at' \in {"joining", "rejoining"}
    <3>1. AskInv'
      BY <1>2, <2>1
    <3>2. session' = "ready" => admitted'
      BY <2>1 DEF J!Session
    <3>. QED BY <2>1, <3>1, <3>2 DEF AdmittedInv
  <2>2. CASE admitted /\ at' \in {"again", "reagain"} /\ UNCHANGED <<J!joining, admitted>>
    BY <1>3, <2>2 DEF J!joining, AdmittedInv
  <2>3. CASE J!Fail /\ UNCHANGED <<J!joining, admitted>>
    BY <1>1, <1>3, <2>3 DEF J!joining, AdmittedInv
  <2>. QED BY <1>9, <2>1, <2>2, <2>3 DEF J!Join, J!Goto
<1>10. CASE \E c \in J!Challenges : J!Challenge(c)
  <2>1. PICK c \in J!Challenges : J!Challenge(c)
    BY <1>10
  <2>2. GroupOf[c] \notin satisfied
    BY <2>1 DEF J!Challenge, J!First, J!Open
  <2>3. UNCHANGED <<options, admitted, session, answered, satisfied>> /\ asked' \in {asked, c}
        /\ (UNCHANGED at \/ at' \in {"failed", "connected"})
    BY <1>1, <2>1 DEF J!Challenge
  <2>. QED BY <2>2, <2>3 DEF AskInv, AdmittedInv
<1>11. CASE J!Verify
  <2>1. CASE J!Fail /\ UNCHANGED <<admitted, session, completed, answered, satisfied, skipped>>
    BY <1>1, <1>11, <2>1 DEF J!Verify, AskInv, AdmittedInv
  <2>2. CASE J!AlreadyJoined /\ UNCHANGED <<session, completed, answered, satisfied, skipped>>
    BY <1>11, <1>22, <2>2 DEF J!Verify, AskInv, AdmittedInv
  <2>3. CASE /\ answered' = answered \cup {asked}
             /\ satisfied' = satisfied \cup ({GroupOf[asked]} \ {NoGroup})
             /\ J!Verdict /\ UNCHANGED at
    <3>1. AdmittedInv'
      BY <1>4, <1>11, <2>3 DEF J!Verify
    <3>2. asked' = NoGroup
      BY <1>11 DEF J!Verify
    <3>. QED BY <2>3, <3>1, <3>2 DEF AskInv
  <2>. QED BY <1>11, <2>1, <2>2, <2>3 DEF J!Verify
<1>12. CASE J!Poll
  <2>1. AskInv'
    BY <1>3, <1>12 DEF J!Poll
  <2>2. AdmittedInv'
    BY <1>1, <1>4, <1>12, <1>22 DEF J!Poll, AdmittedInv
  <2>. QED BY <2>1, <2>2
<1>13. CASE J!Decided
  <2>1. AskInv'
    BY <1>3, <1>13 DEF J!Decided, J!joining
  <2>2. AdmittedInv'
    BY <1>1, <1>13, <1>22 DEF J!Decided, J!Goto, J!joining, AdmittedInv
  <2>. QED BY <2>1, <2>2
<1>14. CASE J!Again
  BY <1>1, <1>3, <1>14 DEF J!Again, J!Goto, J!joining, AdmittedInv
<1>15. CASE J!Provision
  BY <1>1, <1>3, <1>15 DEF J!Provision, J!Goto, J!joining, AdmittedInv
<1>16. CASE J!Direct
  BY <1>3, <1>16 DEF J!Direct, J!Goto, J!joining, AdmittedInv
<1>17. CASE J!FetchBundle
  BY <1>3, <1>17 DEF J!FetchBundle, J!Goto, J!joining, AdmittedInv
<1>18. CASE J!Install
  BY <1>3, <1>18 DEF J!Install, J!Goto, J!joining, AdmittedInv
<1>19. CASE J!Setup
  BY <1>3, <1>19 DEF J!Setup, J!Goto, J!joining, AdmittedInv
<1>20. CASE J!Retry
  BY <1>2, <1>20 DEF J!Retry, J!Goto, AdmittedInv
<1>21. CASE J!Forget
  BY <1>3, <1>21 DEF J!Forget, J!joining, AdmittedInv
<1>. QED
  BY <1>5, <1>6, <1>7, <1>8, <1>9, <1>10, <1>11, <1>12, <1>13, <1>14, <1>15, <1>16, <1>17, <1>18, <1>19, <1>20, <1>21 DEF J!Next

(* What leads to an installation, and to a question.                       *)
THEOREM JoinInvariance == SessionSpec => [](AskInv /\ AdmittedInv)
<1>1. SessionInit => AskInv /\ AdmittedInv
  BY DEF SessionInit, J!Init, AskInv, AdmittedInv
<1>2. AskInv /\ AdmittedInv /\ [SessionNext]_<<part, access, join>> => AskInv' /\ AdmittedInv'
  <2>1. AskInv /\ AdmittedInv /\ UNCHANGED join => AskInv' /\ AdmittedInv'
    BY DEF join, AskInv, AdmittedInv
  <2>. QED BY <2>1, JoinSteps DEF SessionNext
<1>. QED BY <1>1, <1>2, PTL DEF SessionSpec

(* The client never answers a second challenge of one group in a session,  *)
(* whatever the service completes meanwhile (joinAndConfigure).            *)
THEOREM NeverAnsweredTwice == SessionSpec => []OneWayAGroup
<1>1. AskInv => OneWayAGroup
  BY DEF AskInv, OneWayAGroup, J!OneWayAGroup
<1>. QED BY <1>1, JoinInvariance, PTL

(* With a joining service a hApp is only installed for an agent the service *)
(* has let in, however often connect() ran.                                *)
THEOREM OnlyAdmittedInstall == SessionSpec => AdmittedBeforeInstall
<1>1. ASSUME AdmittedInv, J!Next, options.joining, ~installed, installed' PROVE admitted
  <2>1. CASE J!Install
    BY <1>1, <2>1 DEF J!Install, AdmittedInv
  <2>2. CASE ~J!Install
    <3>1. UNCHANGED installed
      BY <1>1, <2>2 DEF J!Next, J!Approve, J!Info, J!Relink, J!Fallback, J!Join, J!Challenge, J!Verify, J!Poll, J!Decided,
         J!Again, J!Provision, J!Direct, J!FetchBundle, J!Setup, J!Retry, J!Forget
    <3>. QED BY <1>1, <3>1
  <2>. QED BY <2>1, <2>2
<1>2. UNCHANGED join => UNCHANGED installed
  BY DEF join
<1>3. AdmittedInv /\ [SessionNext]_<<part, access, join>> => [options.joining /\ ~installed /\ installed' => admitted]_J!vars
  BY <1>1, <1>2 DEF SessionNext
<1>. QED BY <1>3, JoinInvariance, PTL DEF SessionSpec, AdmittedBeforeInstall, J!AdmittedBeforeInstall

(***************************************************************************)
(* Session: access                                                         *)
(***************************************************************************)

(* The types of what the properties are about.                             *)
AccessTypes ==
  /\ promise \in [A!Calls -> {"none", "waiting", "connected", "refused", "timeout"}]
  /\ call \in [A!Calls -> {"none", "sent", "connected", "refused", "done"} \cup A!Handling]
  /\ perm \in [Origins -> {"none", "granted", "denied"}]
  /\ popup \in [A!Calls -> {"none", "loading", "shown", "failed", "closed"} \cup A!Verdicts]

(* A handler that waits for the user has its request and its callback; no  *)
(* window is open before it waits.                                         *)
AccessInv ==
  \A c \in A!Calls :
    /\ promise[c] = "none" => call[c] = "none" /\ c \notin pending \cup callbacks
    /\ call[c] \in {"opening", "open"} => c \in pending
    /\ call[c] = "open" => c \in callbacks
    /\ call[c] \in {"none", "sent", "key", "localkey", "opening"} => popup[c] = "none"

(* Every step of the page, the handlers, the popup and the timers.         *)
LEMMA AccessSteps ==
  ASSUME AccessTypes, AccessInv, A!Next
  PROVE  AccessTypes' /\ AccessInv'
<1>1. ASSUME NEW c \in A!Calls, A!Connect(c) \/ A!PageTimeout(c) \/ A!Bounce(c) \/ A!Answer(c)
      PROVE  AccessTypes' /\ AccessInv'
  <2>1. CASE A!Connect(c)
    BY <2>1 DEF AccessTypes, AccessInv, A!Connect
  <2>2. CASE A!PageTimeout(c)
    BY <2>2 DEF AccessTypes, AccessInv, A!PageTimeout
  <2>3. CASE A!Bounce(c)
    BY <2>3 DEF AccessTypes, AccessInv, A!Bounce
  <2>4. CASE A!Answer(c)
    BY <2>4 DEF AccessTypes, AccessInv, A!Answer
  <2>. QED BY <1>1, <2>1, <2>2, <2>3, <2>4
<1>2. ASSUME NEW c \in A!Calls, A!HandleConnect(c) \/ A!AgentKey(c) \/ A!OpenWindow(c)
      PROVE  AccessTypes' /\ AccessInv'
  <2>1. CASE A!HandleConnect(c)
    BY <2>1 DEF AccessTypes, AccessInv, A!HandleConnect, A!Ask, A!Handling
  <2>2. CASE A!AgentKey(c)
    BY <2>2 DEF AccessTypes, AccessInv, A!AgentKey, A!Ask, A!Handling
  <2>3. CASE A!OpenWindow(c)
    BY <2>3 DEF AccessTypes, AccessInv, A!OpenWindow, A!Handling
  <2>. QED BY <1>2, <2>1, <2>2, <2>3
<1>3. ASSUME NEW c \in A!Calls, A!AuthTimeout(c) \/ A!Resolve(c)
      PROVE  AccessTypes' /\ AccessInv'
  <2>1. CASE A!AuthTimeout(c)
    BY <2>1 DEF AccessTypes, AccessInv, A!AuthTimeout, A!Retire
  <2>2. CASE A!Resolve(c)
    BY <2>2 DEF AccessTypes, AccessInv, A!Resolve, A!Retire
  <2>. QED BY <1>3, <2>1, <2>2
<1>4. ASSUME NEW c \in A!Calls, A!PopupLoads(c) \/ A!Click(c) \/ A!Record(c) \/ A!GrantFails(c)
      PROVE  AccessTypes' /\ AccessInv'
  BY <1>4 DEF AccessTypes, AccessInv, A!PopupLoads, A!Click, A!Record, A!GrantFails, A!Verdicts
<1>5. CASE A!AskRevoke \/ \E o \in Origins : A!Revoke(o)
  BY <1>5 DEF AccessTypes, AccessInv, A!AskRevoke, A!Revoke
<1>6. CASE A!Restart
  BY <1>6 DEF AccessTypes, AccessInv, A!Restart, A!Handling, A!Verdicts
<1>. QED BY <1>1, <1>2, <1>3, <1>4, <1>5, <1>6 DEF A!Next, A!Proceed, A!Serve

(* What makes the answers of CallsAnswered possible: no restart, timeout,  *)
(* click or failure leaves a handler waiting that nobody can resume.       *)
THEOREM NobodyForgotten == SessionSpec => [](AccessTypes /\ AccessInv)
<1>1. SessionInit => AccessTypes /\ AccessInv
  BY DEF SessionInit, A!Init, AccessTypes, AccessInv
<1>2. AccessTypes /\ AccessInv /\ [SessionNext]_<<part, access, join>> => AccessTypes' /\ AccessInv'
  <2>1. AccessTypes /\ AccessInv /\ UNCHANGED access => AccessTypes' /\ AccessInv'
    BY DEF access, AccessTypes, AccessInv
  <2>. QED BY <2>1, AccessSteps DEF SessionNext
<1>. QED BY <1>1, <1>2, PTL DEF SessionSpec

(* Once an origin is denied, no page gets in by asking again: the record   *)
(* changes by a click on Approve in a window already open, or a revocation *)
(* (PermissionManager).                                                    *)
THEOREM DenialsStand == SessionSpec => DenialStands
<1>1. ASSUME AccessTypes, A!Next, NEW o \in Origins, perm[o] = "denied", perm'[o] # "denied"
      PROVE  o \in revoking \/ \E c \in A!Calls : A!Site(c) = o /\ popup[c] = "approving"
  <2>1. CASE \E c \in A!Calls : A!Record(c)
    BY <1>1, <2>1 DEF A!Record, AccessTypes
  <2>2. CASE \E r \in Origins : A!Revoke(r)
    BY <1>1, <2>2 DEF A!Revoke, AccessTypes
  <2>3. ASSUME NEW c \in A!Calls, A!HandleConnect(c) PROVE FALSE
    BY <1>1, <2>3 DEF A!HandleConnect, AccessTypes
  <2>4. CASE ~((\E c \in A!Calls : A!Record(c) \/ A!HandleConnect(c)) \/ \E r \in Origins : A!Revoke(r))
    BY <1>1, <2>4 DEF A!Next, A!Connect, A!PageTimeout, A!Bounce, A!Proceed, A!AgentKey, A!OpenWindow, A!Answer, A!AuthTimeout,
       A!Serve, A!Resolve, A!PopupLoads, A!Click, A!GrantFails, A!AskRevoke, A!Restart
  <2>. QED BY <2>1, <2>2, <2>3, <2>4
<1>2. UNCHANGED access => UNCHANGED A!vars
  BY DEF access, A!vars
<1>3. AccessTypes /\ [SessionNext]_<<part, access, join>> =>
        [\A o \in Origins : perm[o] = "denied" /\ perm'[o] # "denied" =>
            \/ o \in revoking
            \/ \E c \in A!Calls : A!Site(c) = o /\ popup[c] = "approving"]_A!vars
  BY <1>1, <1>2 DEF SessionNext
<1>. QED BY <1>3, NobodyForgotten, PTL DEF SessionSpec, DenialStands, A!DenialStands
=============================================================================
