--------------------------- MODULE KeyVaultProofs ---------------------------
(***************************************************************************)
(* For any handlers, tags, passphrases and scenarios of KeyVault: in safe  *)
(* scenarios no seed is left unreadable; of requests in turn, the storage  *)
(* agrees with the lock, no ciphertext is taken for a seed, and a tag      *)
(* keeps its seed.                                                         *)
(***************************************************************************)
EXTENDS KeyVault, TLAPS

(***************************************************************************)
(* Types, and what is asked for                                            *)
(***************************************************************************)

(* In turn, the handlers that do not step are idle.                        *)
LEMMA OneHandler ==
  ASSUME TypeOK, AskedInv, NEW p \in Procs, Handling(p), ~sc.overlap
  PROVE  \A q \in Procs \ {p} : proc[q] = Idle
<1>1. CASE Quiet
  BY <1>1 DEF Quiet
<1>2. CASE proc[p] # Idle
  BY <1>2 DEF AskedInv
<1>3. CASE proc[p] = Idle
  <2>1. ASSUME NEW pc, pc # "idle", At(p, pc) PROVE FALSE
    BY <1>3, <2>1 DEF At, Idle
  <2>2. \A op, r : (Request(p, op, r) => Quiet) /\ (Asked(p, op) => Quiet)
    BY DEF Request, Asked
  <2>3. CASE StartChange(p) \/ StartUnlock(p) \/ StartLock(p) \/ StartNew(p) \/ StartImport(p) \/ StartDerive(p)
    BY <1>1, <2>2, <2>3 DEF StartChange, StartUnlock, StartLock, StartNew, StartImport, StartDerive
  <2>4. CASE StartExport(p) \/ StartSign(p) \/ StartDelete(p) \/ StartAgentKey(p) \/ StartUninstall(p)
    BY <1>1, <2>2, <2>4 DEF StartExport, StartSign, StartDelete, StartAgentKey, StartUninstall
  <2>5. CASE VerifyOld(p) \/ CommitKey(p) \/ ReadAll(p) \/ WriteBack(p) \/ FirstKey(p) \/ Migrate(p)
    BY <2>1, <2>5 DEF VerifyOld, CommitKey, ReadAll, WriteBack, FirstKey, Migrate
  <2>6. CASE RightPassphrase(p) \/ WrongPassphrase(p) \/ TakeKey(p) \/ ApplyKey(p) \/ FinishUnlock(p) \/ ClearKey(p)
    BY <2>1, <2>6 DEF RightPassphrase, WrongPassphrase, TakeKey, ApplyKey, FinishUnlock, ClearKey
  <2>7. CASE Put(p) \/ DeriveFrom(p) \/ ExportSeed(p) \/ Sign(p) \/ PutAgentKey(p) \/ Remove(p)
    BY <2>1, <2>7 DEF Put, DeriveFrom, ExportSeed, Sign, PutAgentKey, Remove
  <2>8. CASE FinishChange(p)
    BY <1>3, <2>8 DEF FinishChange, Idle
  <2>. QED BY <2>3, <2>4, <2>5, <2>6, <2>7, <2>8 DEF Handling
<1>. QED BY <1>2, <1>3

(* masterKey_.fill(0) changes the buffers of unlock only.                  *)
LEMMA FillFacts ==
  ASSUME TypeOK
  PROVE  /\ Fill(proc) \in [Procs -> Handlers]
         /\ \A q \in Procs : Fill(proc)[q].op = proc[q].op
         /\ \A q \in Procs : Fill(proc)[q] # proc[q] => proc[q].op = "unlock" /\ proc[q].pc = "apply"
<1>1. \A q \in Procs : proc[q] \in Handlers /\ [proc[q] EXCEPT !.key = Wiped] \in Handlers
                       /\ [proc[q] EXCEPT !.key = Wiped].op = proc[q].op
  BY BoundsAssumption DEF TypeOK, Handlers, AnyKey, Wiped
<1>. QED BY <1>1 DEF Fill

(* The types of everything but the handlers.                               *)
OtherTypes ==
  /\ record \in Locks /\ state \in Locks
  /\ mk \in 0..MaxKeys /\ attempts \in Nat
  /\ enc \in [up : BOOLEAN, enabled : BOOLEAN, key : AnyKey]
  /\ seeds \in [Tags -> [id : Nat, by : AnyKey]]
  /\ keys \in 0..MaxKeys /\ made \in Nat /\ requests \in Nat /\ restarts \in Nat /\ misread \subseteq Tags \cup {NoTag}

(* Every step of a handler keeps the types and what is asked for.          *)
LEMMA HandlingTypes ==
  ASSUME TypeOK, AskedInv, UNCHANGED sc, NEW p \in Procs, Handling(p)
  PROVE  TypeOK' /\ AskedInv'
<1>1. OtherTypes /\ proc[p] \in Handlers /\ Idle \in Handlers /\ Idle.op = "none" /\ proc[p].op \in sc.ops \cup {"none"}
      /\ sc.keys \in 0..MaxKeys /\ sc.ops \subseteq AllOps /\ state.key = keys
  BY BoundsAssumption DEF TypeOK, OtherTypes, AskedInv, Idle, Handlers, Scenario, AnyKey, Wiped, NoKey
<1>2. ASSUME NEW r \in Handlers, r.op \in sc.ops \cup {"none"}, NEW ps \in {proc, Fill(proc)},
             proc' = [ps EXCEPT ![p] = r], OtherTypes', state' = record', record'.key = keys', keys' <= sc.keys
      PROVE  TypeOK' /\ AskedInv'
  <2>1. ps \in [Procs -> Handlers] /\ (\A q \in Procs : ps[q].op = proc[q].op)
        /\ \A q \in Procs : proc[q] = Idle => ps[q] = Idle
    <3>1. CASE ps = proc
      BY <3>1 DEF TypeOK
    <3>2. CASE ps = Fill(proc)
      BY <1>1, <3>2, FillFacts
    <3>. QED BY <1>2, <3>1, <3>2
  <2>2. proc' \in [Procs -> Handlers] /\ \A q \in Procs : proc'[q] = IF q = p THEN r ELSE ps[q]
    BY <1>2, <2>1
  <2>3. TypeOK'
    BY <1>2, <2>2 DEF TypeOK, OtherTypes
  <2>4. ~sc.overlap => \A q \in Procs \ {p} : proc'[q] = Idle
    BY <2>1, <2>2, OneHandler
  <2>. QED BY <1>2, <2>1, <2>2, <2>3, <2>4 DEF AskedInv
<1>3. ASSUME NEW r \in Handlers, r.op \in sc.ops \cup {"none"}, proc' = [proc EXCEPT ![p] = r], OtherTypes',
             UNCHANGED <<record, state, keys>>
      PROVE  TypeOK' /\ AskedInv'
  BY <1>2, <1>3 DEF AskedInv
<1>4. ASSUME NEW op, NEW r \in Handlers, Request(p, op, r), OtherTypes', UNCHANGED <<record, state, keys>>
      PROVE  TypeOK' /\ AskedInv'
  <2>1. [r EXCEPT !.op = op] \in Handlers /\ [r EXCEPT !.op = op].op = op /\ op \in sc.ops
        /\ proc' = [proc EXCEPT ![p] = [r EXCEPT !.op = op]]
    BY <1>1, <1>4 DEF Handlers, Request, Asked
  <2>. QED BY <1>3, <1>4, <2>1
<1>5. ASSUME Done(p), OtherTypes', UNCHANGED <<record, state, keys>> PROVE TypeOK' /\ AskedInv'
  BY <1>1, <1>3, <1>5 DEF Done
<1>6. ASSUME NEW pc \in {"commit", "put"}, Goto(p, pc), OtherTypes', UNCHANGED <<record, state, keys>>
      PROVE  TypeOK' /\ AskedInv'
  <2>1. [proc[p] EXCEPT !.pc = pc] \in Handlers /\ [proc[p] EXCEPT !.pc = pc].op = proc[p].op
    BY <1>1 DEF Handlers
  <2>2. proc' = [proc EXCEPT ![p] = [proc[p] EXCEPT !.pc = pc]]
    BY <1>6 DEF Goto
  <2>. QED BY <1>1, <1>3, <1>6, <2>1, <2>2
<1>7. Client \in [up : BOOLEAN, enabled : BOOLEAN, key : AnyKey] /\ Todo \in SUBSET [tag : Tags, id : Nat]
      /\ \A k \in AnyKey : WithKey(k) \in [up : BOOLEAN, enabled : BOOLEAN, key : AnyKey]
      /\ \A j \in AnyKey : [enc EXCEPT !.key = j] \in [up : BOOLEAN, enabled : BOOLEAN, key : AnyKey]
      /\ \A t \in Tags \cup {NoTag}, id \in Nat, by \in AnyKey : [seeds EXCEPT ![t] = [id |-> id, by |-> by]] \in [Tags -> [id : Nat, by : AnyKey]]
      /\ NoKey \in AnyKey /\ proc[p].tag \in Tags \cup {NoTag} /\ proc[p].src \in Tags \cup {NoTag}
  <2>1. Client \in [up : BOOLEAN, enabled : BOOLEAN, key : AnyKey] /\ Todo \in SUBSET [tag : Tags, id : Nat]
    BY <1>1, BoundsAssumption DEF OtherTypes, Client, Todo, Stored, AnyKey, Wiped
  <2>2. NoKey \in AnyKey
    BY BoundsAssumption DEF AnyKey, Wiped, NoKey
  <2>. QED BY <1>1, <2>1, <2>2 DEF OtherTypes, WithKey, Handlers
<1>8. CASE StartChange(p)
  <2>. DEFINE r == [Idle EXCEPT !.pc = IF state.key = NoKey THEN "commit" ELSE "verify", !.old = state.key]
  <2>1. r \in Handlers
    BY <1>1 DEF Handlers, Idle, OtherTypes, Locks
  <2>2. OtherTypes' /\ UNCHANGED <<record, state, keys>>
    BY <1>1, <1>8 DEF StartChange, Request, Asked, OtherTypes, lockVars, storeVars
  <2>3. Request(p, "change", r)
    BY <1>8 DEF StartChange
  <2>. HIDE DEF r
  <2>. QED BY <1>4, <2>1, <2>2, <2>3
<1>9. CASE StartUnlock(p)
  <2>. DEFINE r == [Idle EXCEPT !.pc = "check", !.old = state.key]
  <2>1. r \in Handlers
    BY <1>1 DEF Handlers, Idle, OtherTypes, Locks
  <2>2. OtherTypes' /\ UNCHANGED <<record, state, keys>>
    BY <1>1, <1>9 DEF StartUnlock, Request, Asked, OtherTypes, storeVars
  <2>3. Request(p, "unlock", r)
    BY <1>9 DEF StartUnlock
  <2>. HIDE DEF r
  <2>. QED BY <1>4, <2>1, <2>2, <2>3
<1>10. ASSUME NEW op, NEW r \in Handlers, Request(p, op, r), enc' \in {enc, Client},
              UNCHANGED <<lockVars, seeds, made, misread>>
       PROVE  TypeOK' /\ AskedInv'
  <2>1. OtherTypes' /\ UNCHANGED <<record, state, keys>>
    BY <1>1, <1>7, <1>10 DEF Request, Asked, OtherTypes, lockVars
  <2>. QED BY <1>4, <1>10, <2>1
<1>11. \A t, u \in Tags, pc \in {"put", "source", "read", "sign", "remove"} :
         /\ [Idle EXCEPT !.pc = pc, !.tag = t] \in Handlers
         /\ [Idle EXCEPT !.pc = pc, !.tag = t, !.src = u] \in Handlers
  <2>1. NoKey \in AnyKey /\ NoKey \in 0..MaxKeys
    BY BoundsAssumption DEF AnyKey, Wiped, NoKey
  <2>2. ASSUME NEW t \in Tags, NEW pc \in {"put", "source", "read", "sign", "remove"}
        PROVE  [Idle EXCEPT !.pc = pc, !.tag = t] \in Handlers
    BY <2>1, <2>2 DEF Idle, Handlers
  <2>3. ASSUME NEW t \in Tags, NEW u \in Tags, NEW pc \in {"put", "source", "read", "sign", "remove"}
        PROVE  [Idle EXCEPT !.pc = pc, !.tag = t, !.src = u] \in Handlers
    BY <2>1, <2>3 DEF Idle, Handlers
  <2>. QED BY <2>2, <2>3
<1>12. CASE StartNew(p)
  <2>1. PICK t \in Tags : Request(p, "new", [Idle EXCEPT !.pc = "put", !.tag = t])
    BY <1>12 DEF StartNew, Stored
  <2>2. enc' \in {enc, Client} /\ UNCHANGED <<lockVars, seeds, made, misread>>
    BY <1>12 DEF StartNew, storeVars
  <2>. QED BY <1>10, <1>11, <2>1, <2>2
<1>13. CASE StartImport(p)
  <2>1. PICK t \in Tags : Request(p, "import", [Idle EXCEPT !.pc = "put", !.tag = t])
    BY <1>13 DEF StartImport, Stored
  <2>2. enc' \in {enc, Client} /\ UNCHANGED <<lockVars, seeds, made, misread>>
    BY <1>13 DEF StartImport, storeVars
  <2>. QED BY <1>10, <1>11, <2>1, <2>2
<1>14. CASE StartExport(p)
  <2>1. PICK t \in Tags : Request(p, "export", [Idle EXCEPT !.pc = "read", !.tag = t])
    BY <1>14 DEF StartExport, Stored
  <2>2. enc' \in {enc, Client} /\ UNCHANGED <<lockVars, seeds, made, misread>>
    BY <1>14 DEF StartExport, storeVars
  <2>. QED BY <1>10, <1>11, <2>1, <2>2
<1>15. CASE StartSign(p)
  <2>1. PICK t \in Tags : Request(p, "sign", [Idle EXCEPT !.pc = "sign", !.tag = t])
    BY <1>15 DEF StartSign, Stored
  <2>2. enc' \in {enc, Client} /\ UNCHANGED <<lockVars, seeds, made, misread>>
    BY <1>15 DEF StartSign, storeVars
  <2>. QED BY <1>10, <1>11, <2>1, <2>2
<1>16. CASE StartDelete(p)
  <2>1. PICK t \in Tags : Request(p, "delete", [Idle EXCEPT !.pc = "remove", !.tag = t])
    BY <1>16 DEF StartDelete, Stored
  <2>2. enc' \in {enc, Client} /\ UNCHANGED <<lockVars, seeds, made, misread>>
    BY <1>16 DEF StartDelete, storeVars
  <2>. QED BY <1>10, <1>11, <2>1, <2>2
<1>17. CASE StartAgentKey(p)
  <2>1. PICK t \in Tags : Request(p, "agentkey", [Idle EXCEPT !.pc = "put", !.tag = t])
    BY <1>17 DEF StartAgentKey, Stored
  <2>2. enc' \in {enc, Client} /\ UNCHANGED <<lockVars, seeds, made, misread>>
    BY <1>17 DEF StartAgentKey, storeVars
  <2>. QED BY <1>10, <1>11, <2>1, <2>2
<1>18. CASE StartUninstall(p)
  <2>1. PICK t \in Tags : Request(p, "uninstall", [Idle EXCEPT !.pc = "remove", !.tag = t])
    BY <1>18 DEF StartUninstall, Stored
  <2>2. enc' \in {enc, Client} /\ UNCHANGED <<lockVars, seeds, made, misread>>
    BY <1>18 DEF StartUninstall, storeVars
  <2>. QED BY <1>10, <1>11, <2>1, <2>2
<1>19. CASE StartDerive(p)
  <2>1. PICK t, s \in Tags : Request(p, "derive", [Idle EXCEPT !.pc = "source", !.tag = t, !.src = s])
    BY <1>19 DEF StartDerive, Stored
  <2>2. enc' \in {enc, Client} /\ UNCHANGED <<lockVars, seeds, made, misread>>
    BY <1>19 DEF StartDerive
  <2>. QED BY <1>10, <1>11, <2>1, <2>2
<1>20. CASE VerifyOld(p)
  <2>1. OtherTypes' /\ UNCHANGED <<record, state, keys>>
    BY <1>1, <1>7, <1>20 DEF VerifyOld, lockVars, storeVars, counters, OtherTypes
  <2>. QED BY <1>5, <1>6, <1>20, <2>1 DEF VerifyOld
<1>21. CASE FinishChange(p)
  <2>1. OtherTypes' /\ UNCHANGED <<record, state, keys>>
    BY <1>1, <1>7, <1>21, BoundsAssumption DEF FinishChange, lockVars, storeVars, counters, OtherTypes, Handlers
  <2>. QED BY <1>5, <1>6, <1>21, <2>1 DEF FinishChange
<1>22. CASE WrongPassphrase(p)
  <2>1. OtherTypes' /\ UNCHANGED <<record, state, keys>>
    BY <1>1, <1>7, <1>22 DEF WrongPassphrase, lockVars, storeVars, counters, OtherTypes
  <2>. QED BY <1>5, <1>22, <2>1 DEF WrongPassphrase
<1>23. CASE FinishUnlock(p)
  <2>1. OtherTypes' /\ UNCHANGED <<record, state, keys>>
    BY <1>1, <1>7, <1>23 DEF FinishUnlock, lockVars, storeVars, counters, OtherTypes
  <2>. QED BY <1>5, <1>23, <2>1 DEF FinishUnlock
<1>24. CASE ClearKey(p)
  <2>1. OtherTypes' /\ UNCHANGED <<record, state, keys>>
    BY <1>1, <1>7, <1>24 DEF ClearKey, OtherTypes, lockVars, counters
  <2>. QED BY <1>5, <1>24, <2>1 DEF ClearKey
<1>25. CASE DeriveFrom(p)
  <2>1. OtherTypes' /\ UNCHANGED <<record, state, keys>>
    BY <1>1, <1>7, <1>25 DEF DeriveFrom, Misread, OtherTypes, lockVars, counters
  <2>. QED BY <1>5, <1>6, <1>25, <2>1 DEF DeriveFrom
<1>26. CASE ExportSeed(p)
  <2>1. OtherTypes' /\ UNCHANGED <<record, state, keys>>
    BY <1>1, <1>7, <1>26 DEF ExportSeed, Misread, OtherTypes, lockVars, counters
  <2>. QED BY <1>5, <1>26, <2>1 DEF ExportSeed
<1>27. CASE Sign(p)
  <2>1. OtherTypes' /\ UNCHANGED <<record, state, keys>>
    BY <1>1, <1>7, <1>27 DEF Sign, lockVars, storeVars, counters, OtherTypes
  <2>. QED BY <1>5, <1>27, <2>1 DEF Sign
<1>28. CASE Put(p)
  <2>1. OtherTypes' /\ UNCHANGED <<record, state, keys>>
    BY <1>1, <1>7, <1>28, BoundsAssumption DEF Put, lockVars, storeVars, counters, OtherTypes, PutSeed, AnyKey, NoKey, Wiped, Handlers
  <2>. QED BY <1>5, <1>28, <2>1 DEF Put
<1>29. CASE PutAgentKey(p)
  <2>1. OtherTypes' /\ UNCHANGED <<record, state, keys>>
    <3>1. made + 1 \in Nat /\ made' = made + 1
      BY <1>1, <1>29 DEF PutAgentKey, PutSeed, OtherTypes
    <3>. QED BY <1>1, <1>7, <1>29, <3>1 DEF PutAgentKey, PutSeed, OtherTypes, lockVars, counters
  <2>. QED BY <1>5, <1>29, <2>1 DEF PutAgentKey
<1>30. CASE Remove(p)
  <2>1. OtherTypes' /\ UNCHANGED <<record, state, keys>>
    BY <1>1, <1>7, <1>30 DEF Remove, OtherTypes, lockVars, counters, NoSeed
  <2>. QED BY <1>5, <1>30, <2>1 DEF Remove
<1>31. CASE CommitKey(p)
  <2>. DEFINE r == [Fill(proc)[p] EXCEPT !.pc = "apply", !.key = keys + 1]
  <2>1. keys + 1 \in 0..MaxKeys /\ keys + 1 <= sc.keys /\ keys + 1 \in AnyKey
    BY <1>1, <1>31, BoundsAssumption DEF CommitKey, OtherTypes, AnyKey, Wiped
  <2>2. r \in Handlers /\ r.op = proc[p].op
    BY <2>1, FillFacts DEF Handlers
  <2>3. proc' = [Fill(proc) EXCEPT ![p] = r]
    BY <1>31, FillFacts DEF CommitKey
  <2>. HIDE DEF r
  <2>4. OtherTypes' /\ state' = record' /\ record'.key = keys' /\ keys' <= sc.keys
    BY <1>1, <1>31, <2>1 DEF CommitKey, OtherTypes, Locks, storeVars, counters
  <2>. QED BY <1>1, <1>2, <2>2, <2>3, <2>4
<1>32. CASE RightPassphrase(p)
  <2>. DEFINE r == [Fill(proc)[p] EXCEPT !.pc = "take"]
  <2>1. r \in Handlers /\ r.op = proc[p].op
    BY FillFacts DEF Handlers
  <2>2. proc' = [Fill(proc) EXCEPT ![p] = r]
    BY <1>32, FillFacts DEF RightPassphrase
  <2>. HIDE DEF r
  <2>3. [state EXCEPT !.locked = FALSE] \in Locks /\ [state EXCEPT !.locked = FALSE].key = keys /\ state.key \in 0..MaxKeys
    BY <1>1 DEF OtherTypes, Locks
  <2>4. OtherTypes' /\ state' = record' /\ record'.key = keys' /\ keys' <= sc.keys
    BY <1>1, <1>32, <2>3 DEF RightPassphrase, OtherTypes, storeVars, counters, AskedInv
  <2>. QED BY <1>1, <1>2, <2>1, <2>2, <2>4
<1>33. CASE StartLock(p)
  <2>. DEFINE r == [Idle EXCEPT !.op = "lock", !.pc = "clear"]
  <2>1. r \in Handlers /\ r.op = "lock" /\ "lock" \in sc.ops
    BY <1>1, <1>33 DEF Handlers, Idle, StartLock, Asked
  <2>2. proc' = [Fill(proc) EXCEPT ![p] = r]
    BY <1>33 DEF StartLock
  <2>. HIDE DEF r
  <2>5. NoKey \in 0..MaxKeys
    BY BoundsAssumption DEF NoKey
  <2>3. [state EXCEPT !.locked = TRUE] \in Locks /\ [state EXCEPT !.locked = TRUE].key = keys
    BY <1>1 DEF OtherTypes, Locks
  <2>4. OtherTypes' /\ state' = record' /\ record'.key = keys' /\ keys' <= sc.keys
    BY <1>1, <1>33, <2>3, <2>5 DEF StartLock, Asked, OtherTypes, storeVars, counters, AskedInv
  <2>. QED BY <1>2, <2>1, <2>2, <2>4
<1>34. CASE ReadAll(p)
  <2>. DEFINE r == [proc[p] EXCEPT !.pc = "write", !.todo = Todo]
  <2>1. r \in Handlers /\ r.op = proc[p].op
    BY <1>1, <1>7 DEF Handlers
  <2>2. [Client EXCEPT !.enabled = TRUE] \in [up : BOOLEAN, enabled : BOOLEAN, key : AnyKey]
    BY <1>7
  <2>3. OtherTypes' /\ UNCHANGED <<record, state, keys>>
    BY <1>1, <1>34, <2>2 DEF ReadAll, OtherTypes, lockVars, counters
  <2>4. Done(p) \/ proc' = [proc EXCEPT ![p] = r]
    BY <1>34 DEF ReadAll
  <2>. HIDE DEF r
  <2>. QED BY <1>1, <1>3, <1>5, <2>1, <2>3, <2>4
<1>35. ASSUME NEW u \in proc[p].todo PROVE u.tag \in Tags /\ u.id \in Nat
  BY <1>1, <1>35 DEF Handlers
<1>36. ASSUME NEW u, proc' = [proc EXCEPT ![p].todo = @ \ {u}], OtherTypes', UNCHANGED <<record, state, keys>>
       PROVE  TypeOK' /\ AskedInv'
  <2>. DEFINE r == [proc[p] EXCEPT !.todo = @ \ {u}]
  <2>1. r \in Handlers /\ r.op = proc[p].op
    BY <1>1 DEF Handlers
  <2>2. proc' = [proc EXCEPT ![p] = r]
    BY <1>36
  <2>. HIDE DEF r
  <2>. QED BY <1>1, <1>3, <1>36, <2>1, <2>2
<1>37. CASE WriteBack(p)
  <2>1. PICK u \in proc[p].todo :
          /\ seeds' = [seeds EXCEPT ![u.tag] = [id |-> u.id, by |-> proc[p].key]]
          /\ proc' = [proc EXCEPT ![p].todo = @ \ {u}]
    BY <1>37 DEF WriteBack
  <2>2. proc[p].key \in AnyKey
    BY <1>1 DEF Handlers
  <2>3. seeds' \in [Tags -> [id : Nat, by : AnyKey]]
    BY <1>7, <1>35, <2>1, <2>2
  <2>4. OtherTypes' /\ UNCHANGED <<record, state, keys>>
    BY <1>1, <1>37, <2>3 DEF WriteBack, OtherTypes, lockVars, counters
  <2>. QED BY <1>36, <2>1, <2>4
<1>38. CASE Migrate(p)
  <2>1. PICK u \in proc[p].todo :
          IF seeds[u.tag] # NoSeed /\ seeds[u.tag].by = NoKey
            THEN IF enc.key = NoKey
                   THEN Done(p) /\ UNCHANGED seeds
                   ELSE /\ seeds' = [seeds EXCEPT ![u.tag].by = enc.key]
                        /\ proc' = [proc EXCEPT ![p].todo = @ \ {u}]
            ELSE proc' = [proc EXCEPT ![p].todo = @ \ {u}] /\ UNCHANGED seeds
    BY <1>38 DEF Migrate
  <2>2. enc.key \in AnyKey /\ [seeds EXCEPT ![u.tag].by = enc.key] \in [Tags -> [id : Nat, by : AnyKey]]
    BY <1>1, <1>35 DEF OtherTypes
  <2>3. OtherTypes' /\ UNCHANGED <<record, state, keys>>
    BY <1>1, <1>38, <2>1, <2>2 DEF Migrate, OtherTypes, lockVars, counters
  <2>. QED BY <1>5, <1>36, <2>1, <2>3
<1>39. ASSUME NEW k \in AnyKey, enc' = WithKey(k), UNCHANGED <<lockVars, seeds, made, misread, counters>>
       PROVE  OtherTypes' /\ UNCHANGED <<record, state, keys>>
  BY <1>1, <1>7, <1>39 DEF OtherTypes, lockVars, counters
<1>40. ASSUME proc' = [proc EXCEPT ![p].pc = "migrate", ![p].todo = Todo], OtherTypes', UNCHANGED <<record, state, keys>>
       PROVE  TypeOK' /\ AskedInv'
  <2>. DEFINE r == [proc[p] EXCEPT !.pc = "migrate", !.todo = Todo]
  <2>1. r \in Handlers /\ r.op = proc[p].op
    BY <1>1, <1>7 DEF Handlers
  <2>2. proc' = [proc EXCEPT ![p] = r]
    BY <1>40
  <2>. HIDE DEF r
  <2>. QED BY <1>1, <1>3, <1>40, <2>1, <2>2
<1>41. CASE FirstKey(p)
  <2>1. proc[p].key \in AnyKey
    BY <1>1 DEF Handlers
  <2>. QED BY <1>39, <1>40, <1>41, <2>1 DEF FirstKey
<1>42. CASE TakeKey(p)
  <2>1. mk \in AnyKey
    BY <1>1, BoundsAssumption DEF OtherTypes, AnyKey, Wiped
  <2>2. CASE mk # NoKey /\ enc.up
    BY <1>39, <1>40, <1>42, <2>1, <2>2 DEF TakeKey
  <2>3. CASE ~(mk # NoKey /\ enc.up)
    <3>. DEFINE r == [proc[p] EXCEPT !.pc = "apply", !.key = mk]
    <3>1. r \in Handlers /\ r.op = proc[p].op
      BY <1>1, <2>1 DEF Handlers
    <3>2. proc' = [proc EXCEPT ![p] = r]
      BY <1>42, <2>3 DEF TakeKey
    <3>. HIDE DEF r
    <3>3. OtherTypes' /\ UNCHANGED <<record, state, keys>>
      BY <1>1, <1>42, <2>3 DEF TakeKey, OtherTypes, lockVars, counters
    <3>. QED BY <1>1, <1>3, <3>1, <3>2, <3>3
  <2>. QED BY <2>2, <2>3
<1>43. CASE ApplyKey(p)
  <2>1. proc[p].key \in AnyKey
    BY <1>1 DEF Handlers
  <2>2. CASE proc[p].key = NoKey
    <3>1. OtherTypes' /\ UNCHANGED <<record, state, keys>> /\ Done(p)
      BY <1>1, <1>7, <1>43, <2>2 DEF ApplyKey, OtherTypes, lockVars, counters
    <3>. QED BY <1>5, <3>1
  <2>3. CASE proc[p].key # NoKey
    BY <1>39, <1>40, <1>43, <2>1, <2>3 DEF ApplyKey
  <2>. QED BY <2>2, <2>3
<1>. QED
  BY <1>8, <1>9, <1>12, <1>13, <1>14, <1>15, <1>16, <1>17, <1>18, <1>19, <1>20, <1>21, <1>22, <1>23, <1>24,
     <1>25, <1>26, <1>27, <1>28, <1>29, <1>30, <1>31, <1>32, <1>33, <1>34, <1>37, <1>38, <1>41, <1>42, <1>43 DEF Handling

(* The types, and what is asked for; the lock record is what the lock has  *)
(* in memory, and its key is the last one made.                            *)
THEOREM TypeCorrect == Spec => [](TypeOK /\ AskedInv)
<1>1. Init => TypeOK /\ AskedInv
  <2>. SUFFICES ASSUME Init PROVE TypeOK /\ AskedInv
    OBVIOUS
  <2>1. sc \in Scenario /\ Idle \in Handlers /\ Idle.op = "none"
    BY ScenarioAssumption, BoundsAssumption DEF Init, Idle, Handlers, AnyKey, Wiped, NoKey
  <2>2. TypeOK
    BY <2>1, BoundsAssumption DEF Init, TypeOK, Locks, AnyKey, Wiped, NoKey, NoSeed, NoStorage
  <2>3. AskedInv
    BY <2>1, BoundsAssumption DEF Init, AskedInv, Scenario, NoKey
  <2>. QED BY <2>2, <2>3
<1>2. ASSUME TypeOK, AskedInv, Next PROVE TypeOK' /\ AskedInv'
  <2>1. CASE Restart
    <3>1. Idle \in Handlers /\ Idle.op = "none"
      BY BoundsAssumption DEF Idle, Handlers, AnyKey, Wiped, NoKey
    <3>2. TypeOK'
      BY <1>2, <2>1, <3>1, BoundsAssumption DEF Next, Restart, TypeOK, NoStorage, AnyKey, Wiped, NoKey
    <3>3. AskedInv'
      BY <1>2, <2>1, <3>1 DEF Next, Restart, AskedInv
    <3>. QED BY <3>2, <3>3
  <2>. QED BY <1>2, <2>1, HandlingTypes DEF Next
<1>3. ASSUME TypeOK, AskedInv, UNCHANGED vars PROVE TypeOK' /\ AskedInv'
  BY <1>3 DEF TypeOK, AskedInv, vars
<1>. QED BY <1>1, <1>2, <1>3, PTL DEF Spec

(***************************************************************************)
(* No zeros are taken for a key                                            *)
(***************************************************************************)

(* In a safe scenario no handler of unlock holds the buffer that is filled *)
(* with zeros.                                                             *)
LEMMA NothingFilled ==
  ASSUME TypeOK, AskedInv, Safe, NEW p \in Procs, Handling(p), proc[p].pc # "apply"
  PROVE  Fill(proc) = proc
<1>1. \A q \in Procs : ~(proc[q].op = "unlock" /\ proc[q].pc = "apply")
  <2>1. CASE sc.overlap
    BY <2>1 DEF Safe, InTurn, AskedInv
  <2>2. CASE ~sc.overlap
    BY <2>2, OneHandler DEF Idle
  <2>. QED BY <2>1, <2>2
<1>. QED BY <1>1 DEF Fill, TypeOK

(* Every step of a handler keeps the buffers whole.                        *)
LEMMA HandlingSafe ==
  ASSUME TypeOK, AskedInv, Safe, NoneWiped, NEW p \in Procs, Handling(p)
  PROVE  NoneWiped'
<1>1. /\ keys \in Nat /\ mk \in Nat /\ enc.key \in Nat /\ proc[p].key \in Nat /\ NoKey = 0
      /\ mk <= keys /\ enc.key <= keys /\ proc[p].key <= keys /\ state.key = keys
      /\ \A t \in Tags : seeds[t].by \in Nat /\ seeds[t].by <= keys
      /\ \A q \in Procs : proc[q].key \in Nat /\ proc[q].key <= keys
  BY BoundsAssumption DEF TypeOK, AskedInv, NoneWiped, Handlers, AnyKey, Wiped, NoKey
<1>2. /\ proc \in [Procs -> Handlers] /\ seeds \in [Tags -> [id : Nat, by : AnyKey]]
      /\ enc \in [up : BOOLEAN, enabled : BOOLEAN, key : AnyKey] /\ proc[p] \in Handlers
  BY DEF TypeOK
<1>3. ASSUME NEW r, proc' = [proc EXCEPT ![p] = r], r.key <= keys', keys' \in {keys, keys + 1},
             mk' <= keys', enc'.key <= keys', \A t \in Tags : seeds'[t].by <= keys'
      PROVE  NoneWiped'
  BY <1>1, <1>2, <1>3 DEF NoneWiped
<1>4. Idle.key = NoKey
  BY DEF Idle
<1>5. Client.key <= keys /\ \A k : WithKey(k).key = k
  BY <1>1 DEF Client, WithKey
<1>6. ASSUME NEW op, NEW r, r.key = NoKey, r \in Handlers, Request(p, op, r), enc' \in {enc, Client}, UNCHANGED <<mk, keys, seeds>>
      PROVE  NoneWiped'
  <2>1. [r EXCEPT !.op = op].key = NoKey
    BY <1>6 DEF Handlers
  <2>2. proc' = [proc EXCEPT ![p] = [r EXCEPT !.op = op]]
    BY <1>6 DEF Request
  <2>3. enc'.key <= keys' /\ mk' <= keys' /\ NoKey <= keys' /\ keys' = keys
    BY <1>1, <1>5, <1>6
  <2>4. \A t \in Tags : seeds'[t].by <= keys'
    BY <1>1, <1>6
  <2>. QED BY <1>3, <2>1, <2>2, <2>3, <2>4
<1>7. ASSUME Done(p), enc'.key <= keys, UNCHANGED <<mk, keys>>, \A t \in Tags : seeds'[t].by <= keys
      PROVE  NoneWiped'
  <2>1. proc' = [proc EXCEPT ![p] = Idle] /\ Idle.key <= keys' /\ mk' <= keys' /\ keys' = keys
    BY <1>1, <1>4, <1>7 DEF Done
  <2>. QED BY <1>3, <1>7, <2>1
<1>8. /\ Idle \in Handlers
      /\ \A pc \in {"commit", "verify", "check"} :
           [Idle EXCEPT !.pc = pc, !.old = state.key] \in Handlers /\ [Idle EXCEPT !.pc = pc, !.old = state.key].key = NoKey
      /\ \A t, s \in Tags, pc \in {"put", "source", "read", "sign", "remove"} :
           /\ [Idle EXCEPT !.pc = pc, !.tag = t] \in Handlers /\ [Idle EXCEPT !.pc = pc, !.tag = t].key = NoKey
           /\ [Idle EXCEPT !.pc = pc, !.tag = t, !.src = s] \in Handlers /\ [Idle EXCEPT !.pc = pc, !.tag = t, !.src = s].key = NoKey
  <2>1. state.key \in 0..MaxKeys /\ NoKey \in AnyKey /\ NoKey \in 0..MaxKeys
    BY BoundsAssumption DEF TypeOK, Locks, AnyKey, Wiped, NoKey
  <2>2. Idle \in Handlers
    BY <2>1 DEF Idle, Handlers
  <2>3. \A pc \in {"commit", "verify", "check"} :
           [Idle EXCEPT !.pc = pc, !.old = state.key] \in Handlers /\ [Idle EXCEPT !.pc = pc, !.old = state.key].key = NoKey
    BY <2>1 DEF Idle, Handlers
  <2>4. \A t \in Tags, pc \in {"put", "source", "read", "sign", "remove"} :
           [Idle EXCEPT !.pc = pc, !.tag = t] \in Handlers /\ [Idle EXCEPT !.pc = pc, !.tag = t].key = NoKey
    BY <2>1 DEF Idle, Handlers
  <2>5. \A t, s \in Tags, pc \in {"put", "source", "read", "sign", "remove"} :
           [Idle EXCEPT !.pc = pc, !.tag = t, !.src = s] \in Handlers /\ [Idle EXCEPT !.pc = pc, !.tag = t, !.src = s].key = NoKey
    BY <2>1 DEF Idle, Handlers
  <2>. QED BY <2>2, <2>3, <2>4, <2>5
<1>9. CASE StartChange(p) \/ StartUnlock(p)
  <2>1. PICK op \in {"change", "unlock"}, pc \in {"commit", "verify", "check"} : Request(p, op, [Idle EXCEPT !.pc = pc, !.old = state.key])
    BY <1>9 DEF StartChange, StartUnlock
  <2>2. enc' \in {enc, Client} /\ UNCHANGED <<mk, keys, seeds>>
    BY <1>9 DEF StartChange, StartUnlock, lockVars, storeVars
  <2>. QED BY <1>6, <1>8, <2>1, <2>2
<1>10. CASE StartNew(p) \/ StartImport(p) \/ StartExport(p) \/ StartSign(p) \/ StartDelete(p) \/ StartAgentKey(p) \/ StartUninstall(p)
  <2>1. PICK op \in AllOps, t \in Tags, pc \in {"put", "read", "sign", "remove"} : Request(p, op, [Idle EXCEPT !.pc = pc, !.tag = t])
    BY <1>10 DEF StartNew, StartImport, StartExport, StartSign, StartDelete, StartAgentKey, StartUninstall, Stored, AllOps
  <2>2. enc' \in {enc, Client} /\ UNCHANGED <<mk, keys, seeds>>
    BY <1>10 DEF StartNew, StartImport, StartExport, StartSign, StartDelete, StartAgentKey, StartUninstall, lockVars, storeVars
  <2>. QED BY <1>6, <1>8, <2>1, <2>2
<1>11. CASE StartDerive(p)
  <2>1. PICK t, s \in Tags : Request(p, "derive", [Idle EXCEPT !.pc = "source", !.tag = t, !.src = s])
    BY <1>11 DEF StartDerive, Stored
  <2>2. enc' \in {enc, Client} /\ UNCHANGED <<mk, keys, seeds>>
    BY <1>11 DEF StartDerive, lockVars
  <2>. QED BY <1>6, <1>8, <2>1, <2>2
<1>12. CASE VerifyOld(p) \/ WrongPassphrase(p) \/ FinishUnlock(p) \/ DeriveFrom(p) \/ ExportSeed(p) \/ Sign(p)
  <2>1. Done(p) \/ \E pc : Goto(p, pc)
    BY <1>12 DEF VerifyOld, WrongPassphrase, FinishUnlock, DeriveFrom, ExportSeed, Sign
  <2>2. UNCHANGED <<mk, keys, seeds, enc>>
    BY <1>12 DEF VerifyOld, WrongPassphrase, FinishUnlock, DeriveFrom, ExportSeed, Sign, lockVars, storeVars
  <2>3. ASSUME NEW pc, Goto(p, pc) PROVE NoneWiped'
    <3>1. proc' = [proc EXCEPT ![p] = [proc[p] EXCEPT !.pc = pc]] /\ [proc[p] EXCEPT !.pc = pc].key = proc[p].key
      BY <1>2, <2>3 DEF Goto, Handlers
    <3>. QED BY <1>1, <1>3, <2>2, <3>1
  <2>. QED BY <1>1, <1>7, <2>1, <2>2, <2>3
<1>13. CASE CommitKey(p)
  <2>1. Fill(proc) = proc
    BY <1>13, NothingFilled DEF CommitKey, At
  <2>. DEFINE r == [proc[p] EXCEPT !.pc = "apply", !.key = keys + 1]
  <2>2. proc' = [proc EXCEPT ![p] = r] /\ r.key = keys + 1
    BY <1>2, <1>13, <2>1 DEF CommitKey, Handlers
  <2>3. keys' = keys + 1 /\ mk' = keys + 1 /\ UNCHANGED <<enc, seeds>>
    BY <1>13 DEF CommitKey, storeVars
  <2>. HIDE DEF r
  <2>4. r.key <= keys' /\ keys' \in {keys, keys + 1} /\ mk' <= keys' /\ enc'.key <= keys'
    BY <1>1, <2>2, <2>3
  <2>5. \A t \in Tags : seeds'[t].by <= keys'
    BY <1>1, <2>3
  <2>. QED BY <1>3, <2>2, <2>4, <2>5
<1>14. CASE RightPassphrase(p)
  <2>1. Fill(proc) = proc
    BY <1>14, NothingFilled DEF RightPassphrase, At
  <2>. DEFINE r == [proc[p] EXCEPT !.pc = "take"]
  <2>2. proc' = [proc EXCEPT ![p] = r] /\ r.key = proc[p].key
    BY <1>2, <1>14, <2>1 DEF RightPassphrase, Handlers
  <2>3. mk' = state.key /\ UNCHANGED <<keys, enc, seeds>>
    BY <1>14 DEF RightPassphrase, storeVars
  <2>. HIDE DEF r
  <2>4. r.key <= keys' /\ keys' \in {keys, keys + 1} /\ mk' <= keys' /\ enc'.key <= keys'
    BY <1>1, <2>2, <2>3
  <2>5. \A t \in Tags : seeds'[t].by <= keys'
    BY <1>1, <2>3
  <2>. QED BY <1>3, <2>2, <2>4, <2>5
<1>15. CASE StartLock(p)
  <2>1. Fill(proc) = proc
    BY <1>15, NothingFilled DEF StartLock, Asked, Idle
  <2>. DEFINE r == [Idle EXCEPT !.op = "lock", !.pc = "clear"]
  <2>2. proc' = [proc EXCEPT ![p] = r] /\ r.key = NoKey
    BY <1>15, <2>1 DEF StartLock, Idle
  <2>3. mk' = NoKey /\ UNCHANGED <<keys, enc, seeds>>
    BY <1>15 DEF StartLock, storeVars
  <2>. HIDE DEF r
  <2>4. r.key <= keys' /\ keys' \in {keys, keys + 1} /\ mk' <= keys' /\ enc'.key <= keys'
    BY <1>1, <2>2, <2>3
  <2>5. \A t \in Tags : seeds'[t].by <= keys'
    BY <1>1, <2>3
  <2>. QED BY <1>3, <2>2, <2>4, <2>5
<1>16. CASE ReadAll(p)
  <2>. DEFINE r == [proc[p] EXCEPT !.pc = "write", !.todo = Todo]
  <2>1. r.key = proc[p].key
    BY <1>2 DEF Handlers
  <2>2. enc'.key <= keys /\ UNCHANGED <<mk, keys, seeds>>
    BY <1>2, <1>5, <1>16 DEF ReadAll, lockVars, Client
  <2>3. Done(p) \/ proc' = [proc EXCEPT ![p] = r]
    BY <1>16 DEF ReadAll
  <2>. HIDE DEF r
  <2>. QED BY <1>1, <1>3, <1>7, <2>1, <2>2, <2>3
<1>17. ASSUME NEW todo, NEW pc, proc' = [proc EXCEPT ![p] = [proc[p] EXCEPT !.pc = pc, !.todo = todo]],
              UNCHANGED <<mk, keys>>, enc'.key <= keys, \A t \in Tags : seeds'[t].by <= keys
       PROVE  NoneWiped'
  <2>. DEFINE r == [proc[p] EXCEPT !.pc = pc, !.todo = todo]
  <2>1. r.key = proc[p].key
    BY <1>2 DEF Handlers
  <2>2. proc' = [proc EXCEPT ![p] = r]
    BY <1>17
  <2>. HIDE DEF r
  <2>. QED BY <1>1, <1>3, <1>17, <2>1, <2>2
<1>18. \A u : [proc EXCEPT ![p].todo = @ \ {u}] = [proc EXCEPT ![p] = [proc[p] EXCEPT !.pc = proc[p].pc, !.todo = proc[p].todo \ {u}]]
  BY <1>2 DEF Handlers
<1>19. CASE WriteBack(p)
  <2>1. PICK u \in proc[p].todo :
          /\ seeds' = [seeds EXCEPT ![u.tag] = [id |-> u.id, by |-> proc[p].key]]
          /\ proc' = [proc EXCEPT ![p].todo = @ \ {u}]
    BY <1>19 DEF WriteBack
  <2>2. \A t \in Tags : seeds'[t].by <= keys
    BY <1>1, <1>2, <2>1
  <2>3. UNCHANGED <<mk, keys, enc>>
    BY <1>19 DEF WriteBack, lockVars
  <2>. QED BY <1>1, <1>17, <1>18, <2>1, <2>2, <2>3
<1>20. CASE Migrate(p)
  <2>1. PICK u \in proc[p].todo :
          IF seeds[u.tag] # NoSeed /\ seeds[u.tag].by = NoKey
            THEN IF enc.key = NoKey
                   THEN Done(p) /\ UNCHANGED seeds
                   ELSE /\ seeds' = [seeds EXCEPT ![u.tag].by = enc.key]
                        /\ proc' = [proc EXCEPT ![p].todo = @ \ {u}]
            ELSE proc' = [proc EXCEPT ![p].todo = @ \ {u}] /\ UNCHANGED seeds
    BY <1>20 DEF Migrate
  <2>2. \A t \in Tags : seeds'[t].by <= keys
    BY <1>1, <1>2, <2>1
  <2>3. UNCHANGED <<mk, keys, enc>>
    BY <1>20 DEF Migrate, lockVars
  <2>. QED BY <1>1, <1>7, <1>17, <1>18, <2>1, <2>2, <2>3
<1>21. ASSUME NEW k \in Nat, k <= keys, enc' = WithKey(k), Done(p) \/ proc' = [proc EXCEPT ![p].pc = "migrate", ![p].todo = Todo],
              UNCHANGED <<mk, keys, seeds>>
       PROVE  NoneWiped'
  <2>1. [proc EXCEPT ![p].pc = "migrate", ![p].todo = Todo] = [proc EXCEPT ![p] = [proc[p] EXCEPT !.pc = "migrate", !.todo = Todo]]
    BY <1>2
  <2>. QED BY <1>1, <1>5, <1>7, <1>17, <1>21, <2>1
<1>22. CASE FinishChange(p) \/ FirstKey(p)
  BY <1>1, <1>21, <1>22 DEF FinishChange, FirstKey, lockVars
<1>23. CASE TakeKey(p)
  <2>1. CASE mk # NoKey /\ enc.up
    BY <1>1, <1>21, <1>23, <2>1 DEF TakeKey, lockVars
  <2>2. CASE ~(mk # NoKey /\ enc.up)
    <3>. DEFINE r == [proc[p] EXCEPT !.pc = "apply", !.key = mk]
    <3>1. proc' = [proc EXCEPT ![p] = r] /\ r.key = mk
      BY <1>2, <1>23, <2>2 DEF TakeKey, Handlers
    <3>2. UNCHANGED <<mk, keys, seeds, enc>>
      BY <1>23, <2>2 DEF TakeKey, lockVars
    <3>. HIDE DEF r
    <3>. QED BY <1>1, <1>3, <3>1, <3>2
  <2>. QED BY <2>1, <2>2
<1>24. CASE ApplyKey(p)
  <2>1. CASE proc[p].key = NoKey
    BY <1>1, <1>5, <1>7, <1>24, <2>1 DEF ApplyKey, lockVars
  <2>2. CASE proc[p].key # NoKey
    BY <1>1, <1>21, <1>24, <2>2 DEF ApplyKey, lockVars
  <2>. QED BY <2>1, <2>2
<1>25. CASE ClearKey(p)
  <2>1. enc'.key = NoKey
    BY <1>2, <1>25 DEF ClearKey
  <2>. QED BY <1>1, <1>7, <1>25, <2>1 DEF ClearKey, lockVars
<1>26. CASE Put(p) \/ PutAgentKey(p) \/ Remove(p)
  <2>1. \A t \in Tags : seeds'[t].by <= keys
    BY <1>1, <1>2, <1>26 DEF Put, PutAgentKey, Remove, PutSeed, NoSeed
  <2>. QED BY <1>1, <1>7, <1>26, <2>1 DEF Put, PutAgentKey, Remove, lockVars
<1>. QED
  BY <1>9, <1>10, <1>11, <1>12, <1>13, <1>14, <1>15, <1>16, <1>19, <1>20, <1>22, <1>23, <1>24, <1>25, <1>26 DEF Handling

(* What the safe scenarios rest on: every key in use is one that was made. *)
THEOREM SafeInvariance == Spec => []SafeInv
<1>1. Init => SafeInv
  BY DEF Init, SafeInv, NoneWiped, NoKey, NoSeed, NoStorage, Idle
<1>2. ASSUME TypeOK, AskedInv, SafeInv, Next PROVE SafeInv'
  <2>1. UNCHANGED sc
    BY <1>2 DEF Next
  <2>2. SUFFICES ASSUME Safe PROVE NoneWiped'
    BY <2>1 DEF SafeInv, Safe, InTurn
  <2>3. CASE Restart
    BY <1>2, <2>2, <2>3 DEF Restart, SafeInv, NoneWiped, TypeOK, NoKey, NoStorage, Idle
  <2>. QED BY <1>2, <2>2, <2>3, HandlingSafe DEF Next, SafeInv
<1>3. ASSUME SafeInv, UNCHANGED vars PROVE SafeInv'
  BY <1>3 DEF SafeInv, Safe, InTurn, NoneWiped, vars
<1>. QED BY <1>1, <1>2, <1>3, TypeCorrect, PTL DEF Spec

(***************************************************************************)
(* Requests in turn                                                        *)
(***************************************************************************)

(* The state, when r is the only handler that may be running.              *)
StateFor(r) ==
  /\ mk = (IF record.locked THEN NoKey ELSE keys) /\ misread = {}
  /\ ~Working(r) => \A t \in Tags : seeds[t].by \in {NoKey, keys}
  /\ keys # NoKey =>
       \/ enc.up /\ enc.enabled /\ (enc.key = mk \/ Working(r) \/ r.pc \in {"take", "clear"})
       \/ r.pc = "apply" /\ r.old = NoKey

(* Every step of a handler keeps what the next one relies on, and no tag    *)
(* gets another seed than a new one.                                       *)
LEMMA HandlingTurn ==
  ASSUME TypeOK, AskedInv, InTurn, NoneWiped, TurnInv, NEW p \in Procs, Handling(p)
  PROVE  TurnInv' /\ SeedsKept
<1>1. PICK a : a = proc[p]
  OBVIOUS
<1>2. /\ a \in Handlers /\ proc \in [Procs -> Handlers] /\ seeds \in [Tags -> [id : Nat, by : AnyKey]]
      /\ enc \in [up : BOOLEAN, enabled : BOOLEAN, key : AnyKey] /\ record \in Locks /\ keys \in Nat /\ mk \in Nat
      /\ NoKey = 0 /\ NoSeed = [id |-> 0, by |-> NoKey] /\ made \in Nat /\ enc.key \in Nat
  BY <1>1, BoundsAssumption DEF TypeOK, NoKey, NoSeed, AnyKey, Wiped
<1>3. state = record /\ record.key = keys /\ enc.key <= keys /\ ~sc.overlap
  BY DEF AskedInv, NoneWiped, InTurn
<1>4. \A q \in Procs \ {p} : proc[q] = Idle
  BY <1>3, OneHandler
<1>5. Idle.pc = "idle" /\ ~Working(Idle)
  BY DEF Idle, Working
<1>6. TurnHandlerInv(a) /\ StateFor(a)
  BY <1>1, <1>4, <1>5 DEF TurnInv, StateFor
<1>7. ASSUME NEW r, proc' = [proc EXCEPT ![p] = r], TurnHandlerInv(r)', StateFor(r)' PROVE TurnInv'
  <2>1. proc'[p] = r /\ \A q \in Procs \ {p} : proc'[q] = Idle
    BY <1>2, <1>4, <1>7
  <2>2. TurnHandlerInv(Idle)'
    BY <1>5 DEF TurnHandlerInv
  <2>3. \A q \in Procs : TurnHandlerInv(proc[q])'
    BY <1>7, <2>1, <2>2
  <2>4. \A q \in Procs : Working(proc[q])' => Working(r)
    BY <1>5, <2>1
  <2>. QED BY <1>7, <2>1, <2>3, <2>4 DEF TurnInv, StateFor
<1>8. ASSUME UNCHANGED seeds PROVE SeedsKept
  BY <1>2, <1>8 DEF SeedsKept
<1>9. enc.up => Client = enc
  BY DEF Client
<1>10. ASSUME NEW op, NEW r \in Handlers, Request(p, op, r), enc' \in {enc, Client}, UNCHANGED <<record, mk, keys, seeds, misread>>,
              r.pc \in {"verify", "commit", "check", "put", "source", "read", "sign", "remove"},
              r.pc \in {"verify", "commit", "check"} => r.old = keys,
              r.pc \in {"verify", "commit"} => op = "change", r.pc = "check" => keys # NoKey /\ op = "unlock",
              r.pc \in {"put", "source"} => r.tag \notin Stored, r.pc = "source" => r.src \in Tags, r.pc = "read" => r.tag \in Tags
       PROVE  TurnInv' /\ SeedsKept
  <2>1. PICK b : b = [r EXCEPT !.op = op]
    OBVIOUS
  <2>2. b.op = op /\ b.pc = r.pc /\ b.old = r.old /\ b.tag = r.tag /\ b.src = r.src /\ proc' = [proc EXCEPT ![p] = b] /\ a = Idle
    BY <1>1, <1>10, <2>1 DEF Handlers, Request, Asked
  <2>3. ~Working(b) /\ b.pc \notin {"take", "clear"}
    BY <1>10, <2>2 DEF Working
  <2>4. TurnHandlerInv(b)'
    BY <1>10, <2>2 DEF TurnHandlerInv, Stored
  <2>5. keys # NoKey => enc' = enc
    BY <1>5, <1>6, <1>9, <1>10, <2>2 DEF StateFor
  <2>6. StateFor(b)'
    BY <1>5, <1>6, <1>10, <2>2, <2>3, <2>5 DEF StateFor
  <2>. QED BY <1>7, <1>8, <1>10, <2>2, <2>4, <2>6
<1>11. ASSUME Done(p), UNCHANGED <<record, mk, keys, misread>>, \A t \in Tags : seeds'[t].by \in {NoKey, keys},
              keys # NoKey => enc'.up /\ enc'.enabled /\ enc'.key = mk
       PROVE  TurnInv'
  <2>1. proc' = [proc EXCEPT ![p] = Idle]
    BY <1>11 DEF Done
  <2>2. PICK r : r = Idle
    OBVIOUS
  <2>3. TurnHandlerInv(r)' /\ StateFor(r)'
    BY <1>5, <1>6, <1>11, <2>2 DEF TurnHandlerInv, StateFor
  <2>. QED BY <1>7, <2>1, <2>2, <2>3
(* The handlers that need nothing: they end, and the state is as it was.   *)
<1>12. ASSUME Done(p), UNCHANGED <<record, mk, keys, seeds, misread, enc>>, a.pc \notin {"apply", "write", "take", "clear"}
       PROVE  TurnInv' /\ SeedsKept
  <2>1. ~Working(a)
    BY <1>12 DEF Working
  <2>. QED BY <1>6, <1>8, <1>11, <1>12, <2>1 DEF StateFor
<1>13. \A pc : At(p, pc) => a.pc = pc
  BY <1>1 DEF At
<1>14. NoKey \in AnyKey /\ NoKey \in 0..MaxKeys
  BY BoundsAssumption DEF AnyKey, Wiped, NoKey
<1>15. ASSUME NEW pc \in {"verify", "commit", "check"}, NEW r, r = [Idle EXCEPT !.pc = pc, !.old = state.key]
       PROVE  r \in Handlers /\ r.pc = pc /\ r.old = keys
  <2>1. state.key \in 0..MaxKeys /\ state.key = keys /\ NoKey \in AnyKey
    BY <1>3, BoundsAssumption DEF TypeOK, Locks, AnyKey, Wiped, NoKey
  <2>. QED BY <1>15, <2>1 DEF Idle, Handlers
<1>16. CASE StartChange(p)
  <2>1. PICK pc \in {"verify", "commit"} : Request(p, "change", [Idle EXCEPT !.pc = pc, !.old = state.key])
    BY <1>16 DEF StartChange
  <2>2. enc' \in {enc, Client} /\ UNCHANGED <<record, mk, keys, seeds, misread>>
    BY <1>16 DEF StartChange, lockVars, storeVars
  <2>3. PICK r : r = [Idle EXCEPT !.pc = pc, !.old = state.key]
    OBVIOUS
  <2>4. r \in Handlers /\ r.pc = pc /\ r.old = keys /\ Request(p, "change", r)
    BY <1>15, <2>1, <2>3
  <2>. QED BY <1>10, <2>2, <2>4
<1>17. CASE StartUnlock(p)
  <2>1. Request(p, "unlock", [Idle EXCEPT !.pc = "check", !.old = state.key]) /\ keys # NoKey
    BY <1>3, <1>17 DEF StartUnlock
  <2>2. enc' \in {enc, Client} /\ UNCHANGED <<record, mk, keys, seeds, misread>>
    BY <1>17 DEF StartUnlock, storeVars
  <2>3. PICK r : r = [Idle EXCEPT !.pc = "check", !.old = state.key]
    OBVIOUS
  <2>4. r \in Handlers /\ r.pc = "check" /\ r.old = keys /\ Request(p, "unlock", r)
    BY <1>15, <2>1, <2>3
  <2>. QED BY <1>10, <2>1, <2>2, <2>4
<1>18. CASE StartNew(p) \/ StartImport(p) \/ StartAgentKey(p)
  <2>1. PICK t \in Tags \ Stored, op \in AllOps : Request(p, op, [Idle EXCEPT !.pc = "put", !.tag = t])
    BY <1>18 DEF StartNew, StartImport, StartAgentKey, AllOps
  <2>2. enc' \in {enc, Client} /\ UNCHANGED <<record, mk, keys, seeds, misread>>
    BY <1>18 DEF StartNew, StartImport, StartAgentKey, lockVars, storeVars
  <2>3. PICK r : r = [Idle EXCEPT !.pc = "put", !.tag = t]
    OBVIOUS
  <2>4. r \in Handlers /\ r.pc = "put" /\ r.tag = t
    BY <1>14, <2>3 DEF Idle, Handlers
  <2>5. Request(p, op, r)
    BY <2>1, <2>3
  <2>. QED BY <1>10, <2>1, <2>2, <2>4, <2>5
<1>19. CASE StartExport(p) \/ StartSign(p) \/ StartDelete(p) \/ StartUninstall(p)
  <2>1. PICK t \in Tags, op \in AllOps, pc \in {"read", "sign", "remove"} : Request(p, op, [Idle EXCEPT !.pc = pc, !.tag = t])
    BY <1>19 DEF StartExport, StartSign, StartDelete, StartUninstall, AllOps, Stored
  <2>2. enc' \in {enc, Client} /\ UNCHANGED <<record, mk, keys, seeds, misread>>
    BY <1>19 DEF StartExport, StartSign, StartDelete, StartUninstall, lockVars, storeVars
  <2>3. PICK r : r = [Idle EXCEPT !.pc = pc, !.tag = t]
    OBVIOUS
  <2>4. r \in Handlers /\ r.pc = pc /\ r.tag = t
    BY <1>14, <2>3 DEF Idle, Handlers
  <2>5. Request(p, op, r)
    BY <2>1, <2>3
  <2>. QED BY <1>10, <2>1, <2>2, <2>4, <2>5
<1>20. CASE StartDerive(p)
  <2>1. PICK t \in Tags \ Stored, s \in Tags : Request(p, "derive", [Idle EXCEPT !.pc = "source", !.tag = t, !.src = s])
    BY <1>20 DEF StartDerive, Stored
  <2>2. enc' \in {enc, Client} /\ UNCHANGED <<record, mk, keys, seeds, misread>>
    BY <1>20 DEF StartDerive, lockVars
  <2>3. PICK r : r = [Idle EXCEPT !.pc = "source", !.tag = t, !.src = s]
    OBVIOUS
  <2>4. r \in Handlers /\ r.pc = "source" /\ r.tag = t /\ r.src = s
    BY <1>14, <2>3 DEF Idle, Handlers
  <2>5. Request(p, "derive", r)
    BY <2>1, <2>3
  <2>. QED BY <1>10, <2>1, <2>2, <2>4, <2>5
<1>21. CASE VerifyOld(p)
  <2>1. a.pc = "verify" /\ UNCHANGED <<record, mk, keys, seeds, misread, enc>>
    BY <1>13, <1>21 DEF VerifyOld, lockVars, storeVars
  <2>2. CASE Done(p)
    BY <1>12, <2>1, <2>2
  <2>3. CASE Goto(p, "commit")
    <3>1. PICK r : r = [a EXCEPT !.pc = "commit"]
      OBVIOUS
    <3>2. proc' = [proc EXCEPT ![p] = r] /\ r.pc = "commit" /\ r.old = a.old /\ r.op = a.op /\ ~Working(r) /\ ~Working(a)
      BY <1>1, <1>2, <2>1, <2>3, <3>1 DEF Goto, Handlers, Working
    <3>3. TurnHandlerInv(r)'
      BY <1>6, <2>1, <3>2 DEF TurnHandlerInv
    <3>4. StateFor(r)'
      BY <1>6, <2>1, <3>2 DEF StateFor
    <3>. QED BY <1>7, <1>8, <2>1, <3>2, <3>3, <3>4
  <2>. QED BY <1>21, <2>2, <2>3 DEF VerifyOld
<1>22. CASE WrongPassphrase(p) \/ FinishUnlock(p) \/ Sign(p)
  <2>1. Done(p) /\ a.pc \in {"check", "migrate", "sign"} /\ UNCHANGED <<record, mk, keys, seeds, misread, enc>>
    BY <1>13, <1>22 DEF WrongPassphrase, FinishUnlock, Sign, lockVars, storeVars
  <2>. QED BY <1>12, <2>1
<1>23. ASSUME NEW t \in Tags, ~Working(a), a.pc \notin {"take", "clear", "apply"}, Misread(t) PROVE UNCHANGED misread
  <2>1. CASE keys # NoKey
    BY <1>6, <1>23, <2>1 DEF Misread, Reads, Encrypts, StateFor
  <2>2. CASE keys = NoKey
    BY <1>6, <1>23, <2>2 DEF Misread, Reads, StateFor
  <2>. QED BY <2>1, <2>2
<1>24. CASE ExportSeed(p)
  <2>1. Done(p) /\ a.pc = "read" /\ Misread(a.tag) /\ a.tag \in Tags /\ ~Working(a) /\ UNCHANGED <<record, mk, keys, seeds, enc>>
    BY <1>1, <1>6, <1>13, <1>24 DEF ExportSeed, lockVars, TurnHandlerInv, Working
  <2>. QED BY <1>12, <1>23, <2>1
<1>25. CASE DeriveFrom(p)
  <2>1. a.pc = "source" /\ Misread(a.src) /\ a.src \in Tags /\ ~Working(a) /\ UNCHANGED <<record, mk, keys, seeds, enc>>
    BY <1>1, <1>6, <1>13, <1>25 DEF DeriveFrom, lockVars, TurnHandlerInv, Working
  <2>2. UNCHANGED misread
    BY <1>23, <2>1
  <2>3. CASE Done(p)
    BY <1>12, <2>1, <2>2, <2>3
  <2>4. CASE Goto(p, "put")
    <3>1. PICK r : r = [a EXCEPT !.pc = "put"]
      OBVIOUS
    <3>2. proc' = [proc EXCEPT ![p] = r] /\ r.pc = "put" /\ r.tag = a.tag /\ ~Working(r)
      BY <1>1, <1>2, <2>1, <2>4, <3>1 DEF Goto, Handlers, Working
    <3>3. TurnHandlerInv(r)'
      BY <1>6, <2>1, <3>2 DEF TurnHandlerInv, Stored
    <3>4. StateFor(r)'
      BY <1>6, <2>1, <2>2, <3>2 DEF StateFor
    <3>. QED BY <1>7, <1>8, <2>1, <3>2, <3>3, <3>4
  <2>. QED BY <1>25, <2>3, <2>4 DEF DeriveFrom
(* What is done with the key of the lock.                                  *)
<1>26. CASE CommitKey(p)
  <2>1. a.pc = "commit" /\ Fill(proc) = proc
    BY <1>13, <1>1, <1>26, NothingFilled DEF CommitKey, At, Safe
  <2>2. PICK r : r = [a EXCEPT !.pc = "apply", !.key = keys + 1]
    OBVIOUS
  <2>3. proc' = [proc EXCEPT ![p] = r] /\ r.pc = "apply" /\ r.key = keys + 1 /\ r.old = a.old /\ r.op = a.op /\ Working(r) /\ ~Working(a)
    BY <1>1, <1>2, <1>26, <2>1, <2>2 DEF CommitKey, Handlers, Working
  <2>4. keys' = keys + 1 /\ mk' = keys + 1 /\ record' = [locked |-> FALSE, key |-> keys + 1] /\ UNCHANGED <<seeds, enc, misread>>
    BY <1>26 DEF CommitKey, storeVars
  <2>5. TurnHandlerInv(r)'
    BY <1>2, <1>6, <2>1, <2>3, <2>4 DEF TurnHandlerInv, StateFor
  <2>6. StateFor(r)'
    BY <1>2, <1>6, <2>1, <2>3, <2>4 DEF StateFor, TurnHandlerInv
  <2>. QED BY <1>7, <1>8, <2>3, <2>4, <2>5, <2>6
<1>27. CASE RightPassphrase(p)
  <2>1. a.pc = "check" /\ Fill(proc) = proc /\ ~Working(a)
    BY <1>13, <1>1, <1>27, NothingFilled DEF RightPassphrase, At, Safe, Working
  <2>2. PICK r : r = [a EXCEPT !.pc = "take"]
    OBVIOUS
  <2>3. proc' = [proc EXCEPT ![p] = r] /\ r.pc = "take" /\ r.op = a.op /\ ~Working(r)
    BY <1>1, <1>2, <1>27, <2>1, <2>2 DEF RightPassphrase, Handlers, Working
  <2>4. mk' = keys /\ ~record'.locked /\ UNCHANGED <<keys, seeds, enc, misread>>
    BY <1>2, <1>3, <1>27 DEF RightPassphrase, storeVars, Locks
  <2>5. TurnHandlerInv(r)' /\ StateFor(r)'
    BY <1>2, <1>6, <2>1, <2>3, <2>4 DEF TurnHandlerInv, StateFor
  <2>. QED BY <1>7, <1>8, <2>3, <2>4, <2>5
<1>28. CASE StartLock(p)
  <2>1. Fill(proc) = proc /\ a = Idle
    BY <1>1, <1>28, <1>5, NothingFilled DEF StartLock, Asked, Safe
  <2>2. PICK r : r = [Idle EXCEPT !.op = "lock", !.pc = "clear"]
    OBVIOUS
  <2>3. proc' = [proc EXCEPT ![p] = r] /\ r.pc = "clear" /\ ~Working(r)
    BY <1>28, <2>1, <2>2 DEF StartLock, Idle, Working
  <2>4. mk' = NoKey /\ record'.locked /\ UNCHANGED <<keys, seeds, enc, misread>>
    BY <1>2, <1>3, <1>28 DEF StartLock, storeVars, Locks
  <2>5. TurnHandlerInv(r)' /\ StateFor(r)'
    BY <1>2, <1>5, <1>6, <2>1, <2>3, <2>4 DEF TurnHandlerInv, StateFor
  <2>. QED BY <1>7, <1>8, <2>3, <2>4, <2>5
<1>29. CASE ClearKey(p)
  <2>1. a.pc = "clear" /\ ~Working(a) /\ Done(p) /\ UNCHANGED <<record, mk, keys, seeds, misread>>
        /\ enc'.up = enc.up /\ enc'.enabled = enc.enabled /\ enc'.key = NoKey
    BY <1>2, <1>13, <1>29 DEF ClearKey, lockVars, Working
  <2>2. mk = NoKey
    BY <1>6, <2>1 DEF TurnHandlerInv, StateFor
  <2>. QED BY <1>6, <1>8, <1>11, <2>1, <2>2 DEF StateFor
(* Seeds.                                                                   *)
<1>30. CASE Put(p)
  <2>1. a.pc = "put" /\ a.tag \notin Stored /\ ~Working(a) /\ Done(p) /\ UNCHANGED <<record, mk, keys, misread, enc>>
    BY <1>6, <1>13, <1>30 DEF Put, lockVars, TurnHandlerInv, Working
  <2>2. enc.key \in {NoKey, keys}
    BY <1>2, <1>3, <1>6, <2>1 DEF StateFor
  <2>3. PICK by \in {NoKey, keys} : UNCHANGED seeds \/ PutSeed(p, by)
    BY <1>30, <2>2 DEF Put
  <2>4. \A t \in Tags : seeds'[t].by \in {NoKey, keys}
    BY <1>2, <1>6, <2>1, <2>3 DEF PutSeed, StateFor
  <2>5. SeedsKept
    BY <1>1, <1>2, <1>8, <2>1, <2>3 DEF PutSeed, SeedsKept, Stored
  <2>. QED BY <1>6, <1>11, <2>1, <2>4, <2>5 DEF StateFor
<1>31. CASE PutAgentKey(p)
  <2>1. a.pc = "put" /\ a.tag \notin Stored /\ ~Working(a) /\ Done(p) /\ PutSeed(p, NoKey) /\ UNCHANGED <<record, mk, keys, misread, enc>>
    BY <1>6, <1>13, <1>31 DEF PutAgentKey, lockVars, TurnHandlerInv, Working
  <2>2. \A t \in Tags : seeds'[t].by \in {NoKey, keys}
    BY <1>2, <1>6, <2>1 DEF PutSeed, StateFor
  <2>3. SeedsKept
    BY <1>1, <1>2, <2>1 DEF PutSeed, SeedsKept, Stored
  <2>. QED BY <1>6, <1>11, <2>1, <2>2, <2>3 DEF StateFor
<1>32. CASE Remove(p)
  <2>1. a.pc = "remove" /\ ~Working(a) /\ Done(p) /\ seeds' = [seeds EXCEPT ![a.tag] = NoSeed] /\ UNCHANGED <<record, mk, keys, misread, enc>>
    BY <1>1, <1>13, <1>32 DEF Remove, lockVars, Working
  <2>2. \A t \in Tags : seeds'[t].by \in {NoKey, keys}
    BY <1>2, <1>6, <2>1 DEF StateFor
  <2>3. SeedsKept
    BY <1>2, <2>1 DEF SeedsKept
  <2>. QED BY <1>6, <1>11, <2>1, <2>2, <2>3 DEF StateFor
(* The change of all seeds to another key.                                 *)
<1>33. \A t \in Tags : seeds[t].by # NoKey => t \in Stored
  BY <1>2 DEF Stored
<1>34. CASE ReadAll(p)
  <2>1. a.pc = "apply" /\ a.op = "change" /\ a.old # NoKey /\ a.key = keys /\ keys # NoKey /\ Working(a) /\ ~record.locked
        /\ UNCHANGED <<record, mk, keys, seeds, misread>>
    BY <1>1, <1>6, <1>13, <1>34 DEF ReadAll, lockVars, TurnHandlerInv, Working
  <2>2. enc' = [enc EXCEPT !.enabled = TRUE] /\ enc.up
    BY <1>6, <1>9, <1>34, <2>1 DEF ReadAll, StateFor, Working
  <2>3. PICK r : r = [a EXCEPT !.pc = "write", !.todo = Todo]
    OBVIOUS
  <2>4. proc' = [proc EXCEPT ![p] = r]
    BY <1>1, <1>6, <1>34, <2>1, <2>3 DEF ReadAll, TurnHandlerInv, Stored
  <2>5. r.pc = "write" /\ r.todo = Todo /\ r.op = "change" /\ r.key = keys /\ Working(r)
    BY <1>2, <2>1, <2>3 DEF Handlers, Working
  <2>6. TodoIs(r)'
    BY <2>1, <2>5 DEF TodoIs, Todo, Stored
  <2>7. ASSUME NEW t \in Tags PROVE seeds[t].by = NoKey \/ \E u \in r.todo : u.tag = t
    <3>1. t \in Stored => [tag |-> t, id |-> seeds[t].id] \in Todo
      BY DEF Todo
    <3>2. [tag |-> t, id |-> seeds[t].id].tag = t
      OBVIOUS
    <3>. QED BY <1>33, <2>5, <3>1, <3>2
  <2>8. TurnHandlerInv(r)'
    BY <2>1, <2>5, <2>6, <2>7 DEF TurnHandlerInv
  <2>9. StateFor(r)'
    BY <1>2, <1>6, <2>1, <2>2, <2>5 DEF StateFor
  <2>. QED BY <1>7, <1>8, <2>1, <2>4, <2>8, <2>9
<1>35. ASSUME NEW u \in a.todo, TodoIs(a), keys # NoKey, UNCHANGED keys, NEW by \in Nat, by = keys, seeds' = [seeds EXCEPT ![u.tag] = [id |-> u.id, by |-> by]]
       PROVE  /\ \A t \in Tags : seeds'[t].id = seeds[t].id /\ (t \in Stored => t \in Stored')
              /\ \A t \in Tags : IF t = u.tag THEN seeds'[t].by = keys ELSE seeds'[t].by = seeds[t].by
  <2>1. u.tag \in Tags /\ seeds[u.tag].id = u.id
    BY <1>35 DEF TodoIs, Stored
  <2>2. [id |-> u.id, by |-> by] # NoSeed
    BY <1>2, <1>35
  <2>. QED BY <1>2, <1>35, <2>1, <2>2 DEF Stored
<1>36. ASSUME NEW u \in a.todo, NEW r, r = [a EXCEPT !.todo = @ \ {u}], TodoIs(a),
              \A t \in Tags : seeds'[t].id = seeds[t].id /\ (t \in Stored => t \in Stored')
       PROVE  TodoIs(r)'
  <2>1. r.todo = a.todo \ {u}
    BY <1>2, <1>36 DEF Handlers
  <2>. QED BY <1>36, <2>1 DEF TodoIs, Stored
<1>37. ASSUME \A t \in Tags : seeds'[t].id = seeds[t].id PROVE SeedsKept
  BY <1>2, <1>37 DEF SeedsKept
<1>38. CASE WriteBack(p)
  <2>1. a.pc = "write" /\ a.op = "change" /\ a.key = keys /\ keys # NoKey /\ Working(a) /\ ~record.locked /\ TodoIs(a)
        /\ UNCHANGED <<record, mk, keys, misread, enc>>
    BY <1>6, <1>13, <1>38 DEF WriteBack, lockVars, TurnHandlerInv, Working
  <2>2. PICK u \in a.todo : /\ seeds' = [seeds EXCEPT ![u.tag] = [id |-> u.id, by |-> a.key]]
                            /\ proc' = [proc EXCEPT ![p].todo = @ \ {u}]
    BY <1>1, <1>38 DEF WriteBack
  <2>3. /\ \A t \in Tags : seeds'[t].id = seeds[t].id /\ (t \in Stored => t \in Stored')
        /\ \A t \in Tags : IF t = u.tag THEN seeds'[t].by = keys ELSE seeds'[t].by = seeds[t].by
    BY <1>2, <1>35, <2>1, <2>2
  <2>4. PICK r : r = [a EXCEPT !.todo = @ \ {u}]
    OBVIOUS
  <2>5. proc' = [proc EXCEPT ![p] = r]
    BY <1>1, <1>2, <2>2, <2>4
  <2>6. r.pc = "write" /\ r.todo = a.todo \ {u} /\ r.op = "change" /\ r.key = keys /\ Working(r)
    BY <1>2, <2>1, <2>4 DEF Handlers, Working
  <2>7. \A t \in Tags : seeds[t].by \in {NoKey, keys} \/ \E v \in a.todo : v.tag = t
    BY <1>6, <2>1 DEF TurnHandlerInv
  <2>8. \A t \in Tags : seeds'[t].by \in {NoKey, keys} \/ \E v \in r.todo : v.tag = t
    BY <2>3, <2>6, <2>7
  <2>9. TodoIs(r)'
    BY <1>36, <2>1, <2>3, <2>4
  <2>10. TurnHandlerInv(r)'
    BY <2>1, <2>6, <2>8, <2>9 DEF TurnHandlerInv
  <2>11. StateFor(r)'
    BY <1>6, <2>1, <2>6 DEF StateFor
  <2>. QED BY <1>7, <1>37, <2>3, <2>5, <2>10, <2>11
<1>39. CASE FirstKey(p)
  <2>1. a.pc = "apply" /\ a.op = "change" /\ a.old = NoKey /\ a.key = keys /\ keys # NoKey /\ ~record.locked
        /\ UNCHANGED <<record, mk, keys, seeds, misread>> /\ \A t \in Tags : seeds[t].by = NoKey
    BY <1>1, <1>6, <1>13, <1>39 DEF FirstKey, lockVars, TurnHandlerInv
  <2>2. enc' = WithKey(keys) /\ mk = keys
    BY <1>1, <1>6, <1>39, <2>1 DEF FirstKey, StateFor
  <2>3. PICK r : r = [a EXCEPT !.pc = "migrate", !.todo = Todo]
    OBVIOUS
  <2>4. proc' = [proc EXCEPT ![p] = r]
    BY <1>1, <1>2, <1>39, <2>3 DEF FirstKey
  <2>5. r.pc = "migrate" /\ r.todo = Todo /\ r.op = "change" /\ r.key = keys /\ ~Working(r)
    BY <1>2, <2>1, <2>3 DEF Handlers, Working
  <2>6. TodoIs(r)'
    BY <2>1, <2>5 DEF TodoIs, Todo, Stored
  <2>7. TurnHandlerInv(r)'
    BY <2>1, <2>2, <2>5, <2>6 DEF TurnHandlerInv, WithKey
  <2>8. StateFor(r)'
    BY <1>6, <2>1, <2>2, <2>5 DEF StateFor, WithKey
  <2>. QED BY <1>7, <1>8, <2>1, <2>4, <2>7, <2>8
<1>40. CASE Migrate(p)
  <2>1. a.pc = "migrate" /\ (a.op = "change" => a.key = keys) /\ keys # NoKey /\ ~Working(a) /\ ~record.locked /\ TodoIs(a) /\ enc.key = keys
        /\ UNCHANGED <<record, mk, keys, misread, enc>>
    BY <1>6, <1>13, <1>40 DEF Migrate, lockVars, TurnHandlerInv, Working
  <2>2. PICK u \in a.todo : /\ seeds' = seeds \/ seeds' = [seeds EXCEPT ![u.tag].by = enc.key]
                            /\ proc' = [proc EXCEPT ![p].todo = @ \ {u}]
    BY <1>1, <1>40, <2>1 DEF Migrate
  <2>3. u.tag \in Tags /\ seeds[u.tag].id = u.id
    BY <2>1 DEF TodoIs, Stored
  <2>4. /\ \A t \in Tags : seeds'[t].id = seeds[t].id /\ (t \in Stored => t \in Stored')
        /\ \A t \in Tags : seeds'[t].by \in {seeds[t].by, keys}
    <3>1. CASE seeds' = seeds
      BY <3>1 DEF Stored
    <3>2. CASE seeds' = [seeds EXCEPT ![u.tag].by = enc.key]
      BY <1>2, <2>1, <2>3, <3>2 DEF Stored
    <3>. QED BY <2>2, <3>1, <3>2
  <2>5. PICK r : r = [a EXCEPT !.todo = @ \ {u}]
    OBVIOUS
  <2>6. proc' = [proc EXCEPT ![p] = r]
    BY <1>1, <1>2, <2>2, <2>5
  <2>7. r.pc = "migrate" /\ r.op = a.op /\ r.key = a.key /\ ~Working(r)
    BY <1>2, <2>1, <2>5 DEF Handlers, Working
  <2>8. TodoIs(r)'
    BY <1>36, <2>1, <2>4, <2>5
  <2>9. TurnHandlerInv(r)'
    BY <2>1, <2>7, <2>8 DEF TurnHandlerInv
  <2>10. StateFor(r)'
    BY <1>6, <2>1, <2>4, <2>7 DEF StateFor
  <2>. QED BY <1>7, <1>37, <2>4, <2>6, <2>9, <2>10
<1>41. CASE FinishChange(p)
  <2>1. a.op = "change" /\ a.pc \in {"write", "migrate"} /\ a.todo = {} /\ a.key = keys /\ ~record.locked
        /\ Done(p) /\ enc' = WithKey(keys) /\ UNCHANGED <<record, mk, keys, seeds, misread>>
    BY <1>1, <1>6, <1>41 DEF FinishChange, lockVars, TurnHandlerInv
  <2>2. \A t \in Tags : seeds[t].by \in {NoKey, keys}
    BY <1>6, <2>1 DEF TurnHandlerInv, StateFor, Working
  <2>. QED BY <1>6, <1>8, <1>11, <2>1, <2>2 DEF StateFor, WithKey
<1>42. CASE TakeKey(p)
  <2>1. a.pc = "take" /\ keys # NoKey /\ ~Working(a) /\ ~record.locked /\ mk = keys /\ enc.up
    BY <1>6, <1>13, <1>42 DEF TakeKey, TurnHandlerInv, StateFor, Working
  <2>2. enc' = WithKey(keys) /\ UNCHANGED <<record, mk, keys, seeds, misread>> /\ proc' = [proc EXCEPT ![p].pc = "migrate", ![p].todo = Todo]
    BY <1>42, <2>1 DEF TakeKey, lockVars
  <2>3. PICK r : r = [a EXCEPT !.pc = "migrate", !.todo = Todo]
    OBVIOUS
  <2>4. proc' = [proc EXCEPT ![p] = r]
    BY <1>1, <1>2, <2>2, <2>3
  <2>5. r.pc = "migrate" /\ r.todo = Todo /\ r.op = a.op /\ r.key = a.key /\ ~Working(r)
    BY <1>2, <2>1, <2>3 DEF Handlers, Working
  <2>6. TodoIs(r)'
    BY <2>2, <2>5 DEF TodoIs, Todo, Stored
  <2>7. TurnHandlerInv(r)'
    BY <1>6, <2>1, <2>2, <2>5, <2>6 DEF TurnHandlerInv, WithKey
  <2>8. StateFor(r)'
    BY <1>6, <2>1, <2>2, <2>5 DEF StateFor, WithKey
  <2>. QED BY <1>7, <1>8, <2>2, <2>4, <2>7, <2>8
<1>43. ~ApplyKey(p)
  BY <1>1, <1>6, <1>13 DEF ApplyKey, TurnHandlerInv
<1>. QED
  BY <1>16, <1>17, <1>18, <1>19, <1>20, <1>21, <1>22, <1>24, <1>25, <1>26, <1>27, <1>28, <1>29, <1>30, <1>31, <1>32,
     <1>34, <1>38, <1>39, <1>40, <1>41, <1>42, <1>43 DEF Handling

(* What the handlers of requests in turn rely on, at each await.           *)
THEOREM TurnInvariance == Spec => []InTurnInv
<1>1. Init => InTurnInv
  BY DEF Init, InTurnInv, TurnInv, TurnHandlerInv, Working, NoKey, NoSeed, NoStorage, Idle
<1>2. ASSUME TypeOK, AskedInv, SafeInv, InTurnInv, Next PROVE InTurnInv'
  <2>1. UNCHANGED sc
    BY <1>2 DEF Next
  <2>2. SUFFICES ASSUME InTurn PROVE TurnInv'
    BY <2>1 DEF InTurnInv, InTurn
  <2>3. ~Restart
    BY <1>2, <2>2 DEF Restart, InTurn, TypeOK
  <2>. QED BY <1>2, <2>2, <2>3, HandlingTurn DEF Next, SafeInv, Safe, InTurnInv
<1>3. ASSUME InTurnInv, UNCHANGED vars PROVE InTurnInv'
  BY <1>3 DEF InTurnInv, InTurn, TurnInv, TurnHandlerInv, Working, TodoIs, Stored, vars
<1>. QED BY <1>1, <1>2, <1>3, TypeCorrect, SafeInvariance, PTL DEF Spec

(* Unless a change of the passphrase is under way, the passphrase of the   *)
(* durable lock record opens every stored seed: in turn without a restart, *)
(* and with restarts or overlaps if there is one passphrase and no unlock  *)
(* overlaps another handler.                                               *)
THEOREM SeedsAreReadable == Spec => []AllSeedsReadable
<1>1. ASSUME TypeOK, AskedInv, SafeInv, InTurnInv PROVE AllSeedsReadable
  <2>1. SUFFICES ASSUME Safe, \A p \in Procs : proc[p].op # "change", NEW t \in Tags PROVE seeds[t].by \in {NoKey, record.key}
    BY DEF AllSeedsReadable, SeedsReadable
  <2>2. CASE InTurn
    BY <1>1, <2>1, <2>2 DEF InTurnInv, TurnInv, TurnHandlerInv, Working, AskedInv
  <2>3. CASE sc.keys <= 1
    BY <1>1, <2>1, <2>3 DEF SafeInv, NoneWiped, AskedInv, TypeOK, Scenario, AnyKey, NoKey
  <2>. QED BY <2>1, <2>2, <2>3 DEF Safe
<1>. QED BY <1>1, TypeCorrect, SafeInvariance, TurnInvariance, PTL

(* Between requests in turn the storage agrees with the lock record: it    *)
(* holds the key exactly when the record says unlocked; and no ciphertext  *)
(* is taken for a seed.                                                    *)
THEOREM StorageFollowsLock == Spec => []InTurnLockAgrees
<1>1. ASSUME TypeOK, AskedInv, InTurnInv PROVE InTurnLockAgrees
  BY <1>1 DEF InTurnLockAgrees, LockAgrees, ReadsTrue, InTurnInv, TurnInv, AskedInv, Quiet, Idle, Working
<1>. QED BY <1>1, TypeCorrect, TurnInvariance, PTL

(* Of requests in turn, no seed is replaced by another, and what appears   *)
(* under a free tag is new.                                                *)
THEOREM TagsKeepTheirSeed == Spec => InTurnSeedsStable
<1>1. ASSUME TypeOK, AskedInv, SafeInv, InTurnInv, [Next]_vars PROVE [InTurn => SeedsKept]_vars
  <2>1. SUFFICES ASSUME InTurn, Next PROVE SeedsKept
    BY <1>1
  <2>2. ~Restart
    BY <1>1, <2>1 DEF Restart, InTurn, TypeOK
  <2>. QED BY <1>1, <2>1, <2>2, HandlingTurn DEF Next, SafeInv, Safe, InTurnInv
<1>. QED BY <1>1, TypeCorrect, SafeInvariance, TurnInvariance, PTL DEF Spec, InTurnSeedsStable
=============================================================================
