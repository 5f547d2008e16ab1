------------------------- MODULE SourceChainProofs -------------------------
(***************************************************************************)
(* Theorems about SourceChain, for any sets of cells and messages: its     *)
(* inductive invariant, chains that only grow and stay signed; then, on top*)
(* of it, atomic zome calls, and the refinement of the append-only log of  *)
(* module ChainLog.                                                        *)
(***************************************************************************)
EXTENDS SourceChain, SequenceTheorems, TLAPS

USE TasksAssumption, CellsAssumption, NullAssumption, BoundsAssumption

LEMMA CellOfType == \A t \in Tasks : CellOf[t] \in Cells
BY TasksAssumption

(* The action records the handlers build are records of the type.          *)
LEMMA NextActionType ==
  ASSUME TypeOK, NEW t \in Tasks, NEW c \in Cells
  PROVE  /\ NextAction(t, db[c].head) \in Action
         /\ HeadAt(NextAction(t, db[c].head)) \in ChainHead
<1>1. db[c].head \in ChainHead \cup {NoHead}
  BY DEF TypeOK, Content
<1>2. signed[t] \in Nat
  BY DEF TypeOK
<1>. QED BY <1>1, <1>2 DEF NextAction, Action, ChainHead, Hashes, HeadAt, HashOf

LEMMA GenesisActionType ==
  ASSUME TypeOK, NEW t \in Tasks
  PROVE  GenesisAction(t) \in Action
<1>1. gen[t] \in Seq(Action) /\ signed[t] \in Nat
  BY DEF TypeOK
<1>2. CASE gen[t] = <<>>
  BY <1>1, <1>2 DEF GenesisAction, Action
<1>3. CASE gen[t] # <<>>
  <2>1. gen[t][Len(gen[t])] \in Action
    BY <1>1, <1>3
  <2>. QED BY <1>1, <1>3, <2>1 DEF GenesisAction, Action, Hashes, HashOf
<1>. QED BY <1>2, <1>3

LEMMA PutActionType ==
  ASSUME NEW rows \in SUBSET Action, NEW a \in Action
  PROVE  PutAction(rows, a) \in SUBSET Action
BY DEF PutAction

LEMMA PastActionType ==
  ASSUME NEW n \in Nat
  PROVE  PastAction(n) \in Action /\ HeadAt(PastAction(n)) \in ChainHead
BY DEF PastAction, Action, Hashes, HeadAt, HashOf, ChainHead

LEMMA StoreType ==
  ASSUME TypeOK, NEW c \in Cells, NEW rows \in SUBSET Action,
         NEW head \in ChainHead \cup {NoHead}, Store(c, rows, head)
  PROVE  db' \in [Cells -> Content]
<1>1. [rows |-> rows, head |-> head] \in Content
  BY DEF Content
<1>2. db \in [Cells -> Content]
  BY DEF TypeOK
<1>. QED BY <1>1, <1>2 DEF Store

LEMMA ContentType ==
  ASSUME TypeOK, NEW c \in Cells
  PROVE  db[c].rows \in SUBSET Action /\ db[c].head \in ChainHead \cup {NoHead}
<1>1. db[c] \in Content
  BY DEF TypeOK
<1>. QED BY <1>1 DEF Content

LEMMA DiskType == TypeOK => disk \in [Cells -> Content]
BY DEF TypeOK, disk

LEMMA GotoType ==
  ASSUME PcTypeOK, NEW t \in Tasks, NEW l \in LabelsOf(t), Goto(t, l)
  PROVE  PcTypeOK'
BY DEF PcTypeOK, Goto, LabelsOf

LEMMA FinishType ==
  ASSUME TypeOK, NEW t \in Tasks, NEW l \in Ended, Finish(t, l)
  PROVE  PcTypeOK' /\ running' \in Calls \cup {NoCall} /\ UNCHANGED <<waiting, crashes>>
<1>1. l \in LabelsOf(t)
  BY DEF LabelsOf, CallLabels, GenesisLabels
<1>2. PcTypeOK /\ running \in Calls \cup {NoCall}
  BY DEF TypeOK
<1>. QED BY <1>1, <1>2, GotoType DEF Finish

LEMMA TypeInit == Init => TypeOK
<1>. SUFFICES ASSUME Init PROVE TypeOK
  OBVIOUS
<1>1. [rows |-> {}, head |-> NoHead] \in Content
  BY DEF Content
<1>2. db \in [Cells -> Content] /\ saved \in [Cells -> Content]
  BY <1>1 DEF Init
<1>3. PcTypeOK
  BY DEF Init, PcTypeOK, LabelsOf, CallLabels, GenesisLabels
<1>4. <<>> \in Seq(Action) /\ <<>> \in Seq(Calls)
  OBVIOUS
<1>5. gen \in [Tasks -> Seq(Action)]
  BY <1>4 DEF Init
<1>. QED BY <1>2, <1>3, <1>4, <1>5 DEF Init, TypeOK

(* The steps of initializeGenesis.                                         *)
LEMMA TypeGenesisStep ==
  ASSUME TypeOK, NEW t \in Tasks, GenesisStep(t)
  PROVE  TypeOK'
<1>. USE CellOfType
<1>. DEFINE c == CellOf[t]
<1>0. PcTypeOK /\ AfterGenesis(t) \in LabelsOf(t) /\ "genesis" \in LabelsOf(t)
  BY DEF TypeOK, AfterGenesis, LabelsOf, CallLabels, GenesisLabels
<1>1. CASE HeadCheck(t)
  <2>1. PcTypeOK'
    BY <1>0, <1>1, GotoType DEF HeadCheck
  <2>. QED BY <1>1, <2>1 DEF HeadCheck, TypeOK, storage, control
<1>2. CASE GenesisPut(t)
  <2>1. GenesisAction(t) \in Action
    BY GenesisActionType
  <2>2. PutAction(db[c].rows, GenesisAction(t)) \in SUBSET Action
    BY <2>1, PutActionType, ContentType
  <2>3. db' \in [Cells -> Content]
    BY <1>2, <2>2, ContentType, StoreType DEF GenesisPut
  <2>4. gen' \in [Tasks -> Seq(Action)]
    BY <1>2, <2>1 DEF GenesisPut, TypeOK
  <2>5. signed' \in [Tasks -> Nat]
    BY <1>2 DEF GenesisPut, TypeOK
  <2>6. PcTypeOK'
    BY <1>0, <1>2 DEF GenesisPut, PcTypeOK
  <2>. QED BY <1>2, <2>3, <2>4, <2>5, <2>6 DEF GenesisPut, TypeOK, control
<1>3. CASE GenesisHead(t)
  <2>0. gen[t] \in Seq(Action) /\ 4 \in 1..Len(gen[t])
    BY <1>3 DEF GenesisHead, TypeOK
  <2>1. gen[t][4] \in Action
    BY <2>0
  <2>2. HeadAt(gen[t][4]) \in ChainHead
    BY <2>1 DEF HeadAt, HashOf, ChainHead, Action, Hashes
  <2>3. db' \in [Cells -> Content]
    BY <1>3, <2>2, ContentType, StoreType DEF GenesisHead
  <2>4. PcTypeOK'
    BY <1>0, <1>3, GotoType DEF GenesisHead
  <2>. QED BY <1>3, <2>3, <2>4 DEF GenesisHead, TypeOK, control
<1>4. CASE GenesisFail(t)
  <2>1. PcTypeOK' /\ running' \in Calls \cup {NoCall} /\ UNCHANGED <<waiting, crashes>>
    BY <1>4, FinishType DEF GenesisFail, Ended
  <2>. QED BY <1>4, <2>1 DEF GenesisFail, TypeOK, storage
<1>. QED BY <1>1, <1>2, <1>3, <1>4 DEF GenesisStep

(* TypeOK is inductive with PostSigned: a head is only written for a signed*)
(* row.                                                                    *)
LEMMA TypeCallStep ==
  ASSUME TypeOK, PostSigned, NEW t \in Calls, CallStep(t)
  PROVE  TypeOK'
<1>. DEFINE c == CellOf[t]
            a == NextAction(t, db[c].head)
<1>1. t \in Tasks /\ c \in Cells /\ PcTypeOK
  BY CellOfType DEF Tasks, TypeOK
<1>2. \A l \in CallLabels : l \in LabelsOf(t)
  BY DEF LabelsOf
<1>3. a \in Action /\ HeadAt(a) \in ChainHead /\ PutAction(db[c].rows, a) \in SUBSET Action
  BY <1>1, NextActionType, ContentType, PutActionType
<1>4. signed[t] \in Nat /\ (signed[t] + 1) \in Nat
  BY <1>1 DEF TypeOK
<1>5. CASE StartCall(t)
  <2>1. PcTypeOK'
    BY <1>1, <1>2, <1>5, GotoType DEF StartCall, CallLabels, Ended
  <2>2. waiting' \in Seq(Calls)
    BY <1>5 DEF StartCall, TypeOK
  <2>. QED BY <1>5, <2>1, <2>2 DEF StartCall, TypeOK, storage
<1>6. CASE GenesisStep(t)
  BY <1>1, <1>6, TypeGenesisStep
<1>7. CASE Begin(t)
  <2>1. CASE inTx
    <3>1. PcTypeOK' /\ running' \in Calls \cup {NoCall} /\ UNCHANGED <<waiting, crashes>>
      BY <1>1, <1>7, <2>1, FinishType DEF Begin, Ended
    <3>. QED BY <1>7, <2>1, <3>1 DEF Begin, TypeOK, storage
  <2>2. CASE ~inTx
    <3>1. PcTypeOK'
      BY <1>1, <1>2, <1>7, <2>2, GotoType DEF Begin, CallLabels
    <3>. QED BY <1>7, <2>2, <3>1 DEF Begin, TypeOK, control
  <2>. QED BY <2>1, <2>2
<1>8. CASE Load(t)
  <2>1. PcTypeOK'
    BY <1>1, <1>2, <1>8, GotoType DEF Load, CallLabels
  <2>. QED BY <1>8, <2>1 DEF Load, TypeOK, storage, control
<1>9. CASE HostWrite(t)
  <2>1. db' \in [Cells -> Content]
    BY <1>1, <1>3, <1>9, StoreType DEF HostWrite
  <2>2. pend' \in [Tasks -> SUBSET Action]
    BY <1>1, <1>3, <1>9 DEF HostWrite, TypeOK
  <2>3. signed' \in [Tasks -> Nat]
    BY <1>1, <1>4, <1>9 DEF HostWrite, TypeOK
  <2>4. PcTypeOK'
    BY <1>1, <1>9 DEF HostWrite, PcTypeOK
  <2>. QED BY <1>9, <2>1, <2>2, <2>3, <2>4 DEF HostWrite, TypeOK, control
<1>10. CASE ExecReturn(t)
  <2>1. PcTypeOK'
    BY <1>1, <1>2, <1>10, GotoType DEF ExecReturn, CallLabels
  <2>. QED BY <1>10, <2>1 DEF ExecReturn, TypeOK, storage, control
<1>11. CASE Abort(t)
  <2>1. PcTypeOK' /\ running' \in Calls \cup {NoCall} /\ UNCHANGED <<waiting, crashes>>
    BY <1>1, <1>11, FinishType DEF Abort, Ended
  <2>. QED BY <1>11, <2>1, DiskType DEF Abort, Rollback, TypeOK
<1>12. CASE Commit(t)
  <2>1. PcTypeOK'
    BY <1>1, <1>2, <1>12, GotoType DEF Commit, CallLabels
  <2>. QED BY <1>12, <2>1 DEF Commit, TypeOK, control
<1>13. CASE PostCommit(t)
  <2>1. PcTypeOK'
    BY <1>1, <1>2, <1>13, GotoType DEF PostCommit, CallLabels
  <2>. QED BY <1>13, <2>1 DEF PostCommit, TypeOK, storage, control
<1>14. CASE PostPut(t)
  <2>1. db' \in [Cells -> Content]
    BY <1>1, <1>3, <1>14, ContentType, StoreType DEF PostPut
  <2>2. signed' \in [Tasks -> Nat]
    BY <1>1, <1>4, <1>14 DEF PostPut, TypeOK
  <2>3. PcTypeOK'
    BY <1>1, <1>2, <1>14, GotoType DEF PostPut, CallLabels
  <2>. QED BY <1>14, <2>1, <2>2, <2>3 DEF PostPut, TypeOK, control
<1>15. CASE PostHead(t)
  <2>1. signed[t] - 1 \in Nat
    BY <1>4, <1>15 DEF PostHead, PostSigned
  <2>a. a.seq \in Nat
    <3>. HIDE DEF a
    <3>. QED BY <1>3 DEF Action
  <2>2. [seq |-> a.seq, hash |-> <<t, signed[t] - 1>>] \in ChainHead
    <3>. HIDE DEF a
    <3>. QED BY <1>1, <2>1, <2>a DEF ChainHead, Hashes
  <2>3. db' \in [Cells -> Content]
    BY <1>1, <1>15, <2>2, ContentType, StoreType DEF PostHead
  <2>4. PcTypeOK'
    BY <1>1, <1>2, <1>15, GotoType DEF PostHead, CallLabels
  <2>. QED BY <1>15, <2>3, <2>4 DEF PostHead, TypeOK, control
<1>16. CASE AnswerCall(t)
  <2>1. PcTypeOK' /\ running' \in Calls \cup {NoCall} /\ UNCHANGED <<waiting, crashes>>
    BY <1>1, <1>16, FinishType DEF AnswerCall, Ended
  <2>a. GenRecords(t) \in SUBSET Action
    BY <1>1 DEF GenRecords, TypeOK
  <2>b. pend[t] \in SUBSET Action /\ handed[c] \in SUBSET Action
    BY <1>1 DEF TypeOK
  <2>2. handed[c] \cup GenRecords(t) \cup pend[t] \in SUBSET Action
    BY <2>a, <2>b
  <2>3. handed' \in [Cells -> SUBSET Action]
    BY <1>1, <1>16, <2>2 DEF AnswerCall, TypeOK
  <2>. QED BY <1>16, <2>1, <2>3 DEF AnswerCall, TypeOK, storage
<1>. QED BY <1>5, <1>6, <1>7, <1>8, <1>9, <1>10, <1>11, <1>12, <1>13, <1>14, <1>15, <1>16
     DEF CallStep

LEMMA TypeStep == TypeOK /\ PostSigned /\ [Next]_vars => TypeOK'
<1>. SUFFICES ASSUME TypeOK, PostSigned, [Next]_vars PROVE TypeOK'
  OBVIOUS
<1>0. PcTypeOK
  BY DEF TypeOK
<1>1. ASSUME NEW t \in Calls, Enqueue(t) PROVE TypeOK'
  <2>1. t \in Tasks /\ "queued" \in LabelsOf(t)
    BY DEF Tasks, LabelsOf, CallLabels
  <2>2. PcTypeOK'
    BY <1>0, <1>1, <2>1, GotoType DEF Enqueue
  <2>. QED BY <1>1, <2>2 DEF Enqueue, TypeOK, storage
<1>2. ASSUME NEW t \in Calls, CallStep(t) PROVE TypeOK'
  BY <1>2, TypeCallStep
<1>3. ASSUME NEW g \in Geneses, GenesisRun(g) PROVE TypeOK'
  <2>1. g \in Tasks /\ g \notin Calls /\ CellOf[g] \in Cells
    BY CellOfType DEF Tasks
  <2>2. CASE StartGenesis(g)
    <3>1. PcTypeOK'
      BY <1>0, <2>1, <2>2, GotoType DEF StartGenesis, LabelsOf, GenesisLabels, Ended
    <3>. QED BY <2>2, <3>1 DEF StartGenesis, TypeOK, storage, control
  <2>3. CASE GenesisStep(g)
    BY <2>1, <2>3, TypeGenesisStep
  <2>4. CASE AnswerGenesis(g)
    <3>1. PcTypeOK' /\ running' \in Calls \cup {NoCall} /\ UNCHANGED <<waiting, crashes>>
      BY <2>1, <2>4, FinishType DEF AnswerGenesis, Ended
    <3>2. GenRecords(g) \in SUBSET Action
      BY <2>1 DEF GenRecords, TypeOK
    <3>3. handed' \in [Cells -> SUBSET Action]
      BY <2>1, <2>4, <3>2 DEF AnswerGenesis, TypeOK
    <3>. QED BY <2>4, <3>1, <3>3 DEF AnswerGenesis, TypeOK, storage
  <2>. QED BY <1>3, <2>2, <2>3, <2>4 DEF GenesisRun
<1>4. ASSUME NEW c \in RecoverCells, Recover(c) PROVE TypeOK'
  <2>1. c \in Cells
    BY CellsAssumption
  <2>0. PICK S \in SUBSET (0..MaxPast) : \E top \in S :
          Store(c, {x \in db[c].rows : x.seq \notin S} \cup {PastAction(n) : n \in S},
                HeadAt(PastAction(top)))
    BY <1>4 DEF Recover
  <2>2. PICK top \in S :
          Store(c, {x \in db[c].rows : x.seq \notin S} \cup {PastAction(n) : n \in S},
                HeadAt(PastAction(top)))
    BY <2>0
  <2>3. {x \in db[c].rows : x.seq \notin S} \cup {PastAction(n) : n \in S} \in SUBSET Action
    BY <2>1, ContentType, PastActionType
  <2>4. HeadAt(PastAction(top)) \in ChainHead
    BY PastActionType
  <2>5. db' \in [Cells -> Content]
    BY <2>1, <2>2, <2>3, <2>4, StoreType
  <2>. QED BY <1>4, <2>5, <1>0 DEF Recover, TypeOK, control, PcTypeOK
<1>5. ASSUME NEW c \in RepublishCells, Republish(c) PROVE TypeOK'
  <2>1. c \in Cells
    BY CellsAssumption
  <2>2. handed' \in [Cells -> SUBSET Action]
    BY <1>5, <2>1, ContentType DEF Republish, TypeOK
  <2>. QED BY <1>5, <2>2, <1>0 DEF Republish, TypeOK, storage, control, PcTypeOK
<1>6. CASE Crash
  <2>1. PcTypeOK'
    BY <1>0, <1>6 DEF Crash, PcTypeOK, LabelsOf, CallLabels, GenesisLabels, Ended
  <2>2. <<>> \in Seq(Calls)
    OBVIOUS
  <2>3. db' \in [Cells -> Content]
    BY <1>6, DiskType DEF Crash, Rollback
  <2>4. crashes' \in Nat
    BY <1>6 DEF Crash, TypeOK
  <2>5. inTx' \in BOOLEAN /\ UNCHANGED saved
    BY <1>6 DEF Crash, Rollback
  <2>. QED BY <1>6, <2>1, <2>2, <2>3, <2>4, <2>5 DEF Crash, TypeOK
<1>7. CASE UNCHANGED vars
  BY <1>0, <1>7 DEF vars, TypeOK, PcTypeOK, storage, control
<1>. QED BY <1>1, <1>2, <1>3, <1>4, <1>5, <1>6, <1>7 DEF Next

(***************************************************************************)
(* Chains as data: what a write does to a sound chain                      *)
(***************************************************************************)
Pair(rows, head) == [rows |-> rows, head |-> head]

(* An action built on the head, stored with or without moving the head.    *)
LEMMA AppendLinked ==
  ASSUME NEW rows \in SUBSET Action, NEW head \in ChainHead, NEW a \in Action,
         Sound(Pair(rows, head)),
         a.seq = head.seq + 1, a.prev = head.hash,
         \A r \in rows : HashOf(r) # HashOf(a)
  PROVE  /\ Sound(Pair(PutAction(rows, a), head))
         /\ Sound(Pair(PutAction(rows, a), HeadAt(a)))
         /\ Chain(Pair(rows, head)) \subseteq Chain(Pair(PutAction(rows, a), head))
         /\ Chain(Pair(rows, head)) \subseteq Chain(Pair(PutAction(rows, a), HeadAt(a)))
         /\ a \in Chain(Pair(PutAction(rows, a), HeadAt(a)))
<1>. DEFINE new == PutAction(rows, a)
<1>0. /\ head # NoHead /\ HeadAt(a) # NoHead
      /\ head.seq \in Nat /\ a.seq \in Nat /\ a.seq > 0
      /\ HeadAt(a).seq = a.seq /\ HeadAt(a).hash = HashOf(a)
      /\ \A r \in rows : r.seq \in Nat
  BY NullAssumption DEF ChainHead, Action, HeadAt, Hashes, HashOf
<1>1. /\ Linked(rows, head)
      /\ \A r, s \in rows : r.seq = s.seq => r = s
  BY <1>0 DEF Sound, Pair
<1>2. \A r : r \in new <=> (r \in rows /\ r.seq # a.seq) \/ r = a
  BY DEF PutAction
<1>3. \A r \in rows : r.seq <= head.seq <=> r.seq # a.seq
  BY <1>0, <1>1 DEF Linked
<1>4. \A r, s \in new : r.seq = s.seq => r = s
  BY <1>1, <1>2
<1>5. \A n \in 0..a.seq : \E r \in new : r.seq = n
  <2>. TAKE n \in 0..a.seq
  <2>1. CASE n = a.seq
    BY <1>2, <2>1
  <2>2. CASE n # a.seq
    <3>1. n \in 0..head.seq
      BY <1>0, <2>2
    <3>. QED BY <1>1, <1>2, <2>2, <3>1 DEF Linked
  <2>. QED BY <2>1, <2>2
<1>6. \A r \in new : r.seq <= a.seq
  BY <1>0, <1>1, <1>2, <1>3
<1>7. PICK top \in rows : HeadAt(top) = head
  BY <1>1 DEF Linked
<1>8. top.seq = head.seq /\ HashOf(top) = head.hash /\ top \in new
  BY <1>0, <1>2, <1>7 DEF HeadAt
<1>9. \A r \in new : r.seq = 0 => r.prev = NoHash
  BY <1>0, <1>1, <1>2 DEF Linked
<1>10. \A r \in new : r.seq > 0 => \E s \in new : s.seq + 1 = r.seq /\ HashOf(s) = r.prev
  <2>. SUFFICES ASSUME NEW r \in new, r.seq > 0
                PROVE  \E s \in new : s.seq + 1 = r.seq /\ HashOf(s) = r.prev
    OBVIOUS
  <2>1. CASE r = a
    BY <1>8, <2>1
  <2>2. CASE r # a
    <3>1. r \in rows /\ r.seq # a.seq
      BY <1>2, <2>2
    <3>2. PICK s \in rows : s.seq + 1 = r.seq /\ HashOf(s) = r.prev
      BY <1>1, <3>1 DEF Linked
    <3>3. r.seq <= head.seq
      BY <1>3, <3>1
    <3>4. s.seq # a.seq
      BY <1>0, <3>1, <3>2, <3>3
    <3>. QED BY <1>2, <3>2, <3>4
  <2>. QED BY <2>1, <2>2
<1>11. Linked(new, HeadAt(a))
  <2>1. a \in new
    BY <1>2
  <2>2. \A r \in new : r.seq <= HeadAt(a).seq + 1
    <3>1. \A r \in new : r.seq \in Nat
      BY <1>0, <1>2
    <3>. QED BY <1>0, <1>6, <3>1
  <2>. QED BY <1>0, <1>5, <1>9, <1>10, <2>1, <2>2 DEF Linked
<1>12. Linked(new, head)
  <2>1. \A n \in 0..head.seq : \E r \in new : r.seq = n
    BY <1>0, <1>5
  <2>2. \A r \in new : r.seq <= head.seq + 1
    BY <1>6
  <2>. QED BY <1>7, <1>8, <1>9, <1>10, <2>1, <2>2 DEF Linked
<1>13. \A r \in rows : r.seq <= head.seq => r \in new /\ r.seq <= a.seq
  BY <1>0, <1>2, <1>3
<1>. HIDE DEF new
<1>14. Sound(Pair(new, head)) /\ Sound(Pair(new, HeadAt(a)))
  BY <1>0, <1>4, <1>11, <1>12 DEF Sound, Pair
<1>15. a \in new
  BY <1>2
<1>. QED BY <1>0, <1>13, <1>14, <1>15 DEF Chain, Pair, new

(* The row a post_commit write left beyond the head becomes the head.      *)
LEMMA DanglingLinked ==
  ASSUME NEW rows \in SUBSET Action, NEW head \in ChainHead, NEW a \in rows,
         Sound(Pair(rows, head)), a.seq = head.seq + 1
  PROVE  /\ Sound(Pair(rows, HeadAt(a)))
         /\ Chain(Pair(rows, head)) \subseteq Chain(Pair(rows, HeadAt(a)))
<1>0. /\ head # NoHead /\ HeadAt(a) # NoHead
      /\ head.seq \in Nat /\ a.seq \in Nat
      /\ HeadAt(a).seq = a.seq
      /\ \A r \in rows : r.seq \in Nat
  BY NullAssumption DEF ChainHead, Action, HeadAt, Hashes, HashOf
<1>1. Linked(rows, head) /\ \A r, s \in rows : r.seq = s.seq => r = s
  BY <1>0 DEF Sound, Pair
<1>2. \A n \in 0..a.seq : \E r \in rows : r.seq = n
  <2>. TAKE n \in 0..a.seq
  <2>1. CASE n = a.seq
    BY <2>1
  <2>2. CASE n # a.seq
    <3>1. n \in 0..head.seq
      BY <1>0, <2>2
    <3>. QED BY <1>1, <3>1 DEF Linked
  <2>. QED BY <2>1, <2>2
<1>3. \A r \in rows : r.seq <= HeadAt(a).seq + 1
  BY <1>0, <1>1 DEF Linked
<1>4. Linked(rows, HeadAt(a))
  BY <1>0, <1>1, <1>2, <1>3 DEF Linked
<1>5. \A r \in rows : r.seq <= head.seq => r.seq <= a.seq
  BY <1>0
<1>. QED BY <1>0, <1>1, <1>4, <1>5 DEF Sound, Pair, Chain

(* A genesis action stored before there is a head.                         *)
LEMMA GenesisPutSound ==
  ASSUME NEW rows \in SUBSET Action, NEW a \in Action,
         Sound(Pair(rows, NoHead)), a.seq <= 3
  PROVE  Sound(Pair(PutAction(rows, a), NoHead))
BY DEF Sound, Pair, PutAction

(* Four linked genesis records found the chain.                            *)
LEMMA GenesisHeadSound ==
  ASSUME NEW rows \in SUBSET Action, NEW g \in Seq(Action),
         Sound(Pair(rows, NoHead)), Len(g) = 4,
         \A i \in 1..4 : /\ g[i] \in rows
                         /\ g[i].seq = i - 1
                         /\ g[i].prev = IF i = 1 THEN NoHash ELSE HashOf(g[i - 1])
  PROVE  /\ Sound(Pair(rows, HeadAt(g[4])))
         /\ \A i \in 1..4 : g[i] \in Chain(Pair(rows, HeadAt(g[4])))
<1>0. \A r \in rows : r.seq \in Nat
  BY DEF Action
<1>1. /\ \A r, s \in rows : r.seq = s.seq => r = s
      /\ \A r \in rows : r.seq <= 3
  BY DEF Sound, Pair
<1>2. g[4] \in rows /\ g[4].seq = 3
  OBVIOUS
<1>3. HeadAt(g[4]) # NoHead /\ HeadAt(g[4]).seq = 3
  BY <1>2, NullAssumption DEF HeadAt, HashOf, Action
<1>4. \A n \in 0..3 : g[n + 1] \in rows /\ g[n + 1].seq = n
  <2>. TAKE n \in 0..3
  <2>1. n + 1 \in 1..4
    OBVIOUS
  <2>. QED BY <2>1
<1>5. \A r \in rows : r = g[r.seq + 1] /\ r.seq \in 0..3
  <2>. TAKE r \in rows
  <2>1. r.seq \in 0..3
    BY <1>0, <1>1
  <2>. QED BY <1>1, <1>4, <2>1
<1>6. \A r \in rows : r.seq = 0 => r.prev = NoHash
  BY <1>5
<1>7. \A r \in rows : r.seq > 0 => \E s \in rows : s.seq + 1 = r.seq /\ HashOf(s) = r.prev
  <2>. SUFFICES ASSUME NEW r \in rows, r.seq > 0
                PROVE  \E s \in rows : s.seq + 1 = r.seq /\ HashOf(s) = r.prev
    OBVIOUS
  <2>1. r.seq \in 1..3 /\ r = g[r.seq + 1]
    BY <1>5
  <2>2. r.seq + 1 \in 1..4 /\ r.seq + 1 # 1 /\ r.seq \in 1..4 /\ (r.seq + 1) - 1 = r.seq
    BY <2>1
  <2>3. r.prev = HashOf(g[r.seq]) /\ g[r.seq] \in rows /\ g[r.seq].seq = r.seq - 1
    BY <2>1, <2>2
  <2>. QED BY <2>1, <2>3
<1>8. Linked(rows, HeadAt(g[4]))
  BY <1>0, <1>1, <1>2, <1>3, <1>4, <1>6, <1>7 DEF Linked
<1>9. \A i \in 1..4 : g[i] \in rows /\ g[i].seq <= 3
  OBVIOUS
<1>. QED BY <1>1, <1>3, <1>8, <1>9 DEF Sound, Pair, Chain

(***************************************************************************)
(* One call at a time                                                      *)
(***************************************************************************)
LEMMA GotoSerial ==
  ASSUME TypeOK, Serial, NEW t \in Calls, pc[t] \in ActiveLabels,
         NEW l \in ActiveLabels, Goto(t, l), running' = running,
         inTx' <=> l \in TxLabels
  PROVE  Serial'
<1>1. pc \in [Tasks -> CallLabels \cup GenesisLabels] /\ t \in Tasks /\ NoCall \notin Tasks
  BY DEF TypeOK, PcTypeOK, Tasks
<1>2. running = t /\ \A u \in Calls \ {t} : pc[u] \notin ActiveLabels
  BY DEF Serial
<1>3. pc'[t] = l /\ \A u \in Calls \ {t} : pc'[u] = pc[u]
  BY <1>1 DEF Goto, Tasks
<1>4. \A x \in TxLabels : x \in ActiveLabels
  BY DEF ActiveLabels, FoundedLabels
<1>. QED BY <1>1, <1>2, <1>3, <1>4 DEF Serial

LEMMA EndSerial ==
  ASSUME TypeOK, Serial, NEW t \in Calls, pc[t] \in ActiveLabels,
         NEW l \in Ended, Goto(t, l), ~inTx'
  PROVE  Serial'
<1>1. pc \in [Tasks -> CallLabels \cup GenesisLabels] /\ t \in Tasks
  BY DEF TypeOK, PcTypeOK, Tasks
<1>2. \A u \in Calls \ {t} : pc[u] \notin ActiveLabels
  BY DEF Serial
<1>3. pc'[t] = l /\ \A u \in Calls \ {t} : pc'[u] = pc[u]
  BY <1>1 DEF Goto, Tasks
<1>4. l \notin ActiveLabels /\ \A x \in TxLabels : x \in ActiveLabels
  BY DEF ActiveLabels, FoundedLabels, TxLabels, Ended
<1>. QED BY <1>2, <1>3, <1>4 DEF Serial

(* A step of a handler that is no call, or that starts or queues one.      *)
LEMMA OtherSerial ==
  ASSUME TypeOK, Serial, inTx' = inTx, running' = running,
         \A t \in Calls : pc'[t] = pc[t] \/ (pc[t] \notin ActiveLabels /\ pc'[t] \notin ActiveLabels)
  PROVE  Serial'
<1>1. \A x \in TxLabels : x \in ActiveLabels
  BY DEF ActiveLabels, FoundedLabels
<1>2. running \in Calls \cup {NoCall}
  BY DEF TypeOK
<1>. QED BY <1>1, <1>2 DEF Serial

LEMMA SerialCallStep ==
  ASSUME TypeOK, Serial, NEW t \in Calls, CallStep(t)
  PROVE  Serial'
<1>. USE DEF ActiveLabels, FoundedLabels, TxLabels
<1>0. pc \in [Tasks -> CallLabels \cup GenesisLabels] /\ t \in Tasks /\ t # NoCall
  BY DEF TypeOK, PcTypeOK, Tasks
<1>a. \A l : Goto(t, l) => pc'[t] = l /\ \A u \in Calls \ {t} : pc'[u] = pc[u]
  BY <1>0 DEF Goto, Tasks
<1>b. pc[t] \in TxLabels <=> inTx /\ pc[t] \in ActiveLabels
  <2>1. pc[t] \in ActiveLabels => running = t
    BY DEF Serial
  <2>. QED BY <2>1 DEF Serial
<1>1. CASE StartCall(t)
  <2>1. CASE pc'[t] = "failed"
    BY <1>0, <1>a, <1>1, <2>1, OtherSerial DEF StartCall, storage, Goto
  <2>2. CASE pc'[t] = "headcheck"
    <3>1. running = NoCall /\ running' = t /\ inTx' = inTx /\ Goto(t, "headcheck")
      BY <1>0, <1>a, <1>1, <2>2 DEF StartCall, storage
    <3>2. ~inTx /\ \A u \in Calls : pc[u] \notin ActiveLabels
      BY <3>1 DEF Serial, TypeOK, Tasks
    <3>. QED BY <1>a, <3>1, <3>2 DEF Serial
  <2>. QED BY <1>a, <1>1, <2>1, <2>2 DEF StartCall
<1>2. CASE GenesisStep(t)
  <2>1. CASE HeadCheck(t)
    <3>1. CASE db[CellOf[t]].head = NoHead
      BY <1>b, <2>1, <3>1, GotoSerial DEF HeadCheck, storage, control
    <3>2. CASE db[CellOf[t]].head # NoHead
      BY <1>b, <2>1, <3>2, GotoSerial DEF HeadCheck, storage, control, AfterGenesis
    <3>. QED BY <3>1, <3>2
  <2>2. CASE GenesisPut(t)
    BY <2>2, OtherSerial DEF GenesisPut, control
  <2>3. CASE GenesisHead(t)
    BY <1>b, <2>3, GotoSerial DEF GenesisHead, control, AfterGenesis
  <2>4. CASE GenesisFail(t)
    BY <1>b, <2>4, EndSerial DEF GenesisFail, Finish, storage, Ended
  <2>. QED BY <1>2, <2>1, <2>2, <2>3, <2>4 DEF GenesisStep
<1>3. CASE Begin(t)
  <2>1. ~inTx
    BY <1>b, <1>3 DEF Begin
  <2>. QED BY <1>3, <2>1, GotoSerial DEF Begin, control
<1>4. CASE Load(t)
  BY <1>b, <1>4, GotoSerial DEF Load, storage, control
<1>5. CASE HostWrite(t)
  BY <1>5, OtherSerial DEF HostWrite, control
<1>6. CASE ExecReturn(t)
  BY <1>b, <1>6, GotoSerial DEF ExecReturn, storage, control
<1>7. CASE Abort(t)
  BY <1>7, EndSerial DEF Abort, Finish, Rollback, Ended
<1>8. CASE Commit(t)
  BY <1>8, GotoSerial DEF Commit, control
<1>9. CASE PostCommit(t)
  BY <1>b, <1>9, GotoSerial DEF PostCommit, storage, control
<1>10. CASE PostPut(t)
  BY <1>b, <1>10, GotoSerial DEF PostPut, control
<1>11. CASE PostHead(t)
  BY <1>b, <1>11, GotoSerial DEF PostHead, control
<1>12. CASE AnswerCall(t)
  BY <1>b, <1>12, EndSerial DEF AnswerCall, Finish, storage, Ended
<1>. QED BY <1>1, <1>2, <1>3, <1>4, <1>5, <1>6, <1>7, <1>8, <1>9, <1>10, <1>11, <1>12
     DEF CallStep

LEMMA SerialStep == TypeOK /\ Serial /\ [Next]_vars => Serial'
<1>. SUFFICES ASSUME TypeOK, Serial, [Next]_vars PROVE Serial'
  OBVIOUS
<1>0. /\ pc \in [Tasks -> CallLabels \cup GenesisLabels]
      /\ running \in Calls \cup {NoCall}
      /\ NoCall \notin Tasks
  BY DEF TypeOK, PcTypeOK
<1>1. ASSUME NEW t \in Calls, Enqueue(t) PROVE Serial'
  <2>1. \A u \in Calls : pc'[u] = pc[u] \/ (u = t /\ pc[u] = "new" /\ pc'[u] = "queued")
    BY <1>0, <1>1 DEF Enqueue, Goto, Tasks
  <2>2. "new" \notin ActiveLabels /\ "queued" \notin ActiveLabels
    BY DEF ActiveLabels, FoundedLabels, TxLabels
  <2>. QED BY <1>1, <2>1, <2>2, OtherSerial DEF Enqueue, storage
<1>2. ASSUME NEW t \in Calls, CallStep(t) PROVE Serial'
  BY <1>2, SerialCallStep
<1>3. ASSUME NEW g \in Geneses, GenesisRun(g) PROVE Serial'
  <2>1. g \in Tasks /\ g \notin Calls /\ g # running
    BY <1>0 DEF Tasks
  <2>2. \A u \in Calls : pc'[u] = pc[u]
    BY <1>0, <1>3, <2>1
       DEF GenesisRun, StartGenesis, GenesisStep, HeadCheck, GenesisPut, GenesisHead,
           GenesisFail, AnswerGenesis, Finish, Goto, Tasks
  <2>3. inTx' = inTx /\ running' = running
    BY <1>3, <2>1
       DEF GenesisRun, StartGenesis, GenesisStep, HeadCheck, GenesisPut, GenesisHead,
           GenesisFail, AnswerGenesis, Finish, storage, control
  <2>. QED BY <2>2, <2>3, OtherSerial
<1>4. ASSUME NEW c \in RecoverCells, Recover(c) PROVE Serial'
  BY <1>4, OtherSerial DEF Recover, control
<1>5. ASSUME NEW c \in RepublishCells, Republish(c) PROVE Serial'
  BY <1>5, OtherSerial DEF Republish, storage, control
<1>6. CASE Crash
  <2>1. ~inTx' /\ \A u \in Calls : pc'[u] \in Ended \cup {"new"}
    BY <1>6 DEF Crash, Rollback, Tasks, Ended
  <2>2. \A l \in Ended \cup {"new"} : l \notin ActiveLabels /\ l \notin TxLabels
    BY DEF ActiveLabels, FoundedLabels, TxLabels, Ended
  <2>. QED BY <2>1, <2>2 DEF Serial
<1>7. CASE UNCHANGED vars
  BY <1>7, OtherSerial DEF vars, storage, control
<1>. QED BY <1>1, <1>2, <1>3, <1>4, <1>5, <1>6, <1>7 DEF Next

(***************************************************************************)
(* Fresh hashes                                                            *)
(***************************************************************************)
(* A task signs an action and stores it in its cell.                       *)
LEMMA FreshWrite ==
  ASSUME TypeOK, HashesFresh, NEW t \in Tasks, NEW a \in Action, NEW head,
         a.by = t, a.nth = signed[t],
         Store(CellOf[t], PutAction(db[CellOf[t]].rows, a), head),
         signed' = [signed EXCEPT ![t] = @ + 1],
         saved' = saved
  PROVE  HashesFresh'
<1>. DEFINE c == CellOf[t]
<1>1. /\ signed \in [Tasks -> Nat] /\ db \in [Cells -> Content] /\ c \in Cells
  BY CellOfType DEF TypeOK
<1>2. \A u \in Tasks : signed[u] <= signed'[u] /\ signed[t] < signed'[t] /\ signed[u] \in Nat /\ signed'[u] \in Nat
  BY <1>1
<1>3. \A d \in Cells : \A x \in db'[d].rows : x \in db[d].rows \/ x = a
  BY <1>1 DEF Store, PutAction
<1>4. \A d \in Cells : \A x \in db[d].rows \cup saved[d].rows : x.nth \in Nat
  BY <1>1 DEF TypeOK, Content, Action
<1>. QED BY <1>2, <1>3, <1>4 DEF HashesFresh, Fresh

(* No step that leaves the signatures alone brings rows the database or    *)
(* the last committed content did not have, but for recovered ones.        *)
LEMMA FreshKept ==
  ASSUME HashesFresh, signed' = signed,
         \A c \in Cells : \A x \in db'[c].rows \cup saved'[c].rows :
            x \in db[c].rows \cup saved[c].rows \/ x.by \notin Tasks
  PROVE  HashesFresh'
BY DEF HashesFresh, Fresh

LEMMA FreshGenesisStep ==
  ASSUME TypeOK, HashesFresh, NEW t \in Tasks, GenesisStep(t)
  PROVE  HashesFresh'
<1>1. CASE HeadCheck(t)
  BY <1>1, FreshKept DEF HeadCheck, storage
<1>2. CASE GenesisPut(t)
  <2>1. GenesisAction(t) \in Action
    BY GenesisActionType
  <2>2. GenesisAction(t).by = t /\ GenesisAction(t).nth = signed[t]
    BY DEF GenesisAction
  <2>. QED BY <1>2, <2>1, <2>2, FreshWrite DEF GenesisPut
<1>3. CASE GenesisHead(t)
  <2>1. \A c \in Cells : db'[c].rows = db[c].rows
    BY <1>3, CellOfType DEF GenesisHead, Store, TypeOK, Content
  <2>. QED BY <1>3, <2>1, FreshKept DEF GenesisHead
<1>4. CASE GenesisFail(t)
  BY <1>4, FreshKept DEF GenesisFail, storage
<1>. QED BY <1>1, <1>2, <1>3, <1>4 DEF GenesisStep

LEMMA FreshStep == TypeOK /\ HashesFresh /\ [Next]_vars => HashesFresh'
<1>. SUFFICES ASSUME TypeOK, HashesFresh, [Next]_vars PROVE HashesFresh'
  OBVIOUS
<1>1. ASSUME NEW t \in Calls, Enqueue(t) PROVE HashesFresh'
  BY <1>1, FreshKept DEF Enqueue, storage
<1>2. ASSUME NEW t \in Calls, CallStep(t) PROVE HashesFresh'
  <2>. DEFINE c == CellOf[t]
              a == NextAction(t, db[c].head)
  <2>0. t \in Tasks /\ c \in Cells
    BY CellOfType DEF Tasks
  <2>a. a \in Action /\ a.by = t /\ a.nth = signed[t]
    BY <2>0, NextActionType DEF NextAction
  <2>1. CASE StartCall(t) \/ Load(t) \/ ExecReturn(t) \/ PostCommit(t) \/ AnswerCall(t)
    <3>1. UNCHANGED <<db, saved, signed>>
      BY <2>1 DEF StartCall, Load, ExecReturn, PostCommit, AnswerCall, storage
    <3>. QED BY <3>1, FreshKept
  <2>2. CASE GenesisStep(t)
    BY <2>0, <2>2, FreshGenesisStep
  <2>3. CASE Begin(t)
    BY <2>3, FreshKept DEF Begin, storage
  <2>4. CASE HostWrite(t)
    <3>1. Store(c, PutAction(db[c].rows, a), HeadAt(a)) /\ saved' = saved
          /\ signed' = [signed EXCEPT ![t] = @ + 1]
      BY <2>4 DEF HostWrite
    <3>. HIDE DEF a
    <3>. QED BY <2>0, <2>a, <3>1, FreshWrite
  <2>5. CASE Abort(t)
    BY <2>5, FreshKept DEF Abort, Rollback, disk
  <2>6. CASE Commit(t)
    BY <2>6, FreshKept DEF Commit
  <2>7. CASE PostPut(t)
    <3>1. Store(c, PutAction(db[c].rows, a), db[c].head) /\ saved' = saved
          /\ signed' = [signed EXCEPT ![t] = @ + 1]
      BY <2>7 DEF PostPut
    <3>. HIDE DEF a
    <3>. QED BY <2>0, <2>a, <3>1, FreshWrite
  <2>8. CASE PostHead(t)
    <3>1. \A d \in Cells : db'[d].rows = db[d].rows
      BY <2>0, <2>8 DEF PostHead, Store, TypeOK, Content
    <3>. QED BY <2>8, <3>1, FreshKept DEF PostHead
  <2>. QED BY <1>2, <2>1, <2>2, <2>3, <2>4, <2>5, <2>6, <2>7, <2>8 DEF CallStep
<1>3. ASSUME NEW g \in Geneses, GenesisRun(g) PROVE HashesFresh'
  <2>1. CASE StartGenesis(g) \/ AnswerGenesis(g)
    <3>1. UNCHANGED <<db, saved, signed>>
      BY <2>1 DEF StartGenesis, AnswerGenesis, storage
    <3>. QED BY <3>1, FreshKept
  <2>2. CASE GenesisStep(g)
    BY <2>2, FreshGenesisStep DEF Tasks
  <2>. QED BY <1>3, <2>1, <2>2 DEF GenesisRun
<1>4. ASSUME NEW c \in RecoverCells, Recover(c) PROVE HashesFresh'
  <2>1. c \in Cells /\ db \in [Cells -> Content]
    BY CellsAssumption DEF TypeOK
  <2>2. PICK S \in SUBSET (0..MaxPast) : \E top \in S :
          Store(c, {x \in db[c].rows : x.seq \notin S} \cup {PastAction(n) : n \in S},
                HeadAt(PastAction(top)))
    BY <1>4 DEF Recover
  <2>3. db'[c].rows = {x \in db[c].rows : x.seq \notin S} \cup {PastAction(n) : n \in S}
        /\ \A d \in Cells \ {c} : db'[d] = db[d]
    BY <2>1, <2>2 DEF Store
  <2>4. \A x \in {PastAction(n) : n \in S} : x.by \notin Tasks
    BY TasksAssumption DEF PastAction
  <2>5. \A d \in Cells : \A x \in db'[d].rows : x \in db[d].rows \/ x.by \notin Tasks
    BY <2>3, <2>4
  <2>. QED BY <1>4, <2>5, FreshKept DEF Recover
<1>5. ASSUME NEW c \in RepublishCells, Republish(c) PROVE HashesFresh'
  BY <1>5, FreshKept DEF Republish, storage
<1>6. CASE Crash
  BY <1>6, FreshKept DEF Crash, Rollback, disk
<1>7. CASE UNCHANGED vars
  BY <1>7, FreshKept DEF vars, storage
<1>. QED BY <1>1, <1>2, <1>3, <1>4, <1>5, <1>6, <1>7 DEF Next

(***************************************************************************)
(* The type theorem                                                        *)
(***************************************************************************)
LEMMA PostSignedStep == TypeOK /\ PostSigned /\ [Next]_vars => PostSigned'
<1>. SUFFICES ASSUME TypeOK, PostSigned, [Next]_vars, NEW u \in Calls, pc'[u] = "posthead"
              PROVE  signed'[u] > 0
  BY DEF PostSigned
<1>0. /\ u \in Tasks
      /\ pc \in [Tasks -> CallLabels \cup GenesisLabels]
      /\ signed \in [Tasks -> Nat]
  BY DEF TypeOK, PcTypeOK, Tasks
<1>a. UNCHANGED signed \/ \E t \in Tasks : signed' = [signed EXCEPT ![t] = @ + 1]
  BY DEF Next, Enqueue, CallStep, GenesisRun, GenesisStep, StartCall, HeadCheck, GenesisPut,
         GenesisHead, GenesisFail, Begin, Load, HostWrite, ExecReturn, Abort, Commit,
         PostCommit, PostPut, PostHead, AnswerCall, StartGenesis, AnswerGenesis, Recover,
         Republish, Crash, vars, Tasks
<1>b. signed[u] \in Nat /\ signed'[u] \in Nat /\ signed'[u] >= signed[u]
  <2>0. signed[u] \in Nat
    BY <1>0
  <2>1. CASE UNCHANGED signed
    BY <2>0, <2>1
  <2>2. CASE \E t \in Tasks : signed' = [signed EXCEPT ![t] = @ + 1]
    <3>1. PICK t \in Tasks : signed' = [signed EXCEPT ![t] = @ + 1]
      BY <2>2
    <3>2. signed'[u] = IF u = t THEN signed[u] + 1 ELSE signed[u]
      BY <1>0, <3>1
    <3>. QED BY <2>0, <3>2
  <2>. QED BY <1>a, <2>1, <2>2
<1>1. CASE pc[u] = "posthead"
  BY <1>1, <1>b DEF PostSigned
<1>2. CASE pc[u] # "posthead"
  <2>1. PostPut(u)
    BY <1>0, <1>2
       DEF Next, Enqueue, CallStep, GenesisRun, GenesisStep, StartCall, HeadCheck, GenesisPut,
           GenesisHead, GenesisFail, Begin, Load, HostWrite, ExecReturn, Abort, Commit,
           PostCommit, PostPut, PostHead, AnswerCall, StartGenesis, AnswerGenesis, Recover,
           Republish, Crash, vars, Tasks, Goto, Finish, AfterGenesis, Ended
  <2>. QED BY <1>0, <2>1 DEF PostPut
<1>. QED BY <1>1, <1>2

(* The variables keep their types, whatever the messages.                  *)
THEOREM TypeCorrect == Spec => []TypeOK
<1>1. Init => TypeOK /\ PostSigned
  BY TypeInit DEF Init, PostSigned, Tasks
<1>2. TypeOK /\ PostSigned /\ [Next]_vars => (TypeOK /\ PostSigned)'
  BY TypeStep, PostSignedStep
<1>. QED BY <1>1, <1>2, PTL DEF Spec

(***************************************************************************)
(* The invariant of plain cells and of the calls on them                   *)
(***************************************************************************)
PlainInv ==
  /\ \A c \in PlainCells : CellInv(c)
  /\ \A t \in PlainCalls : CallInv(t)

(* Only the handler of t moved.                                            *)
OnlyTask(t) ==
  \A u \in Calls \ {t} :
    pc'[u] = pc[u] /\ gen'[u] = gen[u] /\ pend'[u] = pend[u] /\ signed'[u] = signed[u]

(* The durable chain of c lost nothing.                                    *)
Grows(c) == Chain(disk[c]) \subseteq Chain(disk'[c])

AllGrow == \A c \in PlainCells : Grows(c)

LEMMA PlainTypes ==
  /\ \A c \in PlainCells : c \in Cells /\ c \notin RecoverCells /\ c \notin RepublishCells
  /\ \A g \in Geneses : CellOf[g] \notin PlainCells
  /\ \A t \in PlainCalls : t \in Calls /\ t \in Tasks /\ CellOf[t] \in PlainCells
BY DEF PlainCells, MemproofCells, PlainCalls, Tasks

LEMMA CellFrame ==
  ASSUME NEW c \in PlainCells, CellInv(c),
         db'[c] = db[c], saved'[c] = saved[c], inTx' = inTx, handed'[c] = handed[c]
  PROVE  CellInv(c)' /\ Grows(c)
BY DEF CellInv, Grows, disk

LEMMA CallFrame ==
  ASSUME NEW t \in PlainCalls, CallInv(t),
         pc'[t] = pc[t], gen'[t] = gen[t], pend'[t] = pend[t], signed'[t] = signed[t],
         pc[t] \in ActiveLabels => db'[CellOf[t]] = db[CellOf[t]]
  PROVE  CallInv(t)'
<1>1. CASE pc[t] \in ActiveLabels
  <2>1. GenRecords(t)' = GenRecords(t)
    BY DEF GenRecords
  <2>2. GenesisStored(t)' <=> GenesisStored(t)
    BY <1>1 DEF GenesisStored
  <2>3. Dangling(t)' <=> Dangling(t)
    BY <1>1 DEF Dangling
  <2>. QED BY <1>1, <2>1, <2>2, <2>3 DEF CallInv
<1>2. CASE pc[t] \notin ActiveLabels
  BY <1>2 DEF CallInv, ActiveLabels, FoundedLabels, TxLabels
<1>. QED BY <1>1, <1>2

(* A step that leaves the storage and the records of the others alone.     *)
LEMMA QuietStep ==
  ASSUME PlainInv, UNCHANGED storage, UNCHANGED handed, NEW t, OnlyTask(t),
         t \in PlainCalls => CallInv(t)'
  PROVE  PlainInv' /\ AllGrow
<1>1. \A c \in PlainCells : CellInv(c)' /\ Grows(c)
  BY CellFrame DEF PlainInv, storage
<1>2. ASSUME NEW u \in PlainCalls, u # t PROVE CallInv(u)'
  BY <1>2, CallFrame, PlainTypes DEF PlainInv, storage, OnlyTask
<1>. QED BY <1>1, <1>2 DEF PlainInv, AllGrow

(* A step of the call in progress, or of another message, that writes to   *)
(* one cell.                                                               *)
LEMMA WriteStep ==
  ASSUME PlainInv, Serial, UNCHANGED <<saved, inTx, handed>>,
         NEW c, \A d \in Cells : d # c => db'[d] = db[d],
         NEW t, OnlyTask(t), t \in Calls => pc[t] \in ActiveLabels,
         t \notin Calls => c \notin PlainCells,
         c \in PlainCells => CellInv(c)' /\ Grows(c),
         t \in PlainCalls => CallInv(t)'
  PROVE  PlainInv' /\ AllGrow
<1>1. \A d \in PlainCells : CellInv(d)' /\ Grows(d)
  BY CellFrame, PlainTypes DEF PlainInv
<1>2. ASSUME NEW u \in PlainCalls, u # t PROVE CallInv(u)'
  <2>1. pc[u] \in ActiveLabels => t \notin Calls
    BY <1>2, PlainTypes DEF Serial
  <2>2. pc[u] \in ActiveLabels => db'[CellOf[u]] = db[CellOf[u]]
    BY <2>1, PlainTypes
  <2>. QED BY <1>2, <2>2, CallFrame, PlainTypes DEF PlainInv, OnlyTask
<1>. QED BY <1>1, <1>2 DEF PlainInv, AllGrow

LEMMA OnlyTaskGoto ==
  ASSUME TypeOK, NEW t \in Tasks, NEW l, Goto(t, l), UNCHANGED <<signed, gen, pend>>
  PROVE  OnlyTask(t) /\ pc'[t] = l
BY DEF TypeOK, PcTypeOK, Goto, OnlyTask, Tasks

(* A handler that ended promises nothing any more.                         *)
LEMMA EndedCall ==
  ASSUME NEW t, pc'[t] \in Ended
  PROVE  CallInv(t)'
BY DEF CallInv, FoundedLabels, TxLabels, Ended

LEMMA FreshAction ==
  ASSUME TypeOK, HashesFresh, NEW t \in Tasks, NEW c \in Cells, NEW a \in Action,
         a.by = t, a.nth = signed[t]
  PROVE  \A x \in db[c].rows : HashOf(x) # HashOf(a)
<1>. SUFFICES ASSUME NEW x \in db[c].rows, HashOf(x) = HashOf(a) PROVE FALSE
  OBVIOUS
<1>1. x.by = t /\ x.nth = signed[t]
  BY DEF HashOf
<1>2. x.nth < signed[t]
  BY <1>1 DEF HashesFresh, Fresh
<1>3. signed[t] \in Nat
  BY DEF TypeOK
<1>. QED BY <1>1, <1>2, <1>3

LEMMA AppendFacts ==
  ASSUME NEW S, NEW q \in Seq(S), NEW e \in S
  PROVE  /\ Len(q) \in Nat /\ Len(Append(q, e)) = Len(q) + 1
         /\ \A i \in 1..Len(q) : Append(q, e)[i] = q[i]
         /\ Append(q, e)[Len(q) + 1] = e
OBVIOUS

LEMMA PlainGenesisStep ==
  ASSUME TypeOK, Serial, HashesFresh, PlainInv, NEW t \in Tasks, GenesisStep(t)
  PROVE  PlainInv' /\ AllGrow
<1>. DEFINE c == CellOf[t]
            a == GenesisAction(t)
<1>0. /\ c \in Cells
      /\ db \in [Cells -> Content]
      /\ t \notin Calls => c \notin PlainCells
      /\ t \in Calls /\ c \in PlainCells => t \in PlainCalls /\ CallInv(t) /\ CellInv(c)
      /\ t \in PlainCalls => t \in Calls /\ c \in PlainCells
  BY CellOfType, PlainTypes DEF TypeOK, Tasks, PlainCalls, PlainInv
<1>1. CASE HeadCheck(t)
  <2>1. OnlyTask(t) /\ pc[t] = "headcheck"
        /\ pc'[t] = IF db[c].head = NoHead THEN "genesis" ELSE AfterGenesis(t)
    BY <1>1, OnlyTaskGoto DEF HeadCheck
  <2>2. ASSUME t \in PlainCalls PROVE CallInv(t)'
    <3>1. gen'[t] = <<>> /\ pend'[t] = {} /\ db' = db
      BY <1>0, <1>1, <2>1, <2>2 DEF HeadCheck, CallInv, storage
    <3>2. GenRecords(t)' = {}
      BY <3>1 DEF GenRecords
    <3>3. GenesisStored(t)'
      BY <3>1 DEF GenesisStored
    <3>. QED BY <1>0, <2>1, <2>2, <3>1, <3>2, <3>3
             DEF CallInv, AfterGenesis, FoundedLabels, TxLabels
  <2>. QED BY <1>1, <2>1, <2>2, QuietStep DEF HeadCheck
<1>2. CASE GenesisPut(t)
  <2>1. /\ UNCHANGED <<saved, inTx, handed, pc, pend>>
        /\ Store(c, PutAction(db[c].rows, a), db[c].head)
        /\ gen' = [gen EXCEPT ![t] = Append(@, a)]
        /\ signed' = [signed EXCEPT ![t] = @ + 1]
        /\ pc[t] = "genesis" /\ Len(gen[t]) < 4
    BY <1>2 DEF GenesisPut, control
  <2>2. gen[t] \in Seq(Action) /\ a \in Action /\ gen \in [Tasks -> Seq(Action)]
        /\ signed \in [Tasks -> Nat]
    BY GenesisActionType DEF TypeOK
  <2>3. OnlyTask(t) /\ gen'[t] = Append(gen[t], a)
    BY <2>1, <2>2 DEF OnlyTask, Tasks
  <2>4. db'[c] = Pair(PutAction(db[c].rows, a), db[c].head) /\ \A d \in Cells : d # c => db'[d] = db[d]
    BY <1>0, <2>1 DEF Store, Pair
  <2>5. ASSUME t \in Calls, c \in PlainCells PROVE CellInv(c)' /\ CallInv(t)' /\ Grows(c)
    <3>1. db[c].head = NoHead /\ GenesisStored(t) /\ pend[t] = {} /\ Sound(db[c]) /\ CellInv(c)
      BY <1>0, <2>1, <2>5 DEF CallInv, CellInv
    <3>2. db[c] = Pair(db[c].rows, NoHead) /\ db[c].rows \in SUBSET Action
      BY <1>0, <3>1 DEF Pair, Content
    <3>3. a.seq = Len(gen[t]) /\ a.seq <= 3
      BY <2>1, <2>2 DEF GenesisAction
    <3>4. Sound(db'[c]) /\ db'[c].head = NoHead
      <4>1. Sound(Pair(db[c].rows, NoHead))
        BY <3>1, <3>2
      <4>2. a \in Action
        BY <2>2
      <4>. HIDE DEF a
      <4>3. Sound(Pair(PutAction(db[c].rows, a), NoHead))
        BY <3>2, <3>3, <4>1, <4>2, GenesisPutSound
      <4>. QED BY <2>4, <3>1, <4>3 DEF Pair
    <3>5. inTx = FALSE
      BY <1>0, <2>1, <2>5 DEF Serial, ActiveLabels, FoundedLabels, TxLabels, TypeOK
    <3>6. CellInv(c)'
      <4>1. Chain(db[c]) = {}
        BY <3>1 DEF Chain
      <4>2. handed[c] = {}
        BY <3>1, <3>5, <4>1 DEF CellInv, disk
      <4>. QED BY <2>1, <3>1, <3>4, <3>5, <4>2 DEF CellInv
    <3>7. GenesisStored(t)'
      <4>. DEFINE n == Len(gen[t])
      <4>1. /\ n \in 0..3 /\ Len(gen'[t]) = n + 1
            /\ \A i \in 1..n : gen'[t][i] = gen[t][i]
            /\ gen'[t][n + 1] = a
        <5>1. gen[t] \in Seq(Action) /\ a \in Action /\ n < 4
          BY <2>1, <2>2
        <5>2. gen'[t] = Append(gen[t], a)
          BY <2>3
        <5>. HIDE DEF a
        <5>3. /\ n \in Nat /\ Len(gen'[t]) = n + 1
              /\ \A i \in 1..n : gen'[t][i] = gen[t][i]
              /\ gen'[t][n + 1] = a
          <6>1. /\ Len(gen[t]) \in Nat /\ Len(Append(gen[t], a)) = Len(gen[t]) + 1
                /\ \A i \in 1..Len(gen[t]) : Append(gen[t], a)[i] = gen[t][i]
                /\ Append(gen[t], a)[Len(gen[t]) + 1] = a
            BY <5>1, AppendFacts
          <6>. QED BY <5>2, <6>1
        <5>4. n \in 0..3
          <6>. HIDE DEF n
          <6>. QED BY <5>1, <5>3
        <5>. QED BY <5>3, <5>4
      <4>2. \A x \in db[c].rows : HashOf(x) # HashOf(a)
        <5>1. a.by = t /\ a.nth = signed[t]
          BY DEF GenesisAction
        <5>. HIDE DEF a
        <5>. QED BY <1>0, <2>2, <5>1, FreshAction
      <4>3. a.prev = IF n = 0 THEN NoHash ELSE HashOf(gen[t][n])
        BY <2>2 DEF GenesisAction
      <4>4. db'[c].rows = PutAction(db[c].rows, a)
        BY <2>4 DEF Pair
      <4>. HIDE DEF a
      <4>5. ASSUME NEW i \in 1..n
            PROVE  /\ gen'[t][i] \in db'[c].rows
                   /\ gen'[t][i].seq = i - 1
                   /\ gen'[t][i].prev = IF i = 1 THEN NoHash ELSE HashOf(gen'[t][i - 1])
        <5>1. /\ gen[t][i] \in db[c].rows
              /\ gen[t][i].seq = i - 1
              /\ gen[t][i].prev = IF i = 1 THEN NoHash ELSE HashOf(gen[t][i - 1])
          BY <3>1 DEF GenesisStored
        <5>2. gen[t][i].seq # a.seq
          BY <3>3, <4>1, <5>1
        <5>3. gen[t][i] \in PutAction(db[c].rows, a)
          BY <4>2, <5>1, <5>2 DEF PutAction
        <5>4. i # 1 => gen'[t][i - 1] = gen[t][i - 1]
          BY <4>1
        <5>. QED BY <4>1, <4>4, <5>1, <5>3, <5>4
      <4>6. /\ a \in db'[c].rows
            /\ a.seq = (n + 1) - 1
            /\ a.prev = IF n + 1 = 1 THEN NoHash ELSE HashOf(gen'[t][(n + 1) - 1])
        <5>1. a \in PutAction(db[c].rows, a)
          BY DEF PutAction
        <5>2. n # 0 => gen'[t][n] = gen[t][n]
          BY <4>1
        <5>3. (n + 1) - 1 = n
          BY <4>1
        <5>. QED BY <3>3, <4>1, <4>3, <4>4, <5>1, <5>2, <5>3
      <4>7. \A i \in 1..(n + 1) : i \in 1..n \/ i = n + 1
        BY <4>1
      <4>8. ASSUME NEW i \in 1..(n + 1)
            PROVE  /\ gen'[t][i] \in db'[c].rows
                   /\ gen'[t][i].seq = i - 1
                   /\ gen'[t][i].prev = IF i = 1 THEN NoHash ELSE HashOf(gen'[t][i - 1])
        <5>1. CASE i \in 1..n
          BY <4>5, <5>1
        <5>2. CASE i = n + 1
          BY <4>1, <4>6, <5>2
        <5>. QED BY <4>7, <5>1, <5>2
      <4>9. Len(gen'[t]) = n + 1 /\ n + 1 <= 4
        BY <4>1
      <4>. HIDE DEF n
      <4>. QED BY <4>8, <4>9 DEF GenesisStored
    <3>8. CallInv(t)'
      BY <2>1, <3>1, <3>4, <3>7 DEF CallInv, FoundedLabels, TxLabels
    <3>9. Grows(c)
      BY <2>1, <3>1, <3>5 DEF Grows, disk, Chain
    <3>. QED BY <3>6, <3>8, <3>9
  <2>6. t \in Calls => pc[t] \in ActiveLabels
    BY <2>1 DEF ActiveLabels
  <2>. HIDE DEF c
  <2>. QED BY <1>0, <2>1, <2>3, <2>4, <2>5, <2>6, WriteStep
<1>3. CASE GenesisHead(t)
  <2>1. /\ UNCHANGED <<saved, inTx, handed, signed, gen, pend>>
        /\ Store(c, db[c].rows, HeadAt(gen[t][4]))
        /\ Goto(t, AfterGenesis(t))
        /\ pc[t] = "genesis" /\ Len(gen[t]) = 4
    BY <1>3 DEF GenesisHead
  <2>2. OnlyTask(t) /\ pc'[t] = AfterGenesis(t)
    BY <2>1, OnlyTaskGoto
  <2>3. /\ db'[c] = Pair(db[c].rows, HeadAt(gen[t][4]))
        /\ \A d \in Cells : d # c => db'[d] = db[d]
    BY <1>0, <2>1 DEF Store, Pair
  <2>4. ASSUME t \in Calls, c \in PlainCells PROVE CellInv(c)' /\ CallInv(t)' /\ Grows(c)
    <3>1. db[c].head = NoHead /\ GenesisStored(t) /\ pend[t] = {} /\ Sound(db[c]) /\ CellInv(c)
      BY <1>0, <2>1, <2>4 DEF CallInv, CellInv
    <3>2. db[c] = Pair(db[c].rows, NoHead) /\ db[c].rows \in SUBSET Action /\ gen[t] \in Seq(Action)
      BY <1>0, <3>1 DEF Pair, Content, TypeOK
    <3>3. /\ Sound(db'[c])
          /\ \A i \in 1..4 : gen[t][i] \in Chain(db'[c])
      BY <2>1, <2>3, <3>1, <3>2, GenesisHeadSound DEF GenesisStored
    <3>4. inTx = FALSE
      BY <1>0, <2>1, <2>4 DEF Serial, ActiveLabels, FoundedLabels, TxLabels, TypeOK
    <3>5. handed[c] = {}
      BY <3>1, <3>4 DEF CellInv, disk, Chain
    <3>6. db'[c].head # NoHead
      <4>1. gen[t][4] \in Action
        BY <2>1, <3>2
      <4>. QED BY <2>3, <4>1, NullAssumption DEF Pair, HeadAt, HashOf, Action
    <3>7. GenRecords(t)' \subseteq Chain(db'[c])
      BY <2>1, <3>3 DEF GenRecords
    <3>8. CellInv(c)'
      BY <2>1, <3>1, <3>3, <3>4, <3>5 DEF CellInv
    <3>9. CallInv(t)'
      BY <2>1, <2>2, <2>4, <3>1, <3>6, <3>7 DEF CallInv, AfterGenesis, FoundedLabels, TxLabels
    <3>10. Grows(c)
      BY <2>1, <3>1, <3>4 DEF Grows, disk, Chain
    <3>. QED BY <3>8, <3>9, <3>10
  <2>5. t \in Calls => pc[t] \in ActiveLabels
    BY <2>1 DEF ActiveLabels
  <2>. HIDE DEF c
  <2>. QED BY <1>0, <2>1, <2>2, <2>3, <2>4, <2>5, WriteStep
<1>4. CASE GenesisFail(t)
  <2>1. OnlyTask(t) /\ pc'[t] = "failed"
    BY <1>4, OnlyTaskGoto DEF GenesisFail, Finish
  <2>. QED BY <1>4, <2>1, QuietStep, EndedCall DEF GenesisFail, Ended
<1>. QED BY <1>1, <1>2, <1>3, <1>4 DEF GenesisStep

(* The transaction statements.                                             *)
LEMMA PlainTxStep ==
  ASSUME TypeOK, Serial, PlainInv, NEW t \in Calls, Begin(t) \/ Abort(t) \/ Commit(t)
  PROVE  PlainInv' /\ AllGrow
<1>0. t \in Tasks /\ (t \in PlainCalls => CallInv(t))
  BY DEF Tasks, PlainInv
<1>1. CASE Begin(t) /\ ~inTx
  <2>1. OnlyTask(t) /\ pc'[t] = "load" /\ pc[t] = "begin" /\ db' = db /\ saved' = db /\ inTx'
        /\ UNCHANGED <<handed, gen, pend, signed>>
    BY <1>0, <1>1, OnlyTaskGoto DEF Begin
  <2>2. ASSUME NEW c \in PlainCells PROVE CellInv(c)' /\ Grows(c)
    BY <1>1, <2>1 DEF PlainInv, CellInv, disk, Grows
  <2>3. ASSUME NEW u \in PlainCalls, u # t PROVE CallInv(u)'
    BY <2>1, <2>3, CallFrame, PlainTypes DEF PlainInv, OnlyTask
  <2>4. ASSUME t \in PlainCalls PROVE CallInv(t)'
    <3>1. GenRecords(t)' = GenRecords(t)
      BY <2>1 DEF GenRecords
    <3>. QED BY <1>0, <2>1, <2>4, <3>1 DEF CallInv, FoundedLabels, TxLabels
  <2>. QED BY <2>2, <2>3, <2>4 DEF PlainInv, AllGrow
<1>2. CASE Begin(t) /\ inTx
  <2>1. OnlyTask(t) /\ pc'[t] = "failed"
    BY <1>0, <1>2, OnlyTaskGoto DEF Begin, Finish
  <2>. QED BY <1>2, <2>1, QuietStep, EndedCall DEF Begin, Ended
<1>3. CASE Abort(t)
  <2>1. OnlyTask(t) /\ pc'[t] = "failed" /\ pc[t] \in TxLabels /\ saved' = saved /\ ~inTx'
        /\ db' = disk /\ handed' = handed
    BY <1>0, <1>3, OnlyTaskGoto DEF Abort, Finish, Rollback, TxLabels
  <2>2. inTx /\ db' = saved
    BY <2>1 DEF Serial, disk
  <2>3. ASSUME NEW c \in PlainCells PROVE CellInv(c)' /\ Grows(c)
    BY <2>1, <2>2 DEF PlainInv, CellInv, disk, Grows
  <2>4. ASSUME NEW u \in PlainCalls, u # t PROVE CallInv(u)'
    <3>1. pc[u] \notin ActiveLabels
      BY <2>1, <2>4, PlainTypes DEF Serial, ActiveLabels, FoundedLabels
    <3>. QED BY <1>3, <2>1, <2>4, <3>1, CallFrame, PlainTypes DEF PlainInv, OnlyTask
  <2>. QED BY <2>1, <2>3, <2>4, EndedCall DEF PlainInv, AllGrow, Ended
<1>4. CASE Commit(t)
  <2>1. OnlyTask(t) /\ pc'[t] = "post" /\ pc[t] = "validate" /\ ~inTx'
        /\ UNCHANGED <<db, saved, handed, gen, pend, signed>>
    BY <1>0, <1>4, OnlyTaskGoto DEF Commit
  <2>2. inTx
    BY <2>1 DEF Serial, TxLabels
  <2>3. ASSUME NEW c \in PlainCells PROVE CellInv(c)' /\ Grows(c)
    BY <2>1, <2>2 DEF PlainInv, CellInv, disk, Grows
  <2>4. ASSUME NEW u \in PlainCalls, u # t PROVE CallInv(u)'
    BY <2>1, <2>4, CallFrame, PlainTypes DEF PlainInv, OnlyTask
  <2>5. ASSUME t \in PlainCalls PROVE CallInv(t)'
    <3>1. GenRecords(t)' = GenRecords(t)
      BY <2>1 DEF GenRecords
    <3>. QED BY <1>0, <2>1, <2>5, <3>1 DEF CallInv, FoundedLabels, TxLabels
  <2>. QED BY <2>3, <2>4, <2>5 DEF PlainInv, AllGrow
<1>. QED BY <1>1, <1>2, <1>3, <1>4

(* The writes of the zome function and of post_commit.                     *)
LEMMA PlainWriteStep ==
  ASSUME TypeOK, Serial, HashesFresh, PostSigned, PlainInv, NEW t \in Calls,
         HostWrite(t) \/ PostPut(t) \/ PostHead(t)
  PROVE  PlainInv' /\ AllGrow
<1>. DEFINE c == CellOf[t]
            a == NextAction(t, db[c].head)
<1>0. /\ t \in Tasks /\ c \in Cells
      /\ db \in [Cells -> Content]
      /\ signed \in [Tasks -> Nat]
      /\ pend \in [Tasks -> SUBSET Action]
      /\ pc \in [Tasks -> CallLabels \cup GenesisLabels]
      /\ c \in PlainCells => t \in PlainCalls /\ CallInv(t) /\ CellInv(c)
      /\ t \in PlainCalls => c \in PlainCells
  BY CellOfType, PlainTypes DEF TypeOK, PcTypeOK, Tasks, PlainCalls, PlainInv
<1>1. pc[t] \in FoundedLabels /\ pc[t] \in ActiveLabels
      /\ UNCHANGED <<saved, inTx, handed, gen>>
  BY DEF HostWrite, PostPut, PostHead, ActiveLabels, FoundedLabels, TxLabels
<1>2. OnlyTask(t)
  BY <1>0 DEF HostWrite, PostPut, PostHead, OnlyTask, Goto, Tasks
<1>3. \A d \in Cells : d # c => db'[d] = db[d]
  BY <1>0 DEF HostWrite, PostPut, PostHead, Store
<1>4. ASSUME c \in PlainCells PROVE CellInv(c)' /\ CallInv(t)' /\ Grows(c)
  <2>1. /\ db[c].head # NoHead /\ Sound(db[c])
        /\ GenRecords(t) \cup pend[t] \subseteq Chain(db[c])
        /\ CellInv(c)
    BY <1>0, <1>1, <1>4 DEF CallInv, CellInv
  <2>2. /\ db[c] = Pair(db[c].rows, db[c].head)
        /\ db[c].rows \in SUBSET Action /\ db[c].head \in ChainHead
    BY <1>0, <2>1 DEF Pair, Content
  <2>3. /\ a \in Action /\ a.by = t /\ a.nth = signed[t]
        /\ a.seq = db[c].head.seq + 1 /\ a.prev = db[c].head.hash
    BY <1>0, <2>1, NextActionType DEF NextAction
  <2>4. \A x \in db[c].rows : HashOf(x) # HashOf(a)
    <3>. HIDE DEF a
    <3>. QED BY <1>0, <2>3, FreshAction
  <2>5. Sound(Pair(db[c].rows, db[c].head))
    BY <2>1, <2>2
  <2>a. /\ Sound(Pair(PutAction(db[c].rows, a), db[c].head))
        /\ Sound(Pair(PutAction(db[c].rows, a), HeadAt(a)))
        /\ Chain(db[c]) \subseteq Chain(Pair(PutAction(db[c].rows, a), db[c].head))
        /\ Chain(db[c]) \subseteq Chain(Pair(PutAction(db[c].rows, a), HeadAt(a)))
        /\ a \in Chain(Pair(PutAction(db[c].rows, a), HeadAt(a)))
    <3>. DEFINE R == db[c].rows
                h == db[c].head
    <3>1. db[c] = Pair(R, h) /\ R \in SUBSET Action /\ h \in ChainHead /\ Sound(Pair(R, h))
          /\ a \in Action /\ a.seq = h.seq + 1 /\ a.prev = h.hash
          /\ \A x \in R : HashOf(x) # HashOf(a)
      BY <2>2, <2>3, <2>4, <2>5
    <3>. HIDE DEF a, R, h
    <3>2. /\ Sound(Pair(PutAction(R, a), h))
          /\ Sound(Pair(PutAction(R, a), HeadAt(a)))
          /\ Chain(Pair(R, h)) \subseteq Chain(Pair(PutAction(R, a), h))
          /\ Chain(Pair(R, h)) \subseteq Chain(Pair(PutAction(R, a), HeadAt(a)))
          /\ a \in Chain(Pair(PutAction(R, a), HeadAt(a)))
      BY <3>1, AppendLinked
    <3>. QED BY <3>1, <3>2 DEF R, h
  <2>6. GenRecords(t)' = GenRecords(t)
    BY <1>1 DEF GenRecords
  <2>7. CASE HostWrite(t)
    <3>1. /\ Store(c, PutAction(db[c].rows, a), HeadAt(a))
          /\ pend' = [pend EXCEPT ![t] = @ \cup {a}]
          /\ pc[t] = "exec" /\ pc' = pc
      BY <2>7 DEF HostWrite
    <3>. HIDE DEF a
    <3>2. db'[c] = Pair(PutAction(db[c].rows, a), HeadAt(a))
      BY <1>0, <3>1 DEF Store, Pair
    <3>3. /\ Sound(db'[c])
          /\ Chain(db[c]) \subseteq Chain(db'[c])
          /\ a \in Chain(db'[c])
      BY <2>a, <3>2
    <3>4. db'[c].head # NoHead
      BY <2>3, <3>2, NullAssumption DEF Pair, HeadAt, HashOf, Action
    <3>5. inTx
      BY <3>1 DEF Serial, TxLabels
    <3>6. CellInv(c)' /\ Grows(c)
      BY <1>1, <2>1, <3>3, <3>5 DEF CellInv, disk, Grows
    <3>7. pend'[t] = pend[t] \cup {a}
      BY <1>0, <3>1
    <3>8. CallInv(t)'
      BY <2>1, <2>6, <3>1, <3>3, <3>4, <3>7 DEF CallInv
    <3>. QED BY <3>6, <3>8
  <2>8. CASE PostPut(t)
    <3>1. /\ Store(c, PutAction(db[c].rows, a), db[c].head)
          /\ signed' = [signed EXCEPT ![t] = @ + 1]
          /\ pend' = pend
          /\ pc[t] = "postexec" /\ Goto(t, "posthead")
      BY <2>8 DEF PostPut
    <3>. HIDE DEF a
    <3>2. db'[c] = Pair(PutAction(db[c].rows, a), db[c].head)
      BY <1>0, <3>1 DEF Store, Pair
    <3>3. /\ Sound(db'[c])
          /\ Chain(db[c]) \subseteq Chain(db'[c])
      BY <2>a, <3>2
    <3>4. ~inTx
      <4>1. running = t
        BY <1>1 DEF Serial
      <4>. QED BY <3>1, <4>1 DEF Serial, TxLabels
    <3>5. CellInv(c)' /\ Grows(c)
      BY <1>1, <2>1, <3>3, <3>4 DEF CellInv, disk, Grows
    <3>6. Dangling(t)'
      <4>1. a \in db'[c].rows /\ db'[c].head = db[c].head
        BY <3>2 DEF Pair, PutAction
      <4>2. a.nth + 1 = signed'[t]
        BY <1>0, <2>3, <3>1
      <4>. QED BY <2>3, <4>1, <4>2 DEF Dangling
    <3>7. db'[c].head # NoHead
      BY <2>1, <3>2 DEF Pair
    <3>8. pc'[t] = "posthead" /\ pend'[t] = pend[t]
      BY <1>0, <3>1 DEF Goto
    <3>9. CallInv(t)'
      BY <2>1, <2>6, <3>3, <3>6, <3>7, <3>8 DEF CallInv
    <3>. QED BY <3>5, <3>9
  <2>9. CASE PostHead(t)
    <3>1. /\ Store(c, db[c].rows, [seq |-> a.seq, hash |-> <<t, signed[t] - 1>>])
          /\ pend' = pend
          /\ pc[t] = "posthead" /\ pc'[t] = "postexec"
      BY <1>0, <2>9 DEF PostHead, Goto
    <3>2. PICK b \in db[c].rows : b.by = t /\ b.nth + 1 = signed[t] /\ b.seq = db[c].head.seq + 1
      BY <1>0, <1>4, <3>1 DEF CallInv, Dangling
    <3>. HIDE DEF a
    <3>3. [seq |-> a.seq, hash |-> <<t, signed[t] - 1>>] = HeadAt(b)
      <4>1. b.nth = signed[t] - 1
        <5>1. b \in Action /\ signed[t] \in Nat
          BY <1>0, <2>2, <3>2
        <5>2. b.nth \in Nat
          BY <5>1 DEF Action
        <5>. QED BY <3>2, <5>1, <5>2
      <4>. QED BY <2>3, <3>2, <4>1 DEF HeadAt, HashOf
    <3>4. db'[c] = Pair(db[c].rows, HeadAt(b))
      BY <1>0, <3>1, <3>3 DEF Store, Pair
    <3>5. Sound(db'[c]) /\ Chain(db[c]) \subseteq Chain(db'[c])
      BY <2>2, <2>5, <3>2, <3>4, DanglingLinked
    <3>6. ~inTx
      <4>1. running = t
        BY <1>1 DEF Serial
      <4>. QED BY <3>1, <4>1 DEF Serial, TxLabels
    <3>7. CellInv(c)' /\ Grows(c)
      BY <1>1, <2>1, <3>5, <3>6 DEF CellInv, disk, Grows
    <3>8. db'[c].head # NoHead
      <4>1. b \in Action
        BY <2>2, <3>2
      <4>. QED BY <3>4, <4>1, NullAssumption DEF Pair, HeadAt, HashOf, Action
    <3>9. CallInv(t)'
      BY <2>1, <2>6, <3>1, <3>5, <3>8 DEF CallInv
    <3>. QED BY <3>7, <3>9
  <2>. QED BY <2>7, <2>8, <2>9
<1>. HIDE DEF c
<1>. QED BY <1>0, <1>1, <1>2, <1>3, <1>4, WriteStep

LEMMA PlainCallStep ==
  ASSUME TypeOK, Serial, HashesFresh, PostSigned, PlainInv, NEW t \in Calls, CallStep(t)
  PROVE  PlainInv' /\ AllGrow
<1>. DEFINE c == CellOf[t]
<1>0. /\ t \in Tasks
      /\ t \in PlainCalls => CallInv(t)
  BY DEF Tasks, PlainInv
<1>1. CASE StartCall(t)
  <2>1. pc[t] = "queued" /\ pc'[t] \in {"headcheck", "failed"} /\ OnlyTask(t)
    BY <1>0, <1>1, OnlyTaskGoto DEF StartCall
  <2>2. ASSUME t \in PlainCalls PROVE CallInv(t)'
    <3>1. gen'[t] = <<>> /\ pend'[t] = {}
      BY <1>0, <1>1, <2>1, <2>2 DEF StartCall, CallInv
    <3>. QED BY <2>1, <3>1 DEF CallInv, FoundedLabels, TxLabels
  <2>. QED BY <1>1, <2>1, <2>2, QuietStep DEF StartCall
<1>2. CASE GenesisStep(t)
  BY <1>0, <1>2, PlainGenesisStep
<1>3. CASE Begin(t) \/ Abort(t) \/ Commit(t)
  BY <1>3, PlainTxStep
<1>4. CASE HostWrite(t) \/ PostPut(t) \/ PostHead(t)
  BY <1>4, PlainWriteStep
<1>5. CASE Load(t) \/ ExecReturn(t) \/ PostCommit(t)
  <2>1. /\ pc[t] \in FoundedLabels /\ pc'[t] \in {"exec", "validate", "postexec"} /\ OnlyTask(t)
        /\ UNCHANGED <<storage, handed, gen, pend, signed>>
    BY <1>0, <1>5, OnlyTaskGoto
       DEF Load, ExecReturn, PostCommit, FoundedLabels, TxLabels
  <2>2. ASSUME t \in PlainCalls PROVE CallInv(t)'
    <3>1. GenRecords(t)' = GenRecords(t) /\ db' = db
      BY <2>1 DEF GenRecords, storage
    <3>. QED BY <1>0, <2>1, <2>2, <3>1 DEF CallInv, FoundedLabels, TxLabels
  <2>. QED BY <2>1, <2>2, QuietStep
<1>6. CASE AnswerCall(t)
  <2>1. /\ OnlyTask(t) /\ pc'[t] = "done" /\ pc[t] \in {"post", "postexec"}
        /\ UNCHANGED <<db, saved, inTx>>
    BY <1>0, <1>6, OnlyTaskGoto DEF AnswerCall, Finish, storage
  <2>2. ~inTx
    <3>1. running = t /\ pc[t] \notin TxLabels
      BY <2>1 DEF Serial, ActiveLabels, FoundedLabels, TxLabels
    <3>. QED BY <3>1 DEF Serial
  <2>3. handed \in [Cells -> SUBSET Action] /\ c \in Cells
    BY <1>0, CellOfType DEF TypeOK
  <2>4. ASSUME NEW d \in PlainCells PROVE CellInv(d)' /\ Grows(d)
    <3>1. CASE handed'[d] = handed[d]
      BY <2>1, <3>1, CellFrame DEF PlainInv
    <3>2. CASE handed'[d] # handed[d]
      <4>1. d = c /\ handed'[d] = handed[d] \cup GenRecords(t) \cup pend[t]
        BY <1>6, <2>3, <3>2, PlainTypes DEF AnswerCall
      <4>2. CallInv(t) /\ CellInv(d)
        BY <1>0, <4>1 DEF PlainCalls, PlainInv
      <4>3. GenRecords(t) \cup pend[t] \subseteq Chain(db[d])
        BY <2>1, <4>1, <4>2 DEF CallInv, FoundedLabels
      <4>. QED BY <2>1, <2>2, <4>1, <4>2, <4>3 DEF CellInv, disk, Grows
    <3>. QED BY <3>1, <3>2
  <2>5. ASSUME NEW u \in PlainCalls, u # t PROVE CallInv(u)'
    BY <2>1, <2>5, CallFrame, PlainTypes DEF PlainInv, OnlyTask
  <2>. QED BY <2>1, <2>4, <2>5, EndedCall DEF PlainInv, AllGrow, Ended
<1>. QED BY <1>1, <1>2, <1>3, <1>4, <1>5, <1>6 DEF CallStep

LEMMA PlainStep ==
  TypeOK /\ Serial /\ HashesFresh /\ PostSigned /\ PlainInv /\ [Next]_vars
    => PlainInv' /\ AllGrow
<1>. SUFFICES ASSUME TypeOK, Serial, HashesFresh, PostSigned, PlainInv, [Next]_vars
              PROVE  PlainInv' /\ AllGrow
  OBVIOUS
<1>1. ASSUME NEW t \in Calls, Enqueue(t) PROVE PlainInv' /\ AllGrow
  <2>1. t \in Tasks /\ pc[t] = "new" /\ pc'[t] = "queued" /\ OnlyTask(t)
        /\ UNCHANGED <<storage, handed, gen, pend, signed>>
    BY <1>1, OnlyTaskGoto DEF Enqueue, Tasks
  <2>2. ASSUME t \in PlainCalls PROVE CallInv(t)'
    <3>1. gen'[t] = <<>> /\ pend'[t] = {}
      BY <2>1, <2>2 DEF PlainInv, CallInv
    <3>. QED BY <2>1, <3>1 DEF CallInv, FoundedLabels, TxLabels
  <2>. QED BY <2>1, <2>2, QuietStep
<1>2. ASSUME NEW t \in Calls, CallStep(t) PROVE PlainInv' /\ AllGrow
  BY <1>2, PlainCallStep
<1>3. ASSUME NEW g \in Geneses, GenesisRun(g) PROVE PlainInv' /\ AllGrow
  <2>0. g \in Tasks /\ g \notin Calls /\ g \notin PlainCalls /\ CellOf[g] \notin PlainCells
    BY PlainTypes DEF Tasks
  <2>1. CASE StartGenesis(g)
    <3>1. OnlyTask(g)
      BY <2>0, <2>1, OnlyTaskGoto DEF StartGenesis
    <3>. QED BY <2>0, <2>1, <3>1, QuietStep DEF StartGenesis
  <2>2. CASE GenesisStep(g)
    BY <2>0, <2>2, PlainGenesisStep
  <2>3. CASE AnswerGenesis(g)
    <3>1. OnlyTask(g) /\ UNCHANGED <<db, saved, inTx>>
      BY <2>0, <2>3, OnlyTaskGoto DEF AnswerGenesis, Finish, storage
    <3>2. \A c \in PlainCells : handed'[c] = handed[c]
      BY <2>0, <2>3, PlainTypes DEF AnswerGenesis, TypeOK
    <3>3. \A c \in PlainCells : CellInv(c)' /\ Grows(c)
      BY <3>1, <3>2, CellFrame DEF PlainInv
    <3>4. ASSUME NEW u \in PlainCalls PROVE CallInv(u)'
      BY <2>0, <3>1, CallFrame, PlainTypes DEF PlainInv, OnlyTask
    <3>. QED BY <3>3, <3>4 DEF PlainInv, AllGrow
  <2>. QED BY <1>3, <2>1, <2>2, <2>3 DEF GenesisRun
<1>4. ASSUME NEW c \in RecoverCells, Recover(c) PROVE PlainInv' /\ AllGrow
  <2>1. UNCHANGED <<saved, inTx, handed, pc, signed, gen, pend>>
    BY <1>4 DEF Recover
  <2>2. \A d \in Cells : d # c => db'[d] = db[d]
    BY <1>4, CellsAssumption DEF Recover, Store, TypeOK
  <2>3. \A d \in PlainCells : CellInv(d)' /\ Grows(d)
    BY <2>1, <2>2, CellFrame, PlainTypes DEF PlainInv
  <2>4. ASSUME NEW u \in PlainCalls PROVE CallInv(u)'
    BY <2>1, <2>2, CallFrame, PlainTypes DEF PlainInv
  <2>. QED BY <2>3, <2>4 DEF PlainInv, AllGrow
<1>5. ASSUME NEW c \in RepublishCells, Republish(c) PROVE PlainInv' /\ AllGrow
  <2>1. UNCHANGED <<db, saved, inTx, pc, signed, gen, pend>>
        /\ \A d \in PlainCells : handed'[d] = handed[d]
    BY <1>5, PlainTypes DEF Republish, storage, TypeOK
  <2>2. \A d \in PlainCells : CellInv(d)' /\ Grows(d)
    BY <2>1, CellFrame DEF PlainInv
  <2>3. ASSUME NEW u \in PlainCalls PROVE CallInv(u)'
    BY <2>1, CallFrame DEF PlainInv
  <2>. QED BY <2>2, <2>3 DEF PlainInv, AllGrow
<1>6. CASE Crash
  <2>1. db' = disk /\ ~inTx' /\ UNCHANGED <<saved, handed, gen, pend>>
    BY <1>6 DEF Crash, Rollback
  <2>2. ASSUME NEW c \in PlainCells PROVE CellInv(c)' /\ Grows(c)
    BY <2>1 DEF PlainInv, CellInv, disk, Grows
  <2>3. ASSUME NEW u \in PlainCalls PROVE CallInv(u)'
    <3>1. pc'[u] \in Ended \/ (pc[u] = "new" /\ pc'[u] = "new")
      <4>1. u \in Tasks
        BY <2>3, PlainTypes
      <4>2. pc'[u] = IF pc[u] \in Ended \cup {"new"} THEN pc[u] ELSE "lost"
        BY <1>6, <4>1 DEF Crash
      <4>. QED BY <4>2 DEF Ended
    <3>2. CASE pc[u] = "new" /\ pc'[u] = "new"
      BY <2>1, <3>2 DEF PlainInv, CallInv, FoundedLabels, TxLabels
    <3>. QED BY <3>1, <3>2, EndedCall
  <2>. QED BY <2>2, <2>3 DEF PlainInv, AllGrow
<1>7. CASE UNCHANGED vars
  <2>1. UNCHANGED <<db, saved, inTx, handed, pc, signed, gen, pend>>
    BY <1>7 DEF vars
  <2>2. \A c \in PlainCells : CellInv(c)' /\ Grows(c)
    BY <2>1, CellFrame DEF PlainInv
  <2>3. \A u \in PlainCalls : CallInv(u)'
    BY <2>1, CallFrame DEF PlainInv
  <2>. QED BY <2>2, <2>3 DEF PlainInv, AllGrow
<1>. QED BY <1>1, <1>2, <1>3, <1>4, <1>5, <1>6, <1>7 DEF Next

(***************************************************************************)
(* The safety theorems                                                     *)
(***************************************************************************)
LEMMA InvInit == Init => Inv
<1>. SUFFICES ASSUME Init PROVE Inv
  OBVIOUS
<1>1. TypeOK
  BY TypeInit
<1>2. Serial /\ PostSigned
  BY DEF Init, Serial, PostSigned, ActiveLabels, FoundedLabels, TxLabels, Tasks
<1>3. HashesFresh
  BY DEF Init, HashesFresh, Fresh
<1>4. ASSUME NEW c \in PlainCells PROVE CellInv(c)
  BY PlainTypes DEF Init, CellInv, Sound, Chain, disk
<1>5. ASSUME NEW t \in PlainCalls PROVE CallInv(t)
  BY PlainTypes DEF Init, CallInv, FoundedLabels, TxLabels
<1>. QED BY <1>1, <1>2, <1>3, <1>4, <1>5 DEF Inv

LEMMA InvStep == Inv /\ [Next]_vars => Inv' /\ AllGrow
BY TypeStep, SerialStep, FreshStep, PostSignedStep, PlainStep DEF Inv, PlainInv

(* Whatever messages arrive in whatever order, whichever of them fail and  *)
(* whenever the worker dies, Inv holds.                                    *)
THEOREM Invariance == Spec => []Inv
BY InvInit, InvStep, PTL DEF Spec

(* The chains of plain cells are well formed, on disk and in transactions. *)
THEOREM ChainsAreWellFormed == Spec => []ChainWellFormed
<1>1. Inv => ChainWellFormed
  BY DEF Inv, CellInv, ChainWellFormed, disk
<1>. QED BY <1>1, Invariance, PTL

(* No call reaches BEGIN inside a transaction.                             *)
THEOREM TransactionsAreSerial == Spec => []SerialTransactions
<1>1. Inv => SerialTransactions
  BY DEF Inv, Serial, SerialTransactions, ActiveLabels, FoundedLabels, TxLabels
<1>. QED BY <1>1, Invariance, PTL

(* What the worker hands out for publishing is on the durable chain.       *)
THEOREM HandedStaysOnChain == Spec => []HandedOnChain
<1>1. Inv => HandedOnChain
  BY DEF Inv, CellInv, HandedOnChain
<1>. QED BY <1>1, Invariance, PTL

(***************************************************************************)
(* What becomes of the records of a call                                   *)
(***************************************************************************)
(* The rows a step brings to plain cells are those of t.                   *)
Brings(t) ==
  \A c \in PlainCells : \A x \in db'[c].rows \cup disk'[c].rows :
    x \in db[c].rows \cup disk[c].rows \/ x.by = t

(* A call in its transaction is the only one that moves; it is not in the  *)
(* way of the others.                                                      *)
LEMMA InTxRunning ==
  ASSUME Serial, NEW t \in Calls, pc[t] \in ActiveLabels
  PROVE  /\ running = t
         /\ inTx <=> pc[t] \in TxLabels
BY DEF Serial

LEMMA OutcomeFrame ==
  ASSUME NEW t, NEW u \in PlainCalls, u # t, Outcome(u),
         pc'[u] = pc[u], pend'[u] = pend[u],
         Brings(t), Grows(CellOf[u]),
         pc[u] \in TxLabels => disk'[CellOf[u]] = disk[CellOf[u]]
  PROVE  Outcome(u)'
<1>. DEFINE c == CellOf[u]
<1>1. c \in PlainCells
  BY PlainTypes
<1>2. \A a \in pend'[u] : a.by = u
  BY DEF Outcome
<1>3. Gone(u) => Gone(u)'
  BY <1>1, <1>2 DEF Gone, Brings
<1>4. Kept(u) => Kept(u)'
  BY DEF Kept, Grows, Chain
<1>5. pc[u] \in TxLabels => pend'[u] \cap disk'[c].rows = {}
  BY DEF Outcome
<1>. QED BY <1>2, <1>3, <1>4, <1>5 DEF Outcome

(* The storage a step of a handler leaves alone, or writes its own row to. *)
LEMMA BringsQuiet ==
  ASSUME UNCHANGED storage, NEW t PROVE Brings(t)
BY DEF Brings, storage, disk

LEMMA BringsWrite ==
  ASSUME TypeOK, NEW t, NEW c \in Cells, NEW a, a.by = t, NEW head,
         Store(c, PutAction(db[c].rows, a), head), UNCHANGED <<saved, inTx>>
  PROVE  Brings(t)
<1>1. db \in [Cells -> Content]
  BY DEF TypeOK
<1>2. \A d \in Cells : \A x \in db'[d].rows : x \in db[d].rows \/ x = a
  BY <1>1 DEF Store, PutAction
<1>3. \A d \in PlainCells : d \in Cells
  BY PlainTypes
<1>. QED BY <1>2, <1>3 DEF Brings, disk

LEMMA BringsGenesis ==
  ASSUME TypeOK, NEW t \in Tasks, GenesisStep(t) PROVE Brings(t)
<1>1. CASE HeadCheck(t) \/ GenesisFail(t)
  BY <1>1, BringsQuiet DEF HeadCheck, GenesisFail
<1>2. CASE GenesisPut(t)
  <2>1. GenesisAction(t).by = t
    BY DEF GenesisAction
  <2>. QED BY <1>2, <2>1, BringsWrite, CellOfType DEF GenesisPut
<1>3. CASE GenesisHead(t)
  <2>1. \A c \in Cells : db'[c].rows = db[c].rows
    BY <1>3, CellOfType DEF GenesisHead, Store, TypeOK, Content
  <2>. QED BY <1>3, <2>1, PlainTypes DEF Brings, disk, GenesisHead
<1>. QED BY <1>1, <1>2, <1>3 DEF GenesisStep

LEMMA BringsCall ==
  ASSUME TypeOK, NEW t \in Calls, CallStep(t) PROVE Brings(t)
<1>. DEFINE c == CellOf[t]
            a == NextAction(t, db[c].head)
<1>0. t \in Tasks /\ c \in Cells /\ a.by = t
  BY CellOfType DEF Tasks, NextAction
<1>1. CASE StartCall(t) \/ Load(t) \/ ExecReturn(t) \/ PostCommit(t) \/ AnswerCall(t)
  BY <1>1, BringsQuiet DEF StartCall, Load, ExecReturn, PostCommit, AnswerCall
<1>2. CASE GenesisStep(t)
  BY <1>0, <1>2, BringsGenesis
<1>3. CASE Begin(t) \/ Abort(t) \/ Commit(t)
  BY <1>3 DEF Brings, Begin, Abort, Commit, Rollback, disk, storage
<1>4. CASE HostWrite(t) \/ PostPut(t)
  <2>1. \E head : Store(c, PutAction(db[c].rows, a), head) /\ UNCHANGED <<saved, inTx>>
    BY <1>4 DEF HostWrite, PostPut
  <2>. HIDE DEF a, c
  <2>. QED BY <1>0, <2>1, BringsWrite
<1>5. CASE PostHead(t)
  <2>1. \A d \in Cells : db'[d].rows = db[d].rows
    BY <1>0, <1>5 DEF PostHead, Store, TypeOK, Content
  <2>. QED BY <1>5, <2>1, PlainTypes DEF Brings, disk, PostHead
<1>. QED BY <1>1, <1>2, <1>3, <1>4, <1>5 DEF CallStep

(* The records of a call are its own, all or none of them durable.         *)
LEMMA OwnOutcome ==
  ASSUME Inv, Inv', NEW t \in PlainCalls, Outcome(t), CallStep(t)
  PROVE  Outcome(t)'
<1>. DEFINE c == CellOf[t]
            a == NextAction(t, db[c].head)
<1>0. /\ t \in Calls /\ t \in Tasks /\ c \in Cells /\ c \in PlainCells
      /\ TypeOK /\ Serial /\ HashesFresh /\ CallInv(t) /\ CallInv(t)' /\ Serial'
      /\ pc \in [Tasks -> CallLabels \cup GenesisLabels]
      /\ pend \in [Tasks -> SUBSET Action]
  BY PlainTypes DEF Inv, TypeOK, PcTypeOK
<1>1. \A l : Goto(t, l) => pc'[t] = l
  BY <1>0 DEF Goto
(* After the commit it is Inv that says the records are kept.              *)
<1>2. pc'[t] \in {"post", "postexec", "posthead"} => Kept(t)'
  <2>. SUFFICES ASSUME pc'[t] \in {"post", "postexec", "posthead"} PROVE Kept(t)'
    OBVIOUS
  <2>1. ~inTx'
    BY <1>0 DEF Serial, ActiveLabels, FoundedLabels, TxLabels
  <2>2. pend'[t] \subseteq Chain(db'[c])
    BY <1>0 DEF CallInv, FoundedLabels, Chain
  <2>. QED BY <2>1, <2>2 DEF Kept, disk, Chain
<1>3. CASE UNCHANGED pend /\ pend[t] = {}
  <2>1. pend'[t] = {}
    BY <1>3
  <2>. QED BY <2>1 DEF Outcome, Gone, Kept
<1>4. CASE StartCall(t) \/ GenesisStep(t) \/ Begin(t)
  <2>1. pc[t] \in {"queued", "headcheck", "genesis", "begin"} /\ UNCHANGED pend
    BY <1>4 DEF StartCall, GenesisStep, HeadCheck, GenesisPut, GenesisHead, GenesisFail, Begin
  <2>. QED BY <1>3, <2>1 DEF Outcome
<1>5. CASE Load(t) \/ ExecReturn(t)
  <2>1. pc[t] \in TxLabels /\ pc'[t] \in {"exec", "validate"} /\ UNCHANGED <<pend, disk>>
    BY <1>0, <1>1, <1>5 DEF Load, ExecReturn, TxLabels, storage, disk
  <2>. QED BY <2>1 DEF Outcome, TxLabels
<1>6. CASE HostWrite(t)
  <2>1. /\ pc[t] = "exec" /\ pc' = pc /\ UNCHANGED <<saved, inTx>>
        /\ pend' = [pend EXCEPT ![t] = @ \cup {a}]
    BY <1>6 DEF HostWrite
  <2>2. a.by = t /\ a.nth = signed[t]
    BY DEF NextAction
  <2>. HIDE DEF a
  <2>3. inTx /\ disk' = saved /\ disk = saved
    BY <1>0, <2>1 DEF Serial, TxLabels, disk
  <2>4. a \notin saved[c].rows
    BY <1>0, <2>2 DEF HashesFresh, Fresh, TypeOK
  <2>5. pend'[t] = pend[t] \cup {a}
    BY <1>0, <2>1
  <2>6. pend[t] \cap saved[c].rows = {} /\ \A x \in pend[t] : x.by = t
    BY <2>1, <2>3 DEF Outcome, TxLabels
  <2>. QED BY <2>1, <2>2, <2>3, <2>4, <2>5, <2>6 DEF Outcome
<1>7. CASE Abort(t)
  <2>1. pc[t] \in TxLabels /\ pc'[t] = "failed" /\ pend' = pend /\ db' = disk /\ ~inTx'
    BY <1>1, <1>7 DEF Abort, Finish, Rollback, TxLabels
  <2>2. Gone(t)'
    BY <2>1 DEF Outcome, Gone, disk
  <2>. QED BY <2>1, <2>2 DEF Outcome, TxLabels
<1>8. CASE Commit(t) \/ PostCommit(t) \/ PostPut(t) \/ PostHead(t)
  <2>1. pc'[t] \in {"post", "postexec", "posthead"} /\ pend' = pend
    BY <1>1, <1>8 DEF Commit, PostCommit, PostPut, PostHead
  <2>. QED BY <1>2, <2>1 DEF Outcome, TxLabels
<1>9. CASE AnswerCall(t)
  <2>1. pc[t] \in {"post", "postexec"} /\ pc'[t] = "done" /\ UNCHANGED <<pend, disk>>
    BY <1>1, <1>9 DEF AnswerCall, Finish, storage, disk
  <2>2. Kept(t)'
    BY <2>1 DEF Outcome, Kept, Chain
  <2>. QED BY <2>1, <2>2 DEF Outcome, TxLabels
<1>. QED BY <1>4, <1>5, <1>6, <1>7, <1>8, <1>9 DEF CallStep

LEMMA OthersStay ==
  ASSUME TypeOK, NEW t \in Tasks,
         (t \in Calls /\ (Enqueue(t) \/ CallStep(t))) \/ (t \in Geneses /\ GenesisRun(t))
  PROVE  \A u \in Calls \ {t} : pc'[u] = pc[u] /\ pend'[u] = pend[u]
<1>1. /\ pc \in [Tasks -> CallLabels \cup GenesisLabels]
      /\ pend \in [Tasks -> SUBSET Action]
  BY DEF TypeOK, PcTypeOK
<1>2. pc' = pc \/ \E l : Goto(t, l)
  BY DEF Enqueue, CallStep, GenesisRun, GenesisStep, StartCall, HeadCheck, GenesisPut,
         GenesisHead, GenesisFail, Begin, Load, HostWrite, ExecReturn, Abort, Commit,
         PostCommit, PostPut, PostHead, AnswerCall, StartGenesis, AnswerGenesis, Finish
<1>3. pend' = pend \/ \E S : pend' = [pend EXCEPT ![t] = S]
  BY DEF Enqueue, CallStep, GenesisRun, GenesisStep, StartCall, HeadCheck, GenesisPut,
         GenesisHead, GenesisFail, Begin, Load, HostWrite, ExecReturn, Abort, Commit,
         PostCommit, PostPut, PostHead, AnswerCall, StartGenesis, AnswerGenesis
<1>4. \A u \in Calls \ {t} : u \in Tasks
  BY DEF Tasks
<1>5. \A u \in Calls \ {t} : pc'[u] = pc[u]
  BY <1>1, <1>2, <1>4 DEF Goto
<1>6. \A u \in Calls \ {t} : pend'[u] = pend[u]
  BY <1>1, <1>3, <1>4
<1>. QED BY <1>5, <1>6

(* A RUN_GENESIS message writes to cells that are not plain.               *)
LEMMA GenesisElsewhere ==
  ASSUME TypeOK, NEW g \in Geneses, GenesisRun(g)
  PROVE  /\ UNCHANGED <<saved, inTx>>
         /\ \A c \in PlainCells : db'[c] = db[c]
<1>1. UNCHANGED <<saved, inTx>>
  BY DEF GenesisRun, GenesisStep, HeadCheck, GenesisPut, GenesisHead, GenesisFail,
         StartGenesis, AnswerGenesis, storage
<1>2. db' = db \/ \E x : db' = [db EXCEPT ![CellOf[g]] = x]
  BY DEF GenesisRun, GenesisStep, HeadCheck, GenesisPut, GenesisHead, GenesisFail,
         StartGenesis, AnswerGenesis, storage, Store
<1>3. db \in [Cells -> Content]
  BY DEF TypeOK
<1>. QED BY <1>1, <1>2, <1>3, PlainTypes

(* What a step of the others does not do to a call's records.              *)
LEMMA OutcomeStep ==
  ASSUME Inv, Inv', AllGrow, NEW u \in PlainCalls, Outcome(u), [Next]_vars
  PROVE  Outcome(u)'
<1>0. /\ TypeOK /\ Serial /\ Grows(CellOf[u])
      /\ u \in Calls /\ u \in Tasks /\ CellOf[u] \in PlainCells
      /\ pc \in [Tasks -> CallLabels \cup GenesisLabels]
  BY PlainTypes DEF Inv, AllGrow, TypeOK, PcTypeOK
<1>1. ASSUME NEW t \in Calls, Enqueue(t) PROVE Outcome(u)'
  <2>1. t \in Tasks /\ pc[t] = "new" /\ pc'[t] = "queued" /\ UNCHANGED pend
        /\ UNCHANGED storage
    BY <1>0, <1>1 DEF Enqueue, Goto, Tasks
  <2>2. CASE u = t
    BY <2>1, <2>2 DEF Outcome, TxLabels, Gone, Kept
  <2>3. CASE u # t
    <3>1. pc'[u] = pc[u] /\ pend'[u] = pend[u]
      BY <1>0, <1>1, <2>1, <2>3, OthersStay
    <3>2. Brings(t) /\ disk' = disk
      BY <2>1, BringsQuiet DEF storage, disk
    <3>. QED BY <1>0, <2>3, <3>1, <3>2, OutcomeFrame
  <2>. QED BY <2>2, <2>3
<1>2. ASSUME NEW t \in Calls, CallStep(t) PROVE Outcome(u)'
  <2>1. CASE u = t
    BY <1>2, <2>1, OwnOutcome
  <2>2. CASE u # t
    <3>1. t \in Tasks /\ pc'[u] = pc[u] /\ pend'[u] = pend[u] /\ Brings(t)
      BY <1>0, <1>2, <2>2, OthersStay, BringsCall DEF Tasks
    <3>2. ASSUME pc[u] \in TxLabels PROVE disk' = disk
      <4>1. pc[t] \notin ActiveLabels
        BY <1>0, <2>2, <3>2 DEF Serial, ActiveLabels, FoundedLabels
      <4>2. StartCall(t)
        BY <1>2, <4>1
           DEF CallStep, GenesisStep, HeadCheck, GenesisPut, GenesisHead, GenesisFail,
               Begin, Load, HostWrite, ExecReturn, Abort, Commit, PostCommit, PostPut,
               PostHead, AnswerCall, ActiveLabels, FoundedLabels, TxLabels
      <4>. QED BY <4>2 DEF StartCall, storage, disk
    <3>. QED BY <1>0, <2>2, <3>1, <3>2, OutcomeFrame
  <2>. QED BY <2>1, <2>2
<1>3. ASSUME NEW g \in Geneses, GenesisRun(g) PROVE Outcome(u)'
  <2>1. g \in Tasks /\ u # g
    BY <1>0 DEF Tasks
  <2>2. pc'[u] = pc[u] /\ pend'[u] = pend[u]
    BY <1>0, <1>3, <2>1, OthersStay
  <2>3. \A c \in PlainCells : db'[c] = db[c] /\ disk'[c] = disk[c]
    BY <1>0, <1>3, GenesisElsewhere DEF disk
  <2>4. Brings(g)
    BY <2>3 DEF Brings
  <2>. QED BY <1>0, <2>1, <2>2, <2>3, <2>4, OutcomeFrame
<1>4. ASSUME NEW c \in RecoverCells, Recover(c) PROVE Outcome(u)'
  <2>1. UNCHANGED <<saved, inTx, pc, pend>>
    BY <1>4 DEF Recover
  <2>2. db' = db \/ \E x : db' = [db EXCEPT ![c] = x]
    BY <1>4 DEF Recover, Store
  <2>3. db'[CellOf[u]] = db[CellOf[u]] /\ disk'[CellOf[u]] = disk[CellOf[u]]
    BY <1>0, <2>1, <2>2, PlainTypes DEF TypeOK, disk
  <2>. QED BY <2>1, <2>3 DEF Outcome, Gone, Kept, Chain
<1>5. CASE (\E c \in RepublishCells : Republish(c)) \/ UNCHANGED vars
  <2>1. UNCHANGED <<db, disk, pc, pend>>
    BY <1>5 DEF Republish, storage, disk, vars
  <2>. QED BY <2>1 DEF Outcome, Gone, Kept, Chain
<1>6. CASE Crash
  <2>1. /\ db' = disk /\ disk' = disk /\ pend' = pend
        /\ pc'[u] = IF pc[u] \in Ended \cup {"new"} THEN pc[u] ELSE "lost"
    BY <1>0, <1>6 DEF Crash, Rollback, disk
  <2>2. (Kept(u) => Kept(u)') /\ (Gone(u) => Gone(u)')
    BY <2>1 DEF Kept, Gone, Chain
  <2>3. pend[u] \cap disk[CellOf[u]].rows = {} => Gone(u)'
    BY <2>1 DEF Gone
  <2>4. pc[u] \in CallLabels
    BY <1>0 DEF TypeOK, PcTypeOK, LabelsOf
  <2>. QED BY <2>1, <2>2, <2>3, <2>4 DEF Outcome, TxLabels, Ended, CallLabels
<1>. QED BY <1>1, <1>2, <1>3, <1>4, <1>5, <1>6 DEF Next

(***************************************************************************)
(* A transaction is local to the cell of its call                          *)
(***************************************************************************)
LEMMA TxFrame ==
  ASSUME TxLocal, UNCHANGED <<saved, inTx>>, inTx => running' = running,
         \A c \in PlainCells : inTx /\ c # CellOf[running] => db'[c] = db[c]
  PROVE  TxLocal'
BY DEF TxLocal

LEMMA TxLocalStep ==
  ASSUME Inv, TxLocal, [Next]_vars
  PROVE  TxLocal'
<1>0. TypeOK /\ Serial /\ db \in [Cells -> Content]
  BY DEF Inv, TypeOK
<1>a. ~inTx' => TxLocal'
  BY DEF TxLocal
<1>1. ASSUME NEW t \in Calls, Enqueue(t) PROVE TxLocal'
  BY <1>1, TxFrame DEF Enqueue, storage
<1>2. ASSUME NEW t \in Calls, CallStep(t) PROVE TxLocal'
  <2>1. CASE StartCall(t)
    <3>1. ~inTx'
      BY <1>0, <2>1 DEF StartCall, Serial, storage
    <3>. QED BY <1>a, <3>1
  <2>2. CASE GenesisStep(t) \/ PostCommit(t) \/ PostPut(t) \/ PostHead(t) \/ AnswerCall(t)
    <3>1. pc[t] \in ActiveLabels \ TxLabels /\ inTx' = inTx
      BY <2>2 DEF GenesisStep, HeadCheck, GenesisPut, GenesisHead, GenesisFail, PostCommit,
                  PostPut, PostHead, AnswerCall, storage, ActiveLabels, FoundedLabels, TxLabels
    <3>2. ~inTx'
      BY <1>0, <3>1, InTxRunning
    <3>. QED BY <1>a, <3>2
  <2>3. CASE Begin(t)
    <3>1. pc[t] = "begin" /\ pc[t] \in ActiveLabels /\ pc[t] \notin TxLabels
      BY <2>3 DEF Begin, ActiveLabels, FoundedLabels, TxLabels
    <3>2. ~inTx /\ running = t
      BY <1>0, <3>1, InTxRunning
    <3>3. saved' = db /\ db' = db /\ running' = t
      BY <2>3, <3>2 DEF Begin, control
    <3>4. CellOf[t] \in PlainCells => db[CellOf[t]].head # NoHead
      BY <3>1 DEF Inv, PlainCalls, CallInv, FoundedLabels
    <3>. QED BY <3>3, <3>4 DEF TxLocal
  <2>4. CASE Load(t) \/ ExecReturn(t)
    BY <2>4, TxFrame DEF Load, ExecReturn, storage, control
  <2>5. CASE HostWrite(t)
    <3>1. running = t
      BY <1>0, <2>5 DEF HostWrite, Serial, ActiveLabels, FoundedLabels, TxLabels
    <3>2. \E x : db' = [db EXCEPT ![CellOf[t]] = x]
      BY <2>5 DEF HostWrite, Store
    <3>3. \A c \in PlainCells : c # CellOf[running] => db'[c] = db[c]
      BY <1>0, <3>1, <3>2, PlainTypes
    <3>. QED BY <2>5, <3>3, TxFrame DEF HostWrite, control
  <2>6. CASE Abort(t) \/ Commit(t)
    BY <1>a, <2>6 DEF Abort, Rollback, Commit
  <2>. QED BY <1>2, <2>1, <2>2, <2>3, <2>4, <2>5, <2>6 DEF CallStep
<1>3. ASSUME NEW g \in Geneses, GenesisRun(g) PROVE TxLocal'
  <2>1. g # running
    BY <1>0 DEF TypeOK, Tasks
  <2>2. running' = running
    BY <1>3, <2>1 DEF GenesisRun, GenesisStep, HeadCheck, GenesisPut, GenesisHead, GenesisFail,
                      StartGenesis, AnswerGenesis, control, Finish
  <2>. QED BY <1>0, <1>3, <2>2, GenesisElsewhere, TxFrame
<1>4. ASSUME NEW c \in RecoverCells, Recover(c) PROVE TxLocal'
  <2>1. \E x : db' = [db EXCEPT ![c] = x]
    BY <1>4 DEF Recover, Store
  <2>2. \A d \in PlainCells : db'[d] = db[d]
    BY <1>0, <2>1, PlainTypes
  <2>. QED BY <1>4, <2>2, TxFrame DEF Recover, control
<1>5. ASSUME NEW c \in RepublishCells, Republish(c) PROVE TxLocal'
  BY <1>5, TxFrame DEF Republish, storage, control
<1>6. CASE Crash
  BY <1>a, <1>6 DEF Crash, Rollback
<1>7. CASE UNCHANGED vars
  BY <1>7, TxFrame DEF vars
<1>. QED BY <1>1, <1>2, <1>3, <1>4, <1>5, <1>6, <1>7 DEF Next

LEMMA LogInvInit == Init => LogInv
<1>. SUFFICES ASSUME Init PROVE LogInv
  OBVIOUS
<1>1. TxLocal
  BY DEF Init, TxLocal
<1>2. ASSUME NEW t \in PlainCalls PROVE Outcome(t)
  BY <1>2, PlainTypes DEF Init, Outcome, TxLabels
<1>. QED BY <1>1, <1>2 DEF LogInv

LEMMA LogInvStep == Inv /\ LogInv /\ [Next]_vars => LogInv'
BY InvStep, OutcomeStep, TxLocalStep DEF LogInv

THEOREM LogInvariance == Spec => [](Inv /\ LogInv)
BY InvInit, InvStep, LogInvInit, LogInvStep, PTL DEF Spec

(* Of what a zome call wrote, all or nothing is durable: all of it once it *)
(* committed, nothing when it failed, one of the two when it was killed.   *)
THEOREM CallsAreAtomic == Spec => []CallAtomic
<1>1. ASSUME Inv, LogInv PROVE CallAtomic
  <2>. SUFFICES ASSUME NEW t \in PlainCalls
                PROVE  LET durable == pend[t] \cap Chain(disk[CellOf[t]])
                       IN /\ durable \in {{}, pend[t]}
                          /\ pc[t] = "failed" => durable = {}
                          /\ pc[t] \in {"post", "postexec", "posthead", "done"}
                               => durable = pend[t]
    BY DEF CallAtomic, PlainCalls
  <2>1. Outcome(t) /\ pc[t] \in CallLabels
    BY <1>1, PlainTypes DEF LogInv, Inv, TypeOK, PcTypeOK, LabelsOf
  <2>2. Chain(disk[CellOf[t]]) \subseteq disk[CellOf[t]].rows
    BY DEF Chain
  <2>. QED BY <2>1, <2>2 DEF Outcome, Gone, Kept, CallLabels, TxLabels, Ended
<1>. QED BY <1>1, LogInvariance, PTL

(***************************************************************************)
(* A sound chain is a log                                                  *)
(***************************************************************************)
LEMMA LogOfSound ==
  ASSUME NEW x \in Content, Sound(x), x.head # NoHead
  PROVE  /\ LogOf(x) \in Seq(Action) /\ x.head.seq \in Nat
         /\ Len(LogOf(x)) = x.head.seq + 1
         /\ \A i \in 1..Len(LogOf(x)) : LogOf(x)[i] \in Chain(x) /\ LogOf(x)[i].seq = i - 1
         /\ \A r \in Chain(x) : \E i \in 1..Len(LogOf(x)) : LogOf(x)[i] = r
<1>. DEFINE n == x.head.seq
            at(i) == CHOOSE r \in x.rows : r.seq = i - 1
<1>1. x.rows \in SUBSET Action /\ x.head \in ChainHead /\ n \in Nat
  BY DEF Content, ChainHead
<1>2. Linked(x.rows, x.head) /\ \A r, s \in x.rows : r.seq = s.seq => r = s
  BY DEF Sound
<1>3. ASSUME NEW i \in 1..(n + 1) PROVE at(i) \in x.rows /\ at(i).seq = i - 1 /\ at(i) \in Action
  <2>1. i - 1 \in 0..n
    BY <1>1
  <2>2. \E r \in x.rows : r.seq = i - 1
    BY <1>2, <2>1 DEF Linked
  <2>. QED BY <1>1, <2>2
<1>4. LogOf(x) = [i \in 1..(n + 1) |-> at(i)]
  BY DEF LogOf
<1>. HIDE DEF at
<1>5. LogOf(x) \in Seq(Action) /\ Len(LogOf(x)) = n + 1 /\ \A i \in 1..(n + 1) : LogOf(x)[i] = at(i)
  <2>1. n + 1 \in Nat
    BY <1>1
  <2>. HIDE DEF n
  <2>. QED BY <1>3, <1>4, <2>1
<1>6. \A i \in 1..(n + 1) : at(i) \in Chain(x)
  BY <1>1, <1>3 DEF Chain
<1>7. ASSUME NEW r \in Chain(x) PROVE \E i \in 1..(n + 1) : at(i) = r
  <2>1. r \in x.rows /\ r \in Action /\ r.seq <= n
    BY <1>1 DEF Chain
  <2>2. r.seq \in Nat
    BY <2>1 DEF Action
  <2>3. r.seq + 1 \in 1..(n + 1) /\ (r.seq + 1) - 1 = r.seq
    BY <1>1, <2>1, <2>2
  <2>4. at(r.seq + 1) = r
    BY <1>2, <1>3, <2>1, <2>3
  <2>. QED BY <2>3, <2>4
<1>. QED BY <1>1, <1>3, <1>5, <1>6, <1>7

LEMMA LogOfEmpty == ASSUME NEW x, x.head = NoHead PROVE LogOf(x) = <<>>
BY DEF LogOf

(* A chain that keeps its records only grows at its end.                   *)
LEMMA LogOfPrefix ==
  ASSUME NEW x \in Content, NEW y \in Content, Sound(x), Sound(y), Chain(x) \subseteq Chain(y)
  PROVE  Log!IsPrefix(LogOf(x), LogOf(y))
<1>1. CASE x.head = NoHead
  <2>1. LogOf(x) = <<>>
    BY <1>1, LogOfEmpty
  <2>a. Len(LogOf(y)) >= 0
    <3>1. CASE y.head = NoHead
      BY <3>1, LogOfEmpty
    <3>2. CASE y.head # NoHead
      BY <3>2, LogOfSound
    <3>. QED BY <3>1, <3>2
  <2>2. SubSeq(LogOf(x), 1, 0) = <<>> /\ SubSeq(LogOf(y), 1, 0) = <<>>
    BY SubSeqEmpty
  <2>. QED BY <2>1, <2>a, <2>2 DEF Log!IsPrefix
<1>2. CASE x.head # NoHead
  <2>. DEFINE s == LogOf(x)
              t == LogOf(y)
  <2>1. /\ s \in Seq(Action) /\ Len(s) \in Nat /\ Len(s) > 0
        /\ \A i \in 1..Len(s) : s[i] \in Chain(x) /\ s[i].seq = i - 1
    BY <1>2, LogOfSound
  <2>2. y.head # NoHead
    <3>1. s[1] \in Chain(y)
      BY <2>1
    <3>. QED BY <3>1 DEF Chain
  <2>3. /\ t \in Seq(Action) /\ Len(t) \in Nat
        /\ \A i \in 1..Len(t) : t[i].seq = i - 1
        /\ \A r \in Chain(y) : \E i \in 1..Len(t) : t[i] = r
    BY <2>2, LogOfSound
  <2>. HIDE DEF s, t
  <2>4. ASSUME NEW i \in 1..Len(s) PROVE i \in 1..Len(t) /\ t[i] = s[i]
    <3>1. s[i] \in Chain(y) /\ s[i].seq = i - 1
      BY <2>1
    <3>2. PICK j \in 1..Len(t) : t[j] = s[i]
      BY <2>3, <3>1
    <3>3. j - 1 = i - 1
      BY <2>3, <3>1, <3>2
    <3>. QED BY <2>1, <2>3, <3>2, <3>3
  <2>5. Len(s) <= Len(t)
    <3>1. Len(s) \in 1..Len(s)
      BY <2>1
    <3>2. Len(s) \in 1..Len(t)
      BY <2>4, <3>1
    <3>. QED BY <2>3, <3>2
  <2>6. SubSeq(s, 1, Len(s)) = SubSeq(t, 1, Len(s))
    BY <2>1, <2>3, <2>4, <2>5
  <2>. QED BY <2>5, <2>6 DEF Log!IsPrefix, s, t
<1>. QED BY <1>1, <1>2

(***************************************************************************)
(* The worker implements ChainLog                                          *)
(***************************************************************************)
LogMap == [c \in PlainCells |-> LogOf(disk[c])]
PublishedMap == [c \in PlainCells |-> handed[c]]

LogSteps == Log!Next \/ (LogMap' = LogMap /\ PublishedMap' = PublishedMap)

LEMMA LogMapNext == \A c \in PlainCells : LogMap'[c] = LogOf(disk'[c])
BY DEF LogMap

LEMMA LogStutter ==
  ASSUME \A c \in PlainCells : disk'[c] = disk[c] /\ handed'[c] = handed[c]
  PROVE  LogSteps
<1>1. \A c \in PlainCells : LogOf(disk'[c]) = LogOf(disk[c])
  OBVIOUS
<1>. QED BY <1>1 DEF LogSteps, LogMap, PublishedMap, LogOf

(* The durable chain of one cell changes: it is founded, or grows.         *)
LEMMA LogExtend ==
  ASSUME Inv, Inv', AllGrow, NEW c \in PlainCells,
         \A d \in PlainCells \ {c} : disk'[d] = disk[d],
         \A d \in PlainCells : handed'[d] = handed[d],
         disk[c].head = NoHead /\ disk'[c].head # NoHead => disk'[c].head.seq = 3
  PROVE  LogSteps
<1>. DEFINE x == disk[c]
            y == disk'[c]
<1>1. x \in Content /\ y \in Content /\ c \in Cells
  <2>1. TypeOK /\ TypeOK' /\ c \in Cells
    BY PlainTypes DEF Inv
  <2>2. disk \in [Cells -> Content] /\ disk' \in [Cells -> Content]
    BY <2>1 DEF TypeOK, disk
  <2>. QED BY <2>1, <2>2
<1>2. Sound(x) /\ Sound(y)
  <2>1. CellInv(c) /\ CellInv(c)'
    BY DEF Inv
  <2>2. Sound(db[c]) /\ Sound(saved[c]) /\ Sound(db'[c]) /\ Sound(saved'[c])
    BY <2>1 DEF CellInv, Sound
  <2>. QED BY <2>2 DEF disk
<1>3. Chain(x) \subseteq Chain(y)
  BY DEF AllGrow, Grows
<1>. HIDE DEF x, y
<1>4. Log!IsPrefix(LogOf(x), LogOf(y))
  BY <1>1, <1>2, <1>3, LogOfPrefix
<1>5. LogMap[c] = LogOf(x) /\ LogMap'[c] = LogOf(y)
  BY DEF LogMap, LogOf, x, y
<1>6. \A d \in PlainCells \ {c} : LogMap'[d] = LogMap[d]
  <2>1. \A d \in PlainCells \ {c} : LogMap'[d] = LogOf(disk[d])
    BY LogMapNext
  <2>. QED BY <2>1 DEF LogMap
<1>7. PublishedMap' = PublishedMap
  BY DEF PublishedMap
<1>8. CASE LogOf(x) = LogOf(y)
  <2>1. \A d \in PlainCells : LogOf(disk'[d]) = LogOf(disk[d])
    <3>1. \A d \in PlainCells \ {c} : LogOf(disk'[d]) = LogOf(disk[d])
      OBVIOUS
    <3>. QED BY <1>8, <3>1 DEF x, y
  <2>2. LogMap' = LogMap
    BY <2>1 DEF LogMap, LogOf
  <2>. QED BY <1>7, <2>2 DEF LogSteps
<1>9. CASE LogOf(x) # LogOf(y)
  <2>1. LogOf(x) = <<>> => Len(LogOf(y)) = 4
    <3>. SUFFICES ASSUME LogOf(x) = <<>> PROVE Len(LogOf(y)) = 4
      OBVIOUS
    <3>1. x.head = NoHead
      <4>1. x.head # NoHead => x.head.seq \in Nat /\ Len(LogOf(x)) = x.head.seq + 1
        BY <1>1, <1>2, LogOfSound
      <4>. QED BY <4>1
    <3>2. y.head # NoHead
      BY <1>9, LogOfEmpty
    <3>3. y.head.seq = 3
      BY <3>1, <3>2 DEF x, y
    <3>4. Len(LogOf(y)) = y.head.seq + 1
      BY <1>1, <1>2, <3>2, LogOfSound
    <3>. QED BY <3>3, <3>4
  <2>2. /\ LogMap[c] # LogMap'[c]
        /\ Log!IsPrefix(LogMap[c], LogMap'[c])
        /\ LogMap[c] = <<>> => Len(LogMap'[c]) = 4
    BY <1>4, <1>5, <1>9, <2>1
  <2>3. Log!Extend(c)
    BY <1>6, <1>7, <2>2 DEF Log!Extend, LogMap, PublishedMap
  <2>. QED BY <2>3 DEF LogSteps, Log!Next
<1>. QED BY <1>8, <1>9

(* Records of one cell are handed out.                                     *)
LEMMA LogPublish ==
  ASSUME Inv, Inv', NEW c \in PlainCells, handed[c] \subseteq handed'[c],
         \A d \in PlainCells : disk'[d] = disk[d],
         \A d \in PlainCells \ {c} : handed'[d] = handed[d]
  PROVE  LogSteps
<1>. DEFINE x == disk[c]
<1>1. /\ x \in Content /\ Sound(x) /\ handed'[c] \subseteq Chain(x)
  <2>1. TypeOK /\ c \in Cells /\ CellInv(c) /\ CellInv(c)'
    BY PlainTypes DEF Inv
  <2>2. disk \in [Cells -> Content]
    BY <2>1, DiskType
  <2>3. Sound(x)
    BY <2>1 DEF CellInv, disk
  <2>4. handed'[c] \subseteq Chain(disk'[c])
    BY <2>1 DEF CellInv, disk, Chain
  <2>. QED BY <2>1, <2>2, <2>3, <2>4
<1>2. LogMap' = LogMap /\ LogMap[c] = LogOf(x)
  <2>1. \A d \in PlainCells : LogOf(disk'[d]) = LogOf(disk[d])
    OBVIOUS
  <2>. QED BY <2>1 DEF LogMap, LogOf
<1>. HIDE DEF x
<1>3. Chain(x) \subseteq {LogMap[c][i] : i \in 1..Len(LogMap[c])}
  <2>1. CASE x.head = NoHead
    BY <2>1 DEF Chain
  <2>2. CASE x.head # NoHead
    <3>1. Chain(x) = {LogOf(x)[i] : i \in 1..Len(LogOf(x))}
      BY <1>1, <2>2, LogOfSound
    <3>. QED BY <1>2, <3>1
  <2>. QED BY <2>1, <2>2
<1>4. /\ PublishedMap[c] \subseteq PublishedMap'[c]
      /\ PublishedMap'[c] \subseteq Chain(x)
      /\ \A d \in PlainCells \ {c} : PublishedMap'[d] = PublishedMap[d]
  BY <1>1 DEF PublishedMap
<1>5. PublishedMap'[c] \subseteq {LogMap[c][i] : i \in 1..Len(LogMap[c])}
  BY <1>3, <1>4
<1>6. Log!Publish(c)
  BY <1>2, <1>4, <1>5 DEF Log!Publish, Log!OnLog, LogMap, PublishedMap
<1>. QED BY <1>6 DEF LogSteps, Log!Next

(* A write outside of a transaction.                                       *)
LEMMA LogWrite ==
  ASSUME Inv, Inv', AllGrow, NEW c \in Cells, NEW x, db' = [db EXCEPT ![c] = x],
         ~inTx, UNCHANGED <<inTx, handed>>,
         c \in PlainCells /\ db[c].head = NoHead /\ x.head # NoHead => x.head.seq = 3
  PROVE  LogSteps
<1>1. db \in [Cells -> Content]
  BY DEF Inv, TypeOK
<1>2. disk = db /\ disk' = db' /\ db'[c] = x /\ \A d \in Cells \ {c} : disk'[d] = disk[d]
  BY <1>1 DEF disk
<1>3. CASE c \notin PlainCells
  BY <1>2, <1>3, LogStutter, PlainTypes
<1>4. CASE c \in PlainCells
  <2>1. \A d \in PlainCells \ {c} : disk'[d] = disk[d]
    BY <1>2, PlainTypes
  <2>2. disk[c].head = NoHead /\ disk'[c].head # NoHead => disk'[c].head.seq = 3
    BY <1>2, <1>4
  <2>. QED BY <1>4, <2>1, <2>2, LogExtend
<1>. QED BY <1>3, <1>4

LEMMA LogCallStep ==
  ASSUME Inv, Inv', AllGrow, LogInv, NEW t \in Calls, CallStep(t)
  PROVE  LogSteps
<1>. DEFINE c == CellOf[t]
<1>0. /\ t \in Tasks /\ c \in Cells /\ Serial
      /\ c \in PlainCells => t \in PlainCalls /\ CallInv(t)
  BY CellOfType DEF Tasks, PlainCalls, Inv
<1>1. CASE StartCall(t) \/ HeadCheck(t) \/ GenesisFail(t) \/ Begin(t) \/ Load(t) \/ HostWrite(t)
           \/ ExecReturn(t) \/ Abort(t) \/ PostCommit(t)
  <2>1. CASE HostWrite(t)
    <3>1. inTx /\ UNCHANGED <<saved, inTx>>
      BY <1>0, <2>1 DEF HostWrite, Serial, TxLabels
    <3>. QED BY <2>1, <3>1, LogStutter DEF HostWrite, disk
  <2>2. CASE Begin(t) \/ Abort(t)
    <3>1. disk' = disk /\ handed' = handed
      BY <2>2 DEF Begin, Abort, Rollback, storage, disk
    <3>. QED BY <3>1, LogStutter
  <2>3. CASE StartCall(t) \/ HeadCheck(t) \/ GenesisFail(t) \/ Load(t) \/ ExecReturn(t) \/ PostCommit(t)
    <3>1. disk' = disk /\ handed' = handed
      BY <2>3 DEF StartCall, HeadCheck, GenesisFail, Load, ExecReturn, PostCommit, storage, disk
    <3>. QED BY <3>1, LogStutter
  <2>. QED BY <1>1, <2>1, <2>2, <2>3
<1>2. CASE GenesisPut(t) \/ GenesisHead(t) \/ PostPut(t) \/ PostHead(t)
  <2>1. pc[t] \in ActiveLabels \ TxLabels /\ UNCHANGED <<inTx, handed>>
    BY <1>2 DEF GenesisPut, GenesisHead, PostPut, PostHead, ActiveLabels, FoundedLabels, TxLabels
  <2>2. ~inTx
    BY <1>0, <2>1, InTxRunning
  <2>3. CASE GenesisPut(t)
    <3>. DEFINE x == Pair(PutAction(db[c].rows, GenesisAction(t)), db[c].head)
    <3>1. db' = [db EXCEPT ![c] = x] /\ x.head = db[c].head
      BY <2>3 DEF GenesisPut, Store, Pair
    <3>. HIDE DEF x
    <3>. HIDE DEF c
    <3>. QED BY <1>0, <2>1, <2>2, <3>1, LogWrite
  <2>4. CASE GenesisHead(t)
    <3>. DEFINE x == Pair(db[c].rows, HeadAt(gen[t][4]))
    <3>1. db' = [db EXCEPT ![c] = x] /\ x.head = HeadAt(gen[t][4])
      BY <2>4 DEF GenesisHead, Store, Pair
    <3>. HIDE DEF x
    <3>2. c \in PlainCells => x.head.seq = 3
      <4>1. c \in PlainCells => gen[t][4].seq = 4 - 1
        BY <1>0, <2>4 DEF GenesisHead, CallInv, GenesisStored
      <4>. QED BY <3>1, <4>1 DEF HeadAt
    <3>. HIDE DEF c
    <3>. QED BY <1>0, <2>1, <2>2, <3>1, <3>2, LogWrite
  <2>5. CASE PostPut(t) \/ PostHead(t)
    <3>1. PICK x : db' = [db EXCEPT ![c] = x]
      BY <2>5 DEF PostPut, PostHead, Store
    <3>2. c \in PlainCells => db[c].head # NoHead
      BY <1>0, <2>5 DEF PostPut, PostHead, CallInv, FoundedLabels
    <3>. HIDE DEF c
    <3>. QED BY <1>0, <2>1, <2>2, <3>1, <3>2, LogWrite
  <2>. QED BY <1>2, <2>3, <2>4, <2>5
<1>3. CASE Commit(t)
  <2>1. inTx /\ running = t /\ ~inTx' /\ UNCHANGED <<db, handed>>
    BY <1>0, <1>3 DEF Commit, Serial, ActiveLabels, FoundedLabels, TxLabels
  <2>2. disk = saved /\ disk' = db
    BY <2>1 DEF disk
  <2>3. \A d \in PlainCells : IF d = c THEN disk[d].head # NoHead ELSE disk'[d] = disk[d]
    BY <2>1, <2>2 DEF LogInv, TxLocal
  <2>4. CASE c \in PlainCells
    <3>. HIDE DEF c
    <3>. QED BY <2>1, <2>3, <2>4, LogExtend
  <2>5. CASE c \notin PlainCells
    BY <2>1, <2>3, <2>5, LogStutter
  <2>. QED BY <2>4, <2>5
<1>4. CASE AnswerCall(t)
  <2>1. disk' = disk
    BY <1>4 DEF AnswerCall, storage, disk
  <2>2. handed' = handed \/ handed' = [handed EXCEPT ![c] = @ \cup GenRecords(t) \cup pend[t]]
    BY <1>4 DEF AnswerCall
  <2>3. handed \in [Cells -> SUBSET Action]
    BY DEF Inv, TypeOK
  <2>4. handed[c] \subseteq handed'[c] /\ \A d \in Cells \ {c} : handed'[d] = handed[d]
    BY <1>0, <2>2, <2>3
  <2>. HIDE DEF c
  <2>5. CASE c \in PlainCells
    BY <2>1, <2>4, <2>5, LogPublish, PlainTypes
  <2>6. CASE c \notin PlainCells
    BY <2>1, <2>4, <2>6, LogStutter, PlainTypes
  <2>. QED BY <2>5, <2>6
<1>. QED BY <1>1, <1>2, <1>3, <1>4 DEF CallStep, GenesisStep

LEMMA LogStep ==
  ASSUME Inv, Inv', AllGrow, LogInv, [Next]_vars
  PROVE  LogSteps
<1>0. TypeOK /\ db \in [Cells -> Content] /\ handed \in [Cells -> SUBSET Action]
  BY DEF Inv, TypeOK
<1>1. ASSUME NEW t \in Calls, Enqueue(t) PROVE LogSteps
  <2>1. disk' = disk /\ handed' = handed
    BY <1>1 DEF Enqueue, storage, disk
  <2>. QED BY <2>1, LogStutter
<1>2. ASSUME NEW t \in Calls, CallStep(t) PROVE LogSteps
  BY <1>2, LogCallStep
<1>3. ASSUME NEW g \in Geneses, GenesisRun(g) PROVE LogSteps
  <2>1. \A c \in PlainCells : disk'[c] = disk[c]
    BY <1>0, <1>3, GenesisElsewhere DEF disk
  <2>2. handed' = handed \/ \E x : handed' = [handed EXCEPT ![CellOf[g]] = x]
    BY <1>3 DEF GenesisRun, GenesisStep, HeadCheck, GenesisPut, GenesisHead, GenesisFail,
                StartGenesis, AnswerGenesis
  <2>3. \A c \in PlainCells : handed'[c] = handed[c]
    BY <1>0, <2>2, PlainTypes
  <2>. QED BY <2>1, <2>3, LogStutter
<1>4. ASSUME NEW c \in RecoverCells, Recover(c) PROVE LogSteps
  <2>1. \E x : db' = [db EXCEPT ![c] = x]
    BY <1>4 DEF Recover, Store
  <2>2. \A d \in PlainCells : db'[d] = db[d]
    BY <1>0, <2>1, PlainTypes
  <2>. QED BY <1>4, <2>2, LogStutter DEF Recover, disk
<1>5. ASSUME NEW c \in RepublishCells, Republish(c) PROVE LogSteps
  <2>1. \A d \in PlainCells : handed'[d] = handed[d]
    BY <1>0, <1>5, PlainTypes DEF Republish
  <2>. QED BY <1>5, <2>1, LogStutter DEF Republish, storage, disk
<1>6. CASE Crash \/ UNCHANGED vars
  <2>1. disk' = disk /\ handed' = handed
    BY <1>6 DEF Crash, Rollback, vars, disk
  <2>. QED BY <2>1, LogStutter
<1>. QED BY <1>1, <1>2, <1>3, <1>4, <1>5, <1>6 DEF Next

(* The worker's durable chains are append-only logs: each appears whole    *)
(* with its genesis, grows at its end, and only its records are published. *)
THEOREM ChainsAreLogs == Spec => ImplementsLog
<1>1. Init => Log!Init
  <2>. SUFFICES ASSUME Init PROVE Log!Init
    OBVIOUS
  <2>1. \A c \in PlainCells : LogOf(disk[c]) = <<>> /\ handed[c] = {}
    <3>1. \A c \in PlainCells : disk[c].head = NoHead /\ handed[c] = {}
      BY PlainTypes DEF Init, disk
    <3>. QED BY <3>1, LogOfEmpty
  <2>. QED BY <2>1 DEF Log!Init
<1>2. Inv /\ LogInv /\ [Next]_vars
        => [Log!Next]_<<[c \in PlainCells |-> LogOf(disk[c])], [c \in PlainCells |-> handed[c]]>>
  BY InvStep, LogStep DEF LogSteps, LogMap, PublishedMap
<1>. QED BY <1>1, <1>2, LogInvariance, PTL DEF Spec, ImplementsLog, Log!Spec
=============================================================================
