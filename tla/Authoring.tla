------------------------------ MODULE Authoring ------------------------------
(***************************************************************************)
(* From a zome call's writes to the ops that other agents will hold: the   *)
(* records of a call are written to the row store, validated one by one in *)
(* the integrity zomes, committed, and turned into ops that are queued for *)
(* publication.  Genesis is checked by every integrity zome first (a call  *)
(* that has to found its chain, unchecked, is in SourceChain).             *)
(***************************************************************************)
EXTENDS RowStore, ChainOps

CONSTANTS MaxCalls   \* bound

VARIABLES
  call,      \* the running call: its cell, the zome that runs, and where it is
  records,   \* pendingRecords, in order; valid: how many of them are found valid
  valid,
  checked,   \* calls of a validate export that answered Valid
  queued,    \* ops queued for publication
  left       \* calls left

authorVars == <<rows, saved, call, records, valid, checked, queued, left>>

Idle == [cell |-> None, zome |-> None, at |-> "idle"]

AuthorInit ==
  /\ StoreInit /\ call = Idle /\ records = <<>> /\ valid = 0 /\ checked = {} /\ queued = {} /\ left = MaxCalls

OpsOf(acts, r) == UNION {produceOps(buildRecord(a, DOMAIN r.entry)) : a \in acts}

(* RUN_GENESIS: genesis_self_check of every integrity zome in turn, none   *)
(* without WASM or export; only then are the actions written and queued.   *)
SelfChecks(c) == {[act |-> c, op |-> "genesis_self_check", zome |-> z] : z \in Zomes \ NoWasm}

RunGenesis(c) ==
  /\ call = Idle /\ FoundChain(c)
  /\ checked' = checked \cup SelfChecks(c)
  /\ queued' = queued \cup OpsOf(Range(Genesis[c]), rows') /\ UNCHANGED <<call, records, valid, left>>

BeginCall(c, z) ==
  /\ call = Idle /\ rows.head[c] # None /\ left > 0 /\ left' = left - 1 /\ beginTransaction
  /\ call' = [cell |-> c, zome |-> z, at |-> "running"] /\ UNCHANGED <<records, valid, checked, queued>>

HostWrite(a) ==
  /\ call.at = "running" /\ call.cell = About[a].cell /\ Writable(DOMAIN rows.act, a)
  /\ rows' = Write(rows, a, RecordedZome(a, call.zome)) /\ records' = Append(records, a)
  /\ UNCHANGED <<saved, call, valid, checked, queued, left>>

(* The zome function returns.                                              *)
Returned ==
  /\ call.at = "running" /\ call' = [call EXCEPT !.at = "validating"]
  /\ UNCHANGED <<rows, saved, records, valid, checked, queued, left>>

(* The next record, all its ops in all their zomes: all answer Valid, or   *)
(* the first that does not, or that throws, ends the call (Fail).          *)
Validate ==
  /\ call.at = "validating" /\ valid < Len(records) /\ valid' = valid + 1
  /\ checked' = checked \cup Checks(buildRecord(records[valid'], DOMAIN rows.entry), rows.act)
  /\ UNCHANGED <<rows, saved, call, records, queued, left>>

EndCall == call' = Idle /\ records' = <<>> /\ valid' = 0

Commit ==
  /\ call.at = "validating" /\ valid = Len(records) /\ commitTransaction /\ EndCall
  /\ queued' = queued \cup OpsOf(Range(records), rows) /\ UNCHANGED <<checked, left>>

(* The zome function, or the validation, fails.  What was found of the     *)
(* records is of no use: written again they are other actions.             *)
Fail ==
  /\ call # Idle /\ rollbackTransaction /\ EndCall
  /\ checked' = {k \in checked : k.act \notin Range(records)} /\ UNCHANGED <<queued, left>>

(* PUBLISH_ALL_RECORDS: every row of the cell, its entry if it is there.   *)
Republish(c) ==
  /\ call = Idle /\ rows.head[c] # None
  /\ queued' = queued \cup OpsOf(OfCell(rows, c), rows)
  /\ UNCHANGED <<rows, saved, call, records, valid, checked, left>>

AuthorNext ==
  \/ Returned \/ Validate \/ Commit \/ Fail
  \/ \E c \in Cells : RunGenesis(c) \/ Republish(c) \/ \E z \in Zomes \cup {None} : BeginCall(c, z)
  \/ \E a \in Acts : HostWrite(a)

AuthorSpec == AuthorInit /\ [][AuthorNext]_authorVars

(***************************************************************************)
(* RECOVER_CHAIN on a device that has nothing: the actions the agent's     *)
(* authorities know, the record of each that is found, and all of them     *)
(* stored, in the order of the chain, unless one has a bad signature.      *)
(***************************************************************************)
(* The actions of a cell whose op of a type is kept at an address.         *)
At(b, t, c) == {q.act : q \in {p \in queued : p.basis = b /\ p.type = t /\ About[p.act].cell = c}}

getAgentActivitySync(c) == At(Author, "RegisterAgentActivity", c)

(* The record as the author signed it, with its entry if it was published. *)
networkRecordToRecovered(a) ==
  [act |-> a, seq |-> rows.act[a].seq, zome |-> rows.act[a].zome,
   entry |-> IF isEntryAction(a) /\ a \in At(About[a].entry, "StoreEntry", About[a].cell)
             THEN About[a].entry ELSE None]

(* bug: the comparison is the wrong way round *)
recoverBackwards(c, missing) ==
  LET found == {networkRecordToRecovered(a) : a \in getAgentActivitySync(c) \ missing}
  IN [i \in 1..Cardinality(found) |-> CHOOSE p \in found : Cardinality({q \in found : q.seq > p.seq}) = i - 1]

recoverChainFromDHT(c, missing) ==
  LET found == {networkRecordToRecovered(a) : a \in getAgentActivitySync(c) \ missing}
  IN [i \in 1..Cardinality(found) |-> CHOOSE p \in found : Cardinality({q \in found : q.seq < p.seq}) = i - 1]

(* The zome from the entry type or the link.  A row of a DeleteLink lacks  *)
(* the link it deletes, one of an AgentValidationPkg the membrane proof.   *)
PutRecovered(r, p) == putAction(r, p.act, p.seq, p.zome)
Whole(a) == About[a].type \notin {"DeleteLink", "AgentValidationPkg"}
PutRecoveredEntry(r, p) == IF p.entry = None THEN r ELSE putEntry(r, p.entry, About[p.act].cell)

verifyActionSignature(p, forged) == p.act \notin forged

(* No row of links is written.                                             *)
storeRecoveredRecords(r, c, found, forged) ==
  LET Put(s, p) == updateChainHead(PutRecoveredEntry(PutRecovered(s, p), p), c, p.seq, p.act)
      stored[i \in 0..Len(found)] == IF i = 0 THEN r ELSE Put(stored[i - 1], found[i])
  IN IF \A p \in Range(found) : verifyActionSignature(p, forged) THEN stored[Len(found)] ELSE r

(***************************************************************************)
(* Properties                                                              *)
(***************************************************************************)
Committed == IF saved = None THEN rows ELSE saved
Upon(a, t, r, c) == {b \in OfCell(r, c) : About[b].type = t /\ About[b].original = a}

(* An agent that holds the ops of an address answers about it as the       *)
(* author's own storage does, once the ops are delivered: the activity of  *)
(* the agent, who made, updated and deleted an entry, what became of a     *)
(* record, and which links a base has.  Between calls, queue and store are *)
(* in step: nothing of a failed call is queued, republishing adds nothing. *)
(* The host functions look an original up by its hash alone, so that the   *)
(* call of one cell may refer to an action of another: of what became of a *)
(* record its own cell's part is meant, and a link may have been taken     *)
(* away by a DeleteLink that another cell's agents hold.                   *)
AuthorityAgrees ==
  call = Idle =>
    \A c \in Cells :
      /\ At(Author, "RegisterAgentActivity", c) = OfCell(rows, c)
      /\ \A a \in OfCell(rows, c) :
           /\ At(a, "StoreRecord", c) = {a}
           /\ At(a, "RegisterUpdatedRecord", c) = Upon(a, "Update", rows, c)
           /\ At(a, "RegisterDeletedBy", c) = Upon(a, "Delete", rows, c)
      /\ \A e \in DOMAIN rows.entry :
           getEntryDetails(rows, e, c) =
             [actions |-> At(e, "StoreEntry", c), updates |-> At(e, "RegisterUpdatedContent", c),
              deletes |-> At(e, "RegisterDeletedEntryAction", c)]
      /\ \A b \in Entries \cup Acts :
           getLinks(rows, b, c) =
             {l \in At(b, "RegisterAddLink", c) :
                \A d \in Cells : \A x \in At(b, "RegisterRemoveLink", d) : About[x].original # l}

(* No op of a call is queued unless the integrity zome that defines its    *)
(* entry or link found the op valid, and every zome the agent's activity   *)
(* and what has no zome, such as the deletion of an agent's key.           *)
(* Updates, and what is done to them, are recorded under another zome than *)
(* their original's when a coordinator writes them: see UpdateKeepsType.   *)
Faithful(a) ==
  LET b == IF About[a].type \in {"Delete", "DeleteLink"} THEN About[a].original ELSE a
  IN b \in DOMAIN rows.act /\ rows.act[b].zome = About[b].zome

OpsValidated ==
  \A q \in queued :
    (\A c \in Cells : q.act \notin Range(Genesis[c])) /\ Faithful(q.act) =>
      \A z \in (IF q.type = "RegisterAgentActivity" \/ DefinedIn(q.act) = None
                THEN Zomes ELSE {DefinedIn(q.act)}) \ NoWasm :
        [act |-> q.act, op |-> Variant(q.type), zome |-> z] \in checked

(* update.ts: "Get entry type from original action to maintain             *)
(* consistency".  The update is recorded in the zome of its original.      *)
UpdateKeepsType ==
  \A a \in DOMAIN Committed.act : About[a].type = "Update" => Committed.act[a].zome = About[a].zome

(* A device that lost its store gets the chain back from what was queued,  *)
(* also when a first attempt missed a record, or met a bad signature: the  *)
(* same rows, entries and head, from which the chain is continued, and the *)
(* same ops, where the row is whole, when they are published again.        *)
RecoveryRestores ==
  call = Idle =>
    \A c \in Cells : \A a \in getAgentActivitySync(c), gap \in BOOLEAN :
      LET first == storeRecoveredRecords(NoRows, c, recoverChainFromDHT(c, IF gap THEN {a} ELSE {}),
                                         IF gap THEN {} ELSE {a})
          again == storeRecoveredRecords(first, c, recoverChainFromDHT(c, {}), {})
      IN /\ again.act = Restrict(rows.act, OfCell(rows, c)) /\ again.head[c] = rows.head[c]
         /\ \A b \in OfCell(rows, c) : Whole(b) => OpsOf({b}, again) = OpsOf({b}, rows)

(***************************************************************************)
(* The invariant behind AuthorityAgrees, OpsValidated and RecoveryRestores *)
(***************************************************************************)
AuthorTypeOK ==
  /\ RowsInv(rows) /\ (saved # None => RowsInv(saved))
  /\ call \in [cell : Cells, zome : Zomes \cup {None}, at : {"running", "validating"}] \cup {Idle}
  /\ records \in Seq(Acts) /\ valid \in 0..Len(records)

(* A call has a transaction, in which its records were added to the rows.  *)
CallAdds ==
  /\ call = Idle <=> saved = None
  /\ call = Idle => records = <<>>
  /\ call.at = "running" => valid = 0
  /\ saved # None =>
       /\ rows.head[call.cell] # None
       /\ DOMAIN rows.act = DOMAIN saved.act \cup Range(records)
       /\ \A a \in DOMAIN saved.act : a \notin Range(records) /\ rows.act[a] = saved.act[a]

QueuedInStep == queued = OpsOf(DOMAIN Committed.act, Committed)

Validated(a) ==
  Faithful(a) =>
    \A t \in OpTypes(a) :
      \A z \in (IF t = "RegisterAgentActivity" \/ DefinedIn(a) = None THEN Zomes ELSE {DefinedIn(a)}) \ NoWasm :
        [act |-> a, op |-> Variant(t), zome |-> z] \in checked

Founding == UNION {Range(Genesis[c]) : c \in Cells}
AllValidated ==
  /\ \A a \in DOMAIN Committed.act \ Founding : Validated(a)
  /\ \A i \in 1..valid : Validated(records[i])

AuthorInv == AuthorTypeOK /\ CallAdds /\ QueuedInStep /\ AllValidated
=============================================================================
