------------------------------ MODULE ChainOps ------------------------------
(***************************************************************************)
(* The DHT ops of an action: which there are, at which address each is     *)
(* kept, and which of them the app validates in which integrity zome.  An  *)
(* op is abstracted to its type and action; the signature and the wire     *)
(* formats carry no decision.                                              *)
(***************************************************************************)
EXTENDS ChainActions

CONSTANTS Author,   \* of every action: the agent
          NoWasm    \* integrity zomes of which there is no WASM

(* actionToOpTypes *)
OpTypes(a) ==
  {"StoreRecord", "RegisterAgentActivity"} \cup
  CASE About[a].type = "Create" -> {"StoreEntry"}
    [] About[a].type = "Update" -> {"StoreEntry", "RegisterUpdatedContent", "RegisterUpdatedRecord"}
    [] About[a].type = "Delete" -> {"RegisterDeletedBy", "RegisterDeletedEntryAction"}
    [] About[a].type = "CreateLink" -> {"RegisterAddLink"}
    [] About[a].type = "DeleteLink" -> {"RegisterRemoveLink"}
    [] OTHER -> {}

(* computeOpBasis: the address whose neighbours keep the op.               *)
(* bug: a deleted entry is registered at the action *)
BasisAtAction(t, a) ==
  CASE t = "StoreRecord" -> a
    [] t = "StoreEntry" -> About[a].entry
    [] t = "RegisterAgentActivity" -> Author
    [] t = "RegisterUpdatedContent" -> OriginalEntry(a)
    [] t \in {"RegisterUpdatedRecord", "RegisterDeletedBy", "RegisterDeletedEntryAction"} -> About[a].original
    [] t \in {"RegisterAddLink", "RegisterRemoveLink"} -> Base(a)

Basis(t, a) ==
  CASE t = "StoreRecord" -> a
    [] t = "StoreEntry" -> About[a].entry
    [] t = "RegisterAgentActivity" -> Author
    [] t = "RegisterUpdatedContent" -> OriginalEntry(a)
    [] t = "RegisterDeletedEntryAction" -> OriginalEntry(a)
    [] t \in {"RegisterUpdatedRecord", "RegisterDeletedBy"} -> About[a].original
    [] t \in {"RegisterAddLink", "RegisterRemoveLink"} -> Base(a)

(* A record carries its entry if that is stored.                           *)
buildRecord(a, entries) == [act |-> a, present |-> isEntryAction(a) /\ About[a].entry \in entries]

(* produceOpsFromRecord: without the entry there is no StoreEntry.  As     *)
(* queued, with the basis.                                                 *)
produceOps(record) ==
  {[type |-> t, act |-> record.act, basis |-> Basis(t, record.act)] :
     t \in {u \in OpTypes(record.act) : u = "StoreEntry" => record.present}}

(***************************************************************************)
(* Validation.  The ops of the app are coarser: two op types of an update  *)
(* or of a delete are one.                                                 *)
(***************************************************************************)
Variant(t) ==
  CASE t \in {"RegisterUpdatedContent", "RegisterUpdatedRecord"} -> "RegisterUpdate"
    [] t \in {"RegisterDeletedBy", "RegisterDeletedEntryAction"} -> "RegisterDelete"
    [] t = "RegisterAddLink" -> "RegisterCreateLink"
    [] t = "RegisterRemoveLink" -> "RegisterDeleteLink"
    [] OTHER -> t

(* buildOpFromRecord; resolved: the actions the CreateLink resolver finds. *)
(* bug: only a Create has a StoreEntry *)
BuildableForCreate(t, record, resolved) ==
  CASE t = "StoreEntry" -> record.present /\ About[record.act].type = "Create"
    [] t = "RegisterRemoveLink" -> About[record.act].original \in resolved
    [] OTHER -> TRUE

Buildable(t, record, resolved) ==
  CASE t = "StoreEntry" -> record.present
    [] t = "RegisterRemoveLink" -> About[record.act].original \in resolved
    [] OTHER -> TRUE

(* getZomesToInvoke: the zome of the entry or link type, which for an      *)
(* action that takes something back is that of the stored original; all of *)
(* them for the agent's activity and where there is no zome.  recorded:    *)
(* the actions in storage with the zome they were stored with.             *)
ZomeIn(recorded, a) == IF a \in DOMAIN recorded THEN recorded[a].zome ELSE None

ZomeOf(v, a, recorded) ==
  IF v = "RegisterAgentActivity" THEN None
  ELSE ZomeIn(recorded, IF About[a].type \in {"Delete", "DeleteLink"} THEN About[a].original ELSE a)

Invoked(v, a, recorded) ==
  LET z == ZomeOf(v, a, recorded) IN (IF z \in Zomes THEN {z} ELSE Zomes) \ NoWasm

(* invokeInlineValidation of one record: the calls of the validate export. *)
Checks(record, recorded) ==
  LET a == record.act
      ops == {Variant(t) : t \in {u \in OpTypes(a) : Buildable(u, record, DOMAIN recorded)}}
  IN UNION {{[act |-> a, op |-> v, zome |-> z] : z \in Invoked(v, a, recorded)} : v \in ops}
=============================================================================
