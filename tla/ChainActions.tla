---------------------------- MODULE ChainActions ----------------------------
(***************************************************************************)
(* The actions a source chain is made of, as the storage, the validation   *)
(* and the production of DHT ops look at them.  An action is abstracted to *)
(* what it refers to; its sequence number and, for an update, its zome are *)
(* known when it is written.                                               *)
(***************************************************************************)
EXTENDS Naturals, FiniteSets, Sequences, SequencesExt, FiniteSetsExt, Functions, TLC

CONSTANTS
  Cells,     \* pairs of a DNA and an agent
  Acts,      \* actions, by their hashes
  Entries,   \* entries, by their hashes
  About,     \* what an action says
  Genesis,   \* the actions that found the chain of a cell
  Zomes,     \* the integrity zomes of the DNA, by their index
  None

GenesisTypes == {"Dna", "AgentValidationPkg", "InitZomesComplete"}
AppTypes == {"Create", "Update", "Delete", "CreateLink", "DeleteLink"}

isEntryAction(a) == About[a].type \in {"Create", "Update"}

ASSUME ChainActionsAssumption ==
  /\ Zomes \subseteq Nat /\ 0 \in Zomes /\ None \notin Acts \cup Entries \cup Zomes
  /\ About \in [Acts -> [cell : Cells, type : GenesisTypes \cup AppTypes, entry : Entries \cup {None},
                         zome : Zomes \cup {None}, original : Acts \cup {None},
                         base : Entries \cup Acts \cup {None}]]
  /\ \A a \in Acts :
       /\ (About[a].entry # None) <=> isEntryAction(a)
       /\ (About[a].original # None) <=> About[a].type \in {"Update", "Delete", "DeleteLink"}
       /\ About[a].type \in {"Update", "Delete"} => isEntryAction(About[a].original)
       /\ About[a].type = "DeleteLink" => About[About[a].original].type = "CreateLink"
       /\ (About[a].base # None) <=> About[a].type = "CreateLink"
       /\ About[a].type = "Update" => About[a].zome = About[About[a].original].zome

(* initializeGenesis: some actions of the cell, none of them of the app.   *)
ASSUME GenesisAssumption ==
  \A c \in Cells :
    /\ Genesis[c] \in Seq(Acts) /\ Genesis[c] # <<>>
    /\ \A i, j \in DOMAIN Genesis[c] : Genesis[c][i] = Genesis[c][j] => i = j
    /\ \A i \in DOMAIN Genesis[c] :
         About[Genesis[c][i]].cell = c /\ About[Genesis[c][i]].type \in GenesisTypes \cup {"Create"}

(* The zome that the entry or the link an action is about was defined in.  *)
DefinedIn(a) == IF About[a].type \in {"Delete", "DeleteLink"} THEN About[About[a].original].zome ELSE About[a].zome

(* What the host functions copy from the action they refer to: the entry   *)
(* that is updated or deleted, the base of the link that is deleted.       *)
OriginalEntry(a) == About[About[a].original].entry
Base(a) == IF About[a].type = "CreateLink" THEN About[a].base ELSE About[About[a].original].base

(* What storage keeps of an action, besides what it says.                  *)
Row(n, z) == [seq |-> n, zome |-> z]

(* A key of a table or an object store gets a value; one table over        *)
(* another.                                                                *)
Upsert(f, k, v) == [x \in DOMAIN f \cup {k} |-> IF x = k THEN v ELSE f[x]]
Overlay(f, g) == [x \in DOMAIN f \cup DOMAIN g |-> IF x \in DOMAIN f THEN f[x] ELSE g[x]]

(* The tables, and what a store holds: rows of some of the actions.        *)
Tables(D, V) == UNION {[K -> V] : K \in SUBSET D}
Contents == [act : Tables(Acts, [seq : Nat, zome : Zomes \cup {None}]), entry : Tables(Entries, Cells),
             link : Tables(Acts, Acts \cup {None}), head : [Cells -> [seq : Nat, act : Acts] \cup {None}]]

ASSUME NoneAssumption ==
  None \notin Contents /\ None \notin [seq : Nat, act : Acts] /\ None \notin Cells

(* create, create_link: the zome is in the input.  update takes it from    *)
(* the zome that is running: a coordinator zome is none of the integrity   *)
(* zomes, and gets index 0.                                                *)
RecordedZome(a, running) ==
  IF About[a].type # "Update" THEN About[a].zome
  ELSE IF running \in Zomes THEN running ELSE 0
=============================================================================
