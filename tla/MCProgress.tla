----------------------------- MODULE MCProgress -----------------------------
(***************************************************************************)
(* Small instances of three modules whose progress matters.  They share no *)
(* state, so a behaviour is one of a single part, chosen at the start:     *)
(* "calls" of SourceChain, "queue" and "button" of PublishQueue, "loss"    *)
(* (that of the configuration: connections come and go), "auth" (a linker  *)
(* that challenges) and "user" (losses among requests of the user) of      *)
(* LinkerSocket.  The others stay as they start.                           *)
(***************************************************************************)
EXTENDS LinkerSocket, TLC

CONSTANTS Parts, agent1, agent2,
          cell, t1, t2, Past, NoHash, NoHead, NoCall,
          o1, o2, dna, call, button, online

VARIABLES part,
          db, saved, inTx, pc, signed, gen, pend, waiting, running, handed, killed,
          rows, job, busy, run, accepted, reached, attempts, crashes, faults

socket == <<client, signing, sock, up, down, sess, losses, user, upset>>
chain == <<db, saved, inTx, pc, signed, gen, pend, waiting, running, handed, killed>>
queue == <<rows, job, busy, run, accepted, reached, attempts, crashes, faults>>

OneCell == [t \in {t1, t2} |-> cell]
OneDna == [o \in {o1, o2} |-> dna]
CallButtonOnline == (call :> "record") @@ (button :> "retry") @@ (online :> "reconnect")
OpsOfCall(ops) == (call :> ops) @@ (button :> {}) @@ (online :> {})
TwoOps == OpsOfCall({o1, o2})
OneOp == OpsOfCall({o1})

(* Two calls on one cell, and two crashes.                                 *)
C == INSTANCE SourceChain WITH
       Cells <- {cell}, Calls <- {t1, t2}, Geneses <- {}, CellOf <- OneCell,
       RecoverCells <- {}, RepublishCells <- {}, MaxWrites <- 2, MaxPosts <- 2, MaxPast <- 0,
       MaxCrashes <- 2, crashes <- killed

(* A call of two ops, the retry button and reconnects; a call of one op.   *)
Q == INSTANCE PublishQueue WITH
       Ops <- {o1, o2}, Dnas <- {dna}, DnaOf <- OneDna, DnaOrder <- <<dna>>,
       Jobs <- {call, button, online}, KindOf <- CallButtonOnline, OpsOf <- TwoOps,
       Invocations <- {1}, MaxRetries <- 1, MaxCrashes <- 0, MaxFaults <- 0
B == INSTANCE PublishQueue WITH
       Ops <- {o1, o2}, Dnas <- {dna}, DnaOf <- OneDna, DnaOrder <- <<dna>>,
       Jobs <- {call, button, online}, KindOf <- CallButtonOnline, OpsOf <- OneOp,
       Invocations <- {1}, MaxRetries <- 1, MaxCrashes <- 0, MaxFaults <- 0

(* A linker that refuses agent2, a Lair that may refuse to sign; one that  *)
(* challenges nobody, with losses and requests of the user together.       *)
A == INSTANCE LinkerSocket WITH
       Allowed <- {agent1}, AuthRequired <- TRUE, MaxLosses <- 0,
       UserOps <- {"disconnect", "reconnect", "reauth"}, SignFails <- TRUE
U == INSTANCE LinkerSocket WITH
       AuthRequired <- FALSE, MaxLosses <- 2, UserOps <- {"disconnect", "reconnect", "reauth"}

MCInit == part \in Parts /\ Init /\ C!Init /\ IF part = "button" THEN B!Init ELSE Q!Init

MCNext ==
  /\ UNCHANGED part
  /\ \/ part = "calls" /\ C!Next /\ UNCHANGED <<socket, queue>>
     \/ part = "queue" /\ Q!Next /\ job'[button] = job[button] /\ UNCHANGED <<socket, chain>>
     \/ part = "button" /\ B!Next /\ UNCHANGED <<socket, chain>>
     \/ part = "loss" /\ Next /\ UNCHANGED <<chain, queue>>
     \/ part = "auth" /\ A!Next /\ UNCHANGED <<chain, queue>>
     \/ part = "user" /\ U!Next /\ UNCHANGED <<chain, queue>>

MCSpec == MCInit /\ [][MCNext]_<<part, socket, chain, queue>>

(* What modules SourceChain and PublishQueue say, of their parts; each     *)
(* part's progress is stated under the fairness of its module.             *)

(* Every queued call ends, whatever earlier calls did.                     *)
CallsEnd == part = "calls" /\ C!Fairness => C!CallsEnd
(* Every op that was queued is in the end stored by the linker in a request*)
(* that reached a peer, and the loop of processQueue ends again and again. *)
QueueServed ==
  /\ part = "queue" /\ Q!Fairness /\ Q!Reconnecting => Q!EventuallyAccepted /\ Q!ProcessingEnds
  /\ part = "button" /\ B!Fairness /\ B!Reconnecting => B!EventuallyAccepted
(* A tracked agent gets registered with the linker in the end.             *)
RegisteredInTheEnd == part = "loss" /\ Fairness => EventuallyRegistered
(* One that lost its session gets registered again.                        *)
ResentInTheEnd == part = "loss" /\ Fairness => ResentAfterLoss
=============================================================================
