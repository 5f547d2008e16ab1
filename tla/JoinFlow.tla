------------------------------- MODULE JoinFlow -------------------------------
(***************************************************************************)
(* WebConductorAppClient.connect(): from the extension's approval over the *)
(* joining service, with its challenges, to an installed hApp with a       *)
(* linker, for a new agent, one that has joined, and one that has the hApp *)
(* already; the retry of connectWithJoiningUI and the later rejoin().  The *)
(* joining service is external: whatever it may answer it answers.         *)
(***************************************************************************)
EXTENDS Naturals, Sequences, FiniteSets

CONSTANTS Order,       \* the session's challenges, in the order they are listed
          Auto,        \* those signed by the extension (agent_allow_list)
          GroupOf,     \* the OR group of a challenge, or NoGroup
          NoGroup,
          MaxRuns      \* bound: calls of connect() and rejoin()

Challenges == {Order[i] : i \in DOMAIN Order}

VARIABLES options,    \* joining service, linkerUrl and onChallenge in the config
          installed,  \* the background has a context with cells for the origin
          before,     \* ... and had it when this connect() began
          admitted,   \* the service has let the agent in
          session,    \* the session's status as the client last saw it
          completed,  \* challenges of the session that are completed
          answered,   \* history: those whose answer by this client verify() took
          satisfied,  \* satisfiedGroups
          skipped,    \* challenges whose signing failed in this pass
          asked,      \* the challenge being answered
          linker,     \* where the configured linker address came from
          troubled,   \* joiningServiceError is set
          runs, at    \* calls so far, and the step the current one is at

joining == <<session, completed, answered, satisfied, skipped, asked>>
vars == <<options, installed, before, admitted, joining, linker, troubled, runs, at>>


Init ==
    /\ options \in [joining : BOOLEAN, url : BOOLEAN, ask : BOOLEAN]
    /\ installed \in BOOLEAN /\ before = installed /\ admitted \in BOOLEAN
    /\ session = "none" /\ completed = {} /\ answered = {} /\ satisfied = {} /\ skipped = {} /\ asked = NoGroup
    /\ linker = "none" /\ troubled = FALSE /\ runs = 1 /\ at = "extension"

Goto(step) == at' = step

(* An error ends connect(); it leaves a client that rejoins as it was. *)
Rejoining == at \in {"rejoin", "rejoining", "reagain", "reprovision"}
Outcome(step) == IF step = "failed" /\ Rejoining THEN "connected" ELSE step
Fail == Goto(Outcome("failed"))

(* A session seen for the first time, or none.  The service may have completed
   challenges by itself, from the claims it was given. *)
Session(status) ==
    /\ session' = status
    /\ completed' \in SUBSET Challenges
    /\ status # "pending" => completed' = {}
    /\ answered' = {} /\ satisfied' = {} /\ skipped' = {} /\ asked' = NoGroup

(* agent_already_joined, from whichever request of the session. *)
AlreadyJoined == Goto(IF Rejoining THEN "reagain" ELSE "again") /\ admitted' = TRUE

(* holochain.connect(): approved, or refused (and then retried by the user). *)
Approve ==
    /\ at = "extension"
    /\ \E step \in {"info", "refused"} : Goto(step)
    /\ UNCHANGED <<options, installed, before, admitted, joining, linker, troubled, runs>>

(* appInfo() and setupFromAppInfo, inside a try: whatever fails here counts as
   not installed. *)
Info ==
    /\ at = "info"
    /\ \/ installed /\ Goto("relink")
       \/ Goto(IF options.joining THEN "join" ELSE "direct")
    /\ UNCHANGED <<options, installed, before, admitted, joining, linker, troubled, runs>>

------------------------------------------------------------------------------
(* configureLinkerFromJoiningServiceOrConfig, still inside that try. *)

(* The service is asked for fresh addresses; what fails there is noted and the
   address of the configuration is next. *)
Relink ==
    /\ at = "relink"
    /\ \/ /\ options.joining /\ admitted
          /\ \E given \in {"provided", linker} : linker' = given
          /\ Goto("connected") /\ UNCHANGED troubled
       \/ /\ options.joining
          /\ troubled' = TRUE /\ Goto("fallback") /\ UNCHANGED linker
       \/ /\ ~options.joining
          /\ Goto("fallback") /\ UNCHANGED <<troubled, linker>>
    /\ UNCHANGED <<options, installed, before, admitted, joining, runs>>

(* Without an address the client goes on as it is.  With one, configureNetwork
   may throw, past the catch of the service's errors into initialize's. *)
Fallback ==
    /\ at = "fallback"
    /\ \/ ~options.url /\ Goto("connected") /\ UNCHANGED linker
       \/ options.url /\ linker' = "config" /\ Goto("connected")
       \/ options.url /\ UNCHANGED linker /\ Goto(IF options.joining THEN "join" ELSE "direct")
    /\ UNCHANGED <<options, installed, before, admitted, joining, troubled, runs>>

------------------------------------------------------------------------------
(* joinAndConfigure. *)

(* join(): a session, or agent_already_joined, or another error. *)
Join ==
    /\ at \in {"join", "rejoin"}
    /\ \/ /\ ~admitted
          /\ \E status \in {"pending", "ready", "rejected"} :
               /\ Session(status)
               /\ admitted' = (status = "ready")
          /\ Goto(IF at = "join" THEN "joining" ELSE "rejoining")
       \/ admitted /\ Goto(IF at = "join" THEN "again" ELSE "reagain") /\ UNCHANGED <<joining, admitted>>
       \/ Fail /\ UNCHANGED <<joining, admitted>>
    /\ UNCHANGED <<options, installed, before, linker, troubled, runs>>

InSession == at \in {"joining", "rejoining"} /\ session = "pending" /\ asked = NoGroup

(* The first challenge of the list that is neither completed, nor of a group
   one of which has been answered, nor impossible to sign. *)
Open(c) == c \notin completed \cup skipped /\ GroupOf[c] \notin satisfied
First(c) == \E i \in DOMAIN Order : Order[i] = c /\ Open(c) /\ \A j \in 1..(i - 1) : ~Open(Order[j])

(* The extension signs, or fails and the challenge is passed over; any other
   challenge needs the callback. *)
Challenge(c) ==
    /\ InSession /\ First(c)
    /\ \/ c \in Auto /\ asked' = c /\ UNCHANGED <<skipped, at>>
       \/ c \in Auto /\ skipped' = skipped \cup {c} /\ UNCHANGED <<asked, at>>
       \/ c \notin Auto /\ options.ask /\ asked' = c /\ UNCHANGED <<skipped, at>>
       \/ c \notin Auto /\ ~options.ask /\ Fail /\ UNCHANGED <<skipped, asked>>
    /\ UNCHANGED <<options, installed, before, admitted, session, completed, answered, satisfied, linker, troubled, runs>>

(* What the service may say of a session once it has looked at it: it may have
   completed any challenges meanwhile. *)
Verdict ==
    /\ \E status \in {"pending", "ready", "rejected"} :
         session' = status /\ admitted' = (admitted \/ status = "ready")
    /\ \E more \in SUBSET Challenges : completed' = completed \cup more

(* Mutant of Verify: the group is not noted. *)
VerifyUngrouped ==
    /\ asked # NoGroup
    /\ asked' = NoGroup
    /\ answered' = answered \cup {asked} /\ skipped' = {}
    /\ Verdict
    /\ UNCHANGED <<satisfied, options, installed, before, linker, troubled, runs, at>>

(* verify(): the answer is taken, its group satisfied, and the list gone
   through from the start; or it throws. *)
Verify ==
    /\ asked # NoGroup
    /\ asked' = NoGroup
    /\ \/ /\ answered' = answered \cup {asked}
          /\ satisfied' = satisfied \cup ({GroupOf[asked]} \ {NoGroup})
          /\ skipped' = {}
          /\ Verdict
          /\ UNCHANGED at
       \/ AlreadyJoined /\ UNCHANGED <<session, completed, answered, satisfied, skipped>>
       \/ Fail /\ UNCHANGED <<admitted, session, completed, answered, satisfied, skipped>>
    /\ UNCHANGED <<options, installed, before, linker, troubled, runs>>

(* No challenge to act on: pollStatus() after a while, which may throw. *)
Poll ==
    /\ InSession /\ \A c \in Challenges : ~Open(c)
    /\ skipped' = {}
    /\ \/ Verdict /\ UNCHANGED at
       \/ AlreadyJoined /\ UNCHANGED <<session, completed>>
       \/ Fail /\ UNCHANGED <<admitted, session, completed>>
    /\ UNCHANGED <<options, installed, before, answered, satisfied, asked, linker, troubled, runs>>

(* Mutant of Decided: whatever ends the polling counts as ready. *)
DecidedEither ==
    /\ at \in {"joining", "rejoining"} /\ session \in {"ready", "rejected"}
    /\ Goto(IF at = "joining" THEN "provision" ELSE "reprovision")
    /\ UNCHANGED <<options, installed, before, admitted, joining, linker, troubled, runs>>

(* The session is decided: getProvision() of one that is ready, or an error. *)
Decided ==
    /\ at \in {"joining", "rejoining"}
    /\ \/ session = "rejected" /\ Fail /\ UNCHANGED admitted
       \/ /\ session = "ready"
          /\ Goto(IF at = "joining" THEN "provision" ELSE "reprovision") /\ UNCHANGED admitted
       \/ session = "ready" /\ AlreadyJoined
    /\ UNCHANGED <<options, installed, before, joining, linker, troubled, runs>>

(* reconnectViaJoiningService, for an agent that has joined before. *)
Again ==
    /\ at \in {"again", "reagain"}
    /\ \/ Goto(IF at = "again" THEN "provision" ELSE "reprovision")
       \/ Fail
    /\ UNCHANGED <<options, installed, before, admitted, joining, linker, troubled, runs>>

(* The linker of the provision, or else of the configuration. *)
Provision ==
    /\ at \in {"provision", "reprovision"}
    /\ \/ /\ \E from \in {"provided", IF options.url THEN "config" ELSE linker} : linker' = from
          /\ IF at = "provision"
             THEN Goto("bundle") /\ UNCHANGED troubled
             ELSE Goto("connected") /\ troubled' = FALSE
       \/ Fail /\ UNCHANGED <<linker, troubled>>
    /\ UNCHANGED <<options, installed, before, admitted, joining, runs>>

------------------------------------------------------------------------------
(* Without a joining service: the linker of the configuration. *)
Direct ==
    /\ at = "direct"
    /\ \/ Goto("bundle") /\ linker' = IF options.url THEN "config" ELSE linker
       \/ options.url /\ Goto("failed") /\ UNCHANGED linker
    /\ UNCHANGED <<options, installed, before, admitted, joining, troubled, runs>>

(* fetchHappBundle: the first path that yields a gzip file, or an error. *)
FetchBundle ==
    /\ at = "bundle"
    /\ \E step \in {"install", "failed"} : Goto(step)
    /\ UNCHANGED <<options, installed, before, admitted, joining, linker, troubled, runs>>

(* installApp: the background refuses a second context for the domain. *)
Install ==
    /\ at = "install"
    /\ \/ ~installed /\ installed' = TRUE /\ Goto("setup")
       \/ Goto("failed") /\ UNCHANGED installed
    /\ UNCHANGED <<options, before, admitted, joining, linker, troubled, runs>>

(* appInfo() once more, and setupFromAppInfo. *)
Setup ==
    /\ at = "setup"
    /\ \E step \in {"connected", "failed"} : Goto(step)
    /\ UNCHANGED <<options, installed, before, admitted, joining, linker, troubled, runs>>

(* The user clicks Retry, with the extension approved; or an application whose
   client is connected rejoins. *)
Retry ==
    /\ at \in {"failed", "refused", "connected"} /\ runs < MaxRuns
    /\ runs' = runs + 1
    /\ before' = installed /\ Session("none")
    /\ Goto(CASE at = "failed" -> "info" [] at = "refused" -> "extension"
              [] OTHER -> "rejoin")
    /\ at = "connected" => options.joining
    /\ UNCHANGED <<options, installed, admitted, linker, troubled>>

(* Meanwhile the service loses its sessions, or an administrator revokes. *)
Forget ==
    /\ admitted
    /\ at \in {"connected", "failed"}
    /\ admitted' = FALSE
    /\ UNCHANGED <<options, installed, before, joining, linker, troubled, runs, at>>

Next ==
    \/ Approve \/ Info \/ Relink \/ Fallback \/ Join \/ (\E c \in Challenges : Challenge(c))
    \/ Verify \/ Poll \/ Decided \/ Again \/ Provision \/ Direct \/ FetchBundle \/ Install
    \/ Setup \/ Retry \/ Forget

Spec == Init /\ [][Next]_vars

------------------------------------------------------------------------------
(* joinAndConfigure goes through the list from the start after every answer
   (WebConductorAppClient.ts:353, 372): over skipped challenges, polls and new
   lists, the client never answers a second challenge of one group. *)
OneWayAGroup ==
    asked # NoGroup => \A c \in answered : GroupOf[c] = NoGroup \/ GroupOf[c] # GroupOf[asked]

(* "Skip challenges whose OR group is already satisfied"
   (WebConductorAppClient.ts:343), though a challenge of it may have been
   completed by the service. *)
AskedOnlyIfNeeded ==
    asked # NoGroup => \A c \in completed : GroupOf[c] = NoGroup \/ GroupOf[c] # GroupOf[asked]

(* With a joining service a hApp is only installed for an agent the service
   has let in, whatever it answered before and however often connect() ran. *)
AdmittedBeforeInstall ==
    [][options.joining /\ ~installed /\ installed' => admitted]_vars

(* Where the hApp is installed, connect() does not fail for want of a linker:
   the user can still access local data (WebConductorAppClient.ts:213-215). *)
InstalledOpens == before => at # "failed"
==============================================================================
