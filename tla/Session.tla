------------------------------- MODULE Session -------------------------------
(***************************************************************************)
(* A page's way in: how the extension lets it in (SiteAccess) and how its  *)
(* client joins and installs (JoinFlow).  The two share no state, so a     *)
(* behaviour is one of a single part, chosen at the start: "access", with  *)
(* the tabs of origins the user is asked about, "local", with those of     *)
(* origins that are approved unasked, or "join".  The other module stays   *)
(* in an initial state in which nothing is due.                            *)
(***************************************************************************)
EXTENDS Naturals, Sequences, FiniteSets

CONSTANTS Parts,                                    \* the parts to explore
          Pages, Origins, OriginOf, Local, MaxConnects, MaxRetries, MaxRestarts,
          Order, Signed, GroupOf, NoGroup, MaxRuns

VARIABLES part,
          promise, call, tries, pending, callbacks, perm, popup, revoking, restarted,
          options, installed, before, admitted, session, completed, answered, satisfied,
          skipped, asked, linker, troubled, runs, at

access == <<promise, call, tries, pending, callbacks, perm, popup, revoking, restarted>>
join == <<options, installed, before, admitted, session, completed, answered, satisfied,
          skipped, asked, linker, troubled, runs, at>>

A == INSTANCE SiteAccess WITH restarts <- restarted
J == INSTANCE JoinFlow WITH Auto <- Signed

SessionInit ==
    /\ part \in Parts
    /\ A!Init
    /\ J!Init
    /\ part # "join" => /\ ~installed /\ ~admitted
                        /\ options = [joining |-> FALSE, url |-> FALSE, ask |-> FALSE]

(* Only the tabs of the part ask to connect. *)
OfPart == \A c \in A!Calls : promise[c] = "none" /\ promise'[c] # "none" =>
            (A!Site(c) \in Local) = (part = "local")

SessionNext ==
    /\ UNCHANGED part
    /\ \/ part # "join" /\ A!Next /\ OfPart /\ UNCHANGED join
       \/ part = "join" /\ J!Next /\ UNCHANGED access

(* The fairness of SiteAccess; in "join" nothing is enabled that it asks for. *)
SessionSpec == SessionInit /\ [][SessionNext]_<<part, access, join>> /\ A!Fairness

(* A denied origin does not get in by asking again (PermissionManager).    *)
DenialStands == A!DenialStands
(* Every message the content script sends is answered (handleConnect).     *)
CallsAnswered == A!CallsAnswered
(* No second challenge of a group is answered (joinAndConfigure).          *)
OneWayAGroup == J!OneWayAGroup
(* None of a group that is satisfied is asked for; see MCSession_joins.    *)
AskedOnlyIfNeeded == J!AskedOnlyIfNeeded
(* Only agents the joining service admitted install a hApp (connect).      *)
AdmittedBeforeInstall == J!AdmittedBeforeInstall
(* An installed hApp opens without its linker; see MCSession_joins.        *)
InstalledOpens == J!InstalledOpens
==============================================================================
