---------------------------- MODULE MC_Exclusion ----------------------------
(***************************************************************************)
(* What keeps the mutations of the server apart, for TLC: the locks of a   *)
(* process, and the lease of the mail queue between processes.  The two    *)
(* share no state, so a behaviour exercises one of them, chosen at the     *)
(* start, and the other one rests.                                         *)
(***************************************************************************)
EXTENDS RepositoryLocks, MailQueue, TLC

CONSTANTS p1, p2, p3, p4, f1, f2

VARIABLE component

\* The removal of a repository together with handlers that enter the gate first,
\* and the clean-up of a release, which stays outside.
GateFirstKinds == p1 :> "put" @@ p2 :> "generatePom" @@ p3 :> "removeRepository" @@ p4 :> "cleanUp"
GateFirstPaths == p1 :> f1 @@ p2 :> f1 @@ p3 :> f2 @@ p4 :> f2

\* One process that announces an audit entry, or two that share a queue.
OneOrTwo == {[processes |-> {m}, pending |-> 1, quota |-> 1, entries |-> 1] : m \in Mailers}
            \cup {[processes |-> Mailers, pending |-> 2, quota |-> 2, entries |-> 0]}

\* The processes that send mail are interchangeable.
Interchangeable == Permutations(Mailers)

ExclusionInit ==
    /\ component \in {"locks", "mail"}
    /\ Init /\ MailInit
    /\ component = "locks" => site.processes # Mailers

ExclusionNext ==
    /\ UNCHANGED component
    /\ \/ component = "locks" /\ Next /\ UNCHANGED mailVars
       \/ component = "mail" /\ MailNext /\ UNCHANGED vars

ExclusionSpec == ExclusionInit /\ [][ExclusionNext]_<<component, vars, mailVars>>
=============================================================================
