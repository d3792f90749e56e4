------------------------- MODULE MC_ClientIdentity -------------------------
(***************************************************************************)
(* Whose pages and whose names the web client shows, for TLC.  A behaviour *)
(* exercises the shell or the cache of profiles, chosen at the start.      *)
(***************************************************************************)
EXTENDS ClientShell, ProfileCache

CONSTANTS ann, bob

VARIABLE component

vars == <<component, shellVars, profileVars>>

\* One initial state of the shell is enough where it rests.
Init ==
    /\ component \in {"shell", "profiles"}
    /\ ShellInit /\ ProfileInit
    /\ component = "profiles" =>
          username = Nobody /\ path = "home" /\ selectedTab = "overview"

Next ==
    /\ UNCHANGED component
    /\ \/ component = "shell" /\ ShellNext /\ UNCHANGED profileVars
       \/ component = "profiles" /\ ProfileNext /\ UNCHANGED shellVars

Spec == Init /\ [][Next]_vars /\ ShellFairness

-----------------------------------------------------------------------------
(* Properties *)

\* Who is signed out sees no page of an account (auth.js, main.js); the cache of profiles is
\* never behind a change the page was told of, keeps its size, and the request that callers
\* share is under way (user-profiles.js).
IdentitySafe ==
    /\ ShellTypeOK /\ SignedOutSeesNothing
    /\ ProfileTypeOK /\ CacheNotBehind /\ CacheBounded /\ SharedIsLive

\* The navigation bar never changes to anyone but the account signed in, and a sign-out ends,
\* confirmed by the server or not (auth.js).
IdentityProgress == IdentityFollowsSession /\ LogoutEnds
=============================================================================
