---------------------------- MODULE ClientShell ----------------------------
(***************************************************************************)
(* The shell of the web client (js/main.js, js/auth.js, js/login-route.js, *)
(* js/protected-route.js and the authentication part of js/api.js): who is *)
(* signed in, which section is on show at which path, signing in and out,  *)
(* and the identity in the navigation bar.  Handlers run to their next     *)
(* await; the answers of requests come in any order.                       *)
(***************************************************************************)
EXTENDS Naturals

CONSTANTS
    People,         \* accounts
    Managers,       \* those with a manager permission
    Nobody,
    MaxAuthChanges, \* bound of the model on navProfileLoadSequence
    MaxCalls        \* bound of the model on API requests under way

\* Nobody is no account, and the bounds are counts that leave room for one sign-in.
ASSUME NobodyAssumption == Nobody \notin People
ASSUME AuthChangesAssumption == MaxAuthChanges \in Nat \ {0}
ASSUME CallsAssumption == MaxCalls \in Nat

ManagerTabs == {"dashboard", "storage"}   \* of MANAGER_TAB_IDS, one that is loaded with await
AccountTabs == {"tickets"}                \* of isAccountTab
Protected == ManagerTabs \union AccountTabs
Awaited == {"storage", "tickets"}         \* switchTab awaits their loaders

\* window.location.pathname; the path of a protected section has its name.
Paths == {"home", "login"} \union Protected
Tabs == {"overview", "login"} \union Protected

VARIABLES
    booted,         \* initializeSession has been answered
    auth,           \* the account behind cachedIsLoggedIn
    isManager,      \* cachedIsManager
    username,       \* localStorage username
    path,
    tab,            \* the section with the class active
    selectedTab,    \* localStorage selectedTab
    menu,           \* the selected item of the profile menu
    refreshing,     \* startDashboardRefresh
    pageLoads,      \* switchTab calls that await a loader
    navProfile,     \* the account shown in the navigation bar
    navProfileLoadSequence,
    profileLoads,   \* refreshNavProfile calls under way
    edits,          \* saves of the own profile under way
    logoutPromise,  \* a logout is under way
    passwordLogin,  \* the account of a login under way
    passkeyLogin,   \* the account of a fidoLogin under way
    calls           \* API requests under way

shellVars == <<booted, auth, isManager, username, path, tab, selectedTab, menu, refreshing,
               pageLoads, navProfile, navProfileLoadSequence, profileLoads, edits,
               logoutPromise, passwordLogin, passkeyLogin, calls>>
identityVars == <<auth, isManager, username, navProfile, navProfileLoadSequence, profileLoads>>
viewVars == <<path, tab, selectedTab, menu, refreshing, pageLoads>>

ShellTypeOK ==
    /\ booted \in BOOLEAN /\ isManager \in BOOLEAN /\ refreshing \in BOOLEAN
    /\ logoutPromise \in BOOLEAN
    /\ {auth, username, navProfile, passwordLogin, passkeyLogin} \subseteq People \union {Nobody}
    /\ path \in Paths
    /\ {tab, selectedTab, menu} \subseteq Tabs
    /\ pageLoads \subseteq Awaited
    /\ navProfileLoadSequence \in 0..MaxAuthChanges
    /\ profileLoads \subseteq [seq : 1..MaxAuthChanges, user : People]
    /\ edits \subseteq People
    /\ calls \in 0..MaxCalls

ShellInit ==
    /\ booted = FALSE
    /\ auth = Nobody /\ isManager = FALSE
    /\ username \in People \union {Nobody}
    /\ path \in Paths
    /\ tab = "overview"
    /\ selectedTab \in {"overview"} \union ManagerTabs
    /\ menu = "overview"
    /\ refreshing = FALSE
    /\ pageLoads = {}
    /\ navProfile = Nobody /\ navProfileLoadSequence = 0 /\ profileLoads = {}
    /\ edits = {}
    /\ logoutPromise = FALSE
    /\ passwordLogin = Nobody /\ passkeyLogin = Nobody
    /\ calls = 0

-----------------------------------------------------------------------------
(* switchTab                                                               *)

\* The sections of routes replace the overview.
Routed(p, t) == [path |-> p, tab |-> IF t = "overview" /\ p # "home" THEN p ELSE t]

\* Mutant of SwitchTab: the path is not looked at.
SwitchTabByName(p, t, a, m) ==
    LET wanted == IF p = "login" THEN "login" ELSE t IN
    IF a = Nobody /\ wanted \in Protected
    THEN [path |-> "login", tab |-> "login"]
    ELSE IF wanted \in ManagerTabs /\ ~m
    THEN IF p \in ManagerTabs THEN [path |-> "home", tab |-> "overview"] ELSE Routed(p, "overview")
    ELSE Routed(p, wanted)

\* The section switchTab(t) shows at path p: sign-in for protected sections nobody
\* is signed in for, the overview for manager sections of others (navigateToLogin
\* and navigateHome replace the path and come back here).
SwitchTab(p, t, a, m) ==
    LET wanted == IF p = "login" THEN "login" ELSE t IN
    IF a = Nobody /\ (wanted \in Protected \/ p \in Protected)
    THEN [path |-> "login", tab |-> "login"]
    ELSE IF wanted \in ManagerTabs /\ ~m
    THEN IF p \in ManagerTabs THEN [path |-> "home", tab |-> "overview"] ELSE Routed(p, "overview")
    ELSE Routed(p, wanted)

\* The section is drawn and its refresh timer, saved name and loader follow; the
\* profile menu is marked when the loader is done.
Display(v, saved) ==
    /\ path' = v.path
    /\ tab' = v.tab
    /\ selectedTab' = IF v.tab \in {"overview"} \union ManagerTabs THEN v.tab ELSE saved
    /\ refreshing' = (v.tab = "dashboard")
    /\ IF v.tab \in Awaited THEN pageLoads' = pageLoads \union {v.tab} /\ UNCHANGED menu
       ELSE menu' = v.tab /\ UNCHANGED pageLoads

\* popstate at path p: the section of its route; on the home path the one that the
\* entry of the history recorded.
PopTabs(p) == IF p = "home" THEN {"overview"} \union ManagerTabs ELSE {p}

\* cancelFidoLogin
CancelPasskey == passkeyLogin' = Nobody

\* A click on a tab: no popstate.
ClickTab(t) ==
    /\ booted
    /\ t \in {"overview"} \union (IF isManager THEN ManagerTabs ELSE {}) /\ t # tab
    /\ LET p == IF t \in ManagerTabs THEN t ELSE "home" IN
       Display(SwitchTab(p, t, auth, isManager), selectedTab)
    /\ UNCHANGED <<booted, identityVars, edits, logoutPromise, passwordLogin, passkeyLogin, calls>>

\* Back, forward, a link inside the page or the sign-in button.
Navigate(p) ==
    /\ \E t \in PopTabs(p) : Display(SwitchTab(p, t, auth, isManager), selectedTab)
    /\ CancelPasskey
    /\ UNCHANGED <<booted, identityVars, edits, logoutPromise, passwordLogin, calls>>

\* languageChanged shows the current section again.
ChangeLanguage ==
    /\ LET t == IF path = "home" THEN selectedTab ELSE IF path = "login" THEN "overview" ELSE path
       IN Display(SwitchTab(path, t, auth, isManager), selectedTab)
    /\ UNCHANGED <<booted, identityVars, edits, logoutPromise, passwordLogin, passkeyLogin, calls>>

-----------------------------------------------------------------------------
(* updateAuthUI and the identity in the navigation bar                     *)

\* With seq the number of the last load: signing in loads the profile, and without
\* a session the bar is emptied.
Identity(a, seq) ==
    /\ auth' = a
    /\ navProfileLoadSequence' = IF a = Nobody THEN seq ELSE seq + 1
    /\ profileLoads' = IF a = Nobody THEN profileLoads
                       ELSE profileLoads \union {[seq |-> seq + 1, user |-> a]}
    /\ navProfile' = IF a = Nobody THEN Nobody ELSE navProfile

\* refreshNavProfile: the profile arrives, or an error does, which changes nothing.
ProfileArrives(l) ==
    /\ l \in profileLoads
    /\ profileLoads' = profileLoads \ {l}
    /\ IF l.seq = navProfileLoadSequence
       THEN navProfile' \in {l.user, navProfile}
       ELSE UNCHANGED navProfile
    /\ UNCHANGED <<booted, auth, isManager, username, navProfileLoadSequence, viewVars, edits,
                   logoutPromise, passwordLogin, passkeyLogin, calls>>

\* A profile page saves the own profile.
SaveProfile ==
    /\ auth # Nobody
    /\ edits' = edits \union {auth}
    /\ UNCHANGED <<booted, identityVars, viewVars, logoutPromise, passwordLogin, passkeyLogin, calls>>

\* userProfileChanged: the answer to the save is shown.
ProfileChanged(u) ==
    /\ u \in edits
    /\ edits' = edits \ {u}
    /\ IF username = u /\ navProfileLoadSequence < MaxAuthChanges
       THEN navProfileLoadSequence' = navProfileLoadSequence + 1 /\ navProfile' = u
       ELSE UNCHANGED <<navProfileLoadSequence, navProfile>>
    /\ UNCHANGED <<booted, auth, isManager, username, profileLoads, viewVars, logoutPromise,
                   passwordLogin, passkeyLogin, calls>>

\* userProfilesInvalidated: a save that only drops what was known has the profile loaded again.
ProfileInvalidated(u) ==
    /\ u \in edits
    /\ edits' = edits \ {u}
    /\ IF username = u /\ navProfileLoadSequence < MaxAuthChanges
       THEN /\ navProfileLoadSequence' = navProfileLoadSequence + 1
            /\ profileLoads' = profileLoads \union {[seq |-> navProfileLoadSequence', user |-> u]}
       ELSE UNCHANGED <<navProfileLoadSequence, profileLoads>>
    /\ UNCHANGED <<booted, auth, isManager, username, navProfile, viewVars, logoutPromise,
                   passwordLogin, passkeyLogin, calls>>

\* The section updateAuthUI leaves on show: it switches to the overview when nobody
\* is signed in and when the saved section is a manager's and the account is not.
AuthView(a, m) ==
    IF a = Nobody \/ (selectedTab \in ManagerTabs /\ ~m)
    THEN Display(SwitchTab(path, "overview", a, m), "overview")
    ELSE UNCHANGED viewVars

-----------------------------------------------------------------------------
(* initializeSession and the rest of initializeApplication                 *)

\* The section shown first: that of the path, or the saved one on the home path.
SavedTab(p, a, m) ==
    LET t == IF p = "home" THEN selectedTab ELSE IF p = "login" THEN "overview" ELSE p IN
    IF (a = Nobody /\ p \notin ManagerTabs) \/ (t \in ManagerTabs /\ ~m) THEN "overview" ELSE t

\* The session is known: updateAuthUI, and the section is shown; the sign-in page
\* is left by who is signed in.
BootAs(a, m) ==
    /\ Identity(a, navProfileLoadSequence)
    /\ isManager' = m
    /\ LET first == SwitchTab(path, "overview", a, m)
           p == IF a = Nobody \/ (selectedTab \in ManagerTabs /\ ~m) THEN first.path ELSE path
       IN IF p = "login" /\ a # Nobody
          THEN \E r \in Paths \ {"login"} :
                 Display(SwitchTab(r, SavedTab(r, a, m), a, m), "overview")
          ELSE Display(SwitchTab(p, SavedTab(p, a, m), a, m), "overview")

\* /api/auth/me is answered with a session, 401, another status, or not at all.
Boot ==
    /\ ~booted /\ booted' = TRUE
    /\ \/ \E u \in People : username' = u /\ BootAs(u, u \in Managers) /\ UNCHANGED logoutPromise
       \/ UNCHANGED <<username, logoutPromise>> /\ BootAs(username, FALSE)
       \/ UNCHANGED <<username, logoutPromise>> /\ BootAs(Nobody, FALSE)
       \/ /\ username # Nobody
          /\ logoutPromise' = TRUE
          /\ UNCHANGED username
          /\ BootAs(Nobody, FALSE)
    /\ UNCHANGED <<edits, passwordLogin, passkeyLogin, calls>>

-----------------------------------------------------------------------------
(* login, fidoLogin and logout                                             *)

SubmitPassword(u) ==
    /\ booted /\ tab = "login" /\ passwordLogin = Nobody
    /\ passwordLogin' = u
    /\ UNCHANGED <<booted, identityVars, viewVars, edits, logoutPromise, passkeyLogin, calls>>

\* A new passkey login aborts the one before.
SubmitPasskey(u) ==
    /\ booted /\ tab = "login"
    /\ passkeyLogin' = u
    /\ UNCHANGED <<booted, identityVars, viewVars, edits, logoutPromise, passwordLogin, calls>>

\* completeLogin: updateAuthUI, then leaveLoginPage for the page that asked.
CompleteLogin(u) ==
    /\ navProfileLoadSequence < MaxAuthChanges
    /\ username' = u
    /\ isManager' = (u \in Managers)
    /\ Identity(u, navProfileLoadSequence)
    /\ IF path = "login"
       THEN \E r \in Paths \ {"login"} :
              LET t == IF r = "home" THEN "overview" ELSE r IN
              Display(SwitchTab(r, t, u, isManager'), selectedTab)
       ELSE AuthView(u, isManager')

\* Wherever the user is by now.
PasswordAnswered ==
    /\ passwordLogin # Nobody
    /\ passwordLogin' = Nobody
    /\ \/ CompleteLogin(passwordLogin)
          /\ IF path = "login" THEN CancelPasskey ELSE UNCHANGED passkeyLogin
       \/ UNCHANGED <<identityVars, viewVars, passkeyLogin>>
    /\ UNCHANGED <<booted, edits, logoutPromise, calls>>

PasskeyAnswered ==
    /\ passkeyLogin # Nobody
    /\ passkeyLogin' = Nobody
    /\ CompleteLogin(passkeyLogin) \/ UNCHANGED <<identityVars, viewVars>>
    /\ UNCHANGED <<booted, edits, logoutPromise, passwordLogin, calls>>

\* protectedRouteDeniedEvent: 401 leads to sign-in, anything else home.
LeaveProtected(status) ==
    IF status = 401
    THEN IF path = "login" THEN UNCHANGED <<viewVars, passkeyLogin>>
         ELSE Display(SwitchTab("login", "overview", auth, isManager), selectedTab) /\ CancelPasskey
    ELSE Display(SwitchTab("home", "overview", auth, isManager), selectedTab) /\ UNCHANGED passkeyLogin

\* logout joins one that is under way.
Logout(status) == LeaveProtected(status) /\ logoutPromise' = TRUE

ClickLogout ==
    /\ booted /\ auth # Nobody
    /\ Logout(0)
    /\ UNCHANGED <<booted, identityVars, edits, passwordLogin, calls>>

\* Mutant of LogoutAnswered: loads of the profile are not discarded.
LogoutAnsweredLoading ==
    /\ logoutPromise /\ logoutPromise' = FALSE
    /\ username' = Nobody /\ isManager' = FALSE
    /\ Identity(Nobody, navProfileLoadSequence)
    /\ AuthView(Nobody, FALSE)
    /\ UNCHANGED <<booted, edits, passwordLogin, passkeyLogin, calls>>

\* Mutant of LogoutAnswered: only the caller of a sign-out that the server confirms
\* is signed out.
LogoutAnsweredIfConfirmed ==
    /\ navProfileLoadSequence < MaxAuthChanges
    /\ logoutPromise /\ logoutPromise' = FALSE
    /\ \/ /\ username' = Nobody /\ isManager' = FALSE
          /\ Identity(Nobody, navProfileLoadSequence + 1)
          /\ AuthView(Nobody, FALSE)
       \/ UNCHANGED <<identityVars, viewVars>>
    /\ UNCHANGED <<booted, edits, passwordLogin, passkeyLogin, calls>>

\* performLogout after its request, whatever became of it.
LogoutAnswered ==
    /\ navProfileLoadSequence < MaxAuthChanges
    /\ logoutPromise /\ logoutPromise' = FALSE
    /\ username' = Nobody /\ isManager' = FALSE
    /\ Identity(Nobody, navProfileLoadSequence + 1)
    /\ AuthView(Nobody, FALSE)
    /\ UNCHANGED <<booted, edits, passwordLogin, passkeyLogin, calls>>

-----------------------------------------------------------------------------
(* API requests and page loads                                             *)

SendCall ==
    /\ auth # Nobody /\ calls < MaxCalls
    /\ calls' = calls + 1
    /\ UNCHANGED <<booted, identityVars, viewVars, edits, logoutPromise, passwordLogin, passkeyLogin>>

\* handleAuthFailure for 401; a protected page that is denied with 403 is left.
CallAnswered ==
    /\ calls > 0
    /\ calls' = calls - 1
    /\ \/ UNCHANGED <<viewVars, passkeyLogin, logoutPromise>>
       \/ Logout(401)
       \/ LeaveProtected(403) /\ UNCHANGED logoutPromise
    /\ UNCHANGED <<booted, identityVars, edits, passwordLogin>>

\* The loader of a section is done; switchTab marks its item of the menu.
PageLoaded(t) ==
    /\ t \in pageLoads
    /\ pageLoads' = pageLoads \ {t}
    /\ menu' = t
    /\ UNCHANGED <<booted, identityVars, path, tab, selectedTab, refreshing, edits, logoutPromise,
                   passwordLogin, passkeyLogin, calls>>

-----------------------------------------------------------------------------
ShellNext ==
    \/ Boot \/ ChangeLanguage \/ SaveProfile \/ PasswordAnswered \/ PasskeyAnswered
    \/ ClickLogout \/ LogoutAnswered \/ SendCall \/ CallAnswered
    \/ \E t \in Tabs : ClickTab(t) \/ PageLoaded(t)
    \/ \E p \in Paths : Navigate(p)
    \/ \E l \in profileLoads : ProfileArrives(l)
    \/ \E u \in People : \/ ProfileChanged(u) \/ ProfileInvalidated(u)
                         \/ SubmitPassword(u) \/ SubmitPasskey(u)

\* The sign-out request is answered or fails.
ShellFairness == WF_shellVars(LogoutAnswered)

-----------------------------------------------------------------------------
(* Properties.                                                             *)

\* Nobody who is not signed in is shown a section that needs it, and its timer does
\* not run, whichever order sign-outs, answers and navigation come in (switchTab,
\* updateAuthUI, performLogout).
SignedOutSeesNothing == auth = Nobody => tab \notin Protected /\ ~refreshing

\* The navigation bar never changes to anyone but the account signed in: loads and
\* saves for a previous account come too late (refreshNavProfile,
\* userProfileChanged, performLogout).
IdentityFollowsSession == [][navProfile' # navProfile => navProfile' \in {Nobody, auth'}]_shellVars

\* A sign-out ends, and leaves no protected section on show, unless the bound of
\* the model on sign-ins is reached.
LogoutEnds == logoutPromise ~> (auth = Nobody \/ navProfileLoadSequence = MaxAuthChanges)

\* A section that "requires manager privileges" (isManagerTab) is shown to managers.
\* The code does not keep this: see the README, section 7.
ManagerSectionsForManagers == tab \in ManagerTabs => isManager
=============================================================================
