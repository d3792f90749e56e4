------------------------ MODULE ClientIdentity_proofs ------------------------
(***************************************************************************)
(* Whose pages and whose names the web client shows, for any accounts and  *)
(* every bound: who is signed out sees no page of an account, the bar      *)
(* follows the session, and the cache of profiles is never behind a change *)
(* the page was told of and keeps its size.                                *)
(***************************************************************************)
EXTENDS MC_ClientIdentity, FiniteSetTheorems, SequenceTheorems, TLAPS

-----------------------------------------------------------------------------
(* ClientShell: what is on show                                            *)

\* The section on show is one the account a may see.
Fit(a, t, ticking) == a = Nobody => t \notin Protected /\ ~ticking

LEMMA SwitchFits ==
    ASSUME NEW p \in Paths, NEW t \in Tabs, NEW a, NEW m \in BOOLEAN
    PROVE  LET v == SwitchTab(p, t, a, m)
           IN  v.path \in Paths /\ v.tab \in Tabs /\ (a = Nobody => v.tab \notin Protected)
BY DEF SwitchTab, Routed, Paths, Tabs, Protected, ManagerTabs, AccountTabs

ViewTyped ==
    /\ path \in Paths /\ {tab, selectedTab, menu} \subseteq Tabs
    /\ pageLoads \subseteq Awaited /\ refreshing \in BOOLEAN

\* Whatever is drawn fits the account it is drawn for.
LEMMA DisplayFits ==
    ASSUME ViewTyped, NEW p \in Paths, NEW t \in Tabs, NEW a, NEW m \in BOOLEAN, NEW kept \in Tabs,
           Display(SwitchTab(p, t, a, m), kept)
    PROVE  ViewTyped' /\ Fit(a, tab', refreshing')
<1> DEFINE v == SwitchTab(p, t, a, m)
<1>1. v.path \in Paths /\ v.tab \in Tabs /\ (a = Nobody => v.tab \notin Protected)
  BY SwitchFits
<1>2. /\ path' = v.path /\ tab' = v.tab
      /\ selectedTab' = IF v.tab \in {"overview"} \union ManagerTabs THEN v.tab ELSE kept
      /\ refreshing' = (v.tab = "dashboard")
      /\ IF v.tab \in Awaited THEN pageLoads' = pageLoads \union {v.tab} /\ UNCHANGED menu
         ELSE menu' = v.tab /\ UNCHANGED pageLoads
  BY DEF Display
<1> HIDE DEF v
<1>3. selectedTab' \in Tabs /\ menu' \in Tabs /\ pageLoads' \subseteq Awaited
  BY <1>1, <1>2 DEF ViewTyped
<1>4. refreshing' \in BOOLEAN /\ (refreshing' => v.tab = "dashboard")
  BY <1>2, Zenon
<1>5. "dashboard" \in Protected
  BY DEF Protected, ManagerTabs
<1> QED BY <1>1, <1>2, <1>3, <1>4, <1>5 DEF ViewTyped, Fit

-----------------------------------------------------------------------------
(* ClientShell: the invariant                                              *)

IdentityTyped ==
    /\ booted \in BOOLEAN /\ isManager \in BOOLEAN /\ logoutPromise \in BOOLEAN
    /\ {auth, username, navProfile, passwordLogin, passkeyLogin} \subseteq People \union {Nobody}
    /\ navProfileLoadSequence \in 0..MaxAuthChanges
    /\ profileLoads \subseteq [seq : 1..MaxAuthChanges, user : People]
    /\ edits \subseteq People
    /\ calls \in 0..MaxCalls

\* Before the session is known nobody is signed in and nothing has been asked.
BeforeBoot ==
    ~booted => /\ auth = Nobody /\ edits = {} /\ calls = 0 /\ ~logoutPromise
               /\ passwordLogin = Nobody /\ passkeyLogin = Nobody
               /\ navProfileLoadSequence = 0 /\ profileLoads = {}

\* The stored name is that of the session, unless it is from an earlier visit.
NameOfSession == username = auth \/ (auth = Nobody /\ edits = {})

\* The last load of the profile is for the account signed in.
LoadsOfSession == \A l \in profileLoads :
    /\ l.seq <= navProfileLoadSequence
    /\ l.seq = navProfileLoadSequence => l.user = auth

ShellInv ==
    /\ IdentityTyped /\ ViewTyped /\ SignedOutSeesNothing
    /\ BeforeBoot /\ NameOfSession /\ LoadsOfSession

LEMMA ShellTypes == ShellInv => ShellTypeOK
BY DEF ShellInv, IdentityTyped, ViewTyped, ShellTypeOK

LEMMA ShellStarts == ShellInit => ShellInv
<1> SUFFICES ASSUME ShellInit PROVE ShellInv
  OBVIOUS
<1> USE NobodyAssumption, AuthChangesAssumption, CallsAssumption
<1>1. booted \in BOOLEAN /\ isManager \in BOOLEAN /\ logoutPromise \in BOOLEAN /\ refreshing \in BOOLEAN
      /\ ~logoutPromise /\ ~refreshing
  BY Zenon DEF ShellInit
<1>2. /\ auth = Nobody /\ username \in People \union {Nobody} /\ navProfile = Nobody
      /\ passwordLogin = Nobody /\ passkeyLogin = Nobody /\ navProfileLoadSequence = 0
      /\ profileLoads = {} /\ edits = {} /\ calls = 0
      /\ path \in Paths /\ tab = "overview" /\ selectedTab \in {"overview"} \union ManagerTabs
      /\ menu = "overview" /\ pageLoads = {}
  BY DEF ShellInit
<1>3. IdentityTyped
  BY <1>1, <1>2 DEF IdentityTyped
<1>4. ViewTyped
  BY <1>1, <1>2 DEF ViewTyped, Tabs, Protected
<1>5. SignedOutSeesNothing
  BY <1>1, <1>2 DEF SignedOutSeesNothing, Protected, ManagerTabs, AccountTabs
<1> QED BY <1>1, <1>2, <1>3, <1>4, <1>5 DEF ShellInv, BeforeBoot, NameOfSession, LoadsOfSession

\* A step that draws a section, or nothing, and leaves the identity alone.
Viewed ==
    /\ ViewTyped' /\ Fit(auth, tab', refreshing')
    /\ UNCHANGED <<booted, identityVars, edits, passwordLogin>>
    /\ passkeyLogin' \in {Nobody, passkeyLogin}
    /\ calls' \in 0..MaxCalls /\ logoutPromise' \in BOOLEAN
    /\ ~booted => calls' = 0 /\ ~logoutPromise'

LEMMA ViewedKeeps == ASSUME ShellInv, Viewed PROVE ShellInv' /\ navProfile' = navProfile
<1>1. UNCHANGED <<booted, auth, isManager, username, navProfile, navProfileLoadSequence,
                  profileLoads, edits, passwordLogin>>
  BY DEF Viewed, identityVars
<1>2. IdentityTyped'
  BY <1>1 DEF Viewed, ShellInv, IdentityTyped
<1>3. SignedOutSeesNothing'
  BY <1>1 DEF Viewed, Fit, SignedOutSeesNothing
<1>4. BeforeBoot'
  BY <1>1 DEF Viewed, ShellInv, BeforeBoot
<1>5. NameOfSession' /\ LoadsOfSession'
  BY <1>1 DEF ShellInv, NameOfSession, LoadsOfSession
<1> QED BY <1>1, <1>2, <1>3, <1>4, <1>5 DEF Viewed, ShellInv

LEMMA ViewSteps ==
    ASSUME ShellInv,
           \/ ChangeLanguage \/ ClickLogout \/ SendCall \/ CallAnswered
           \/ \E t \in Tabs : ClickTab(t) \/ PageLoaded(t)
           \/ \E p \in Paths : Navigate(p)
    PROVE  Viewed
<1> USE CallsAssumption
<1>t. /\ ViewTyped /\ isManager \in BOOLEAN /\ logoutPromise \in BOOLEAN /\ calls \in 0..MaxCalls
      /\ path \in Paths /\ tab \in Tabs /\ selectedTab \in Tabs /\ menu \in Tabs
      /\ pageLoads \subseteq Awaited /\ Fit(auth, tab, refreshing) /\ refreshing \in BOOLEAN
  BY DEF ShellInv, IdentityTyped, ViewTyped, SignedOutSeesNothing, Fit
<1>b. ~booted => calls = 0 /\ ~logoutPromise /\ auth = Nobody
  BY DEF ShellInv, BeforeBoot
<1>p. "home" \in Paths /\ "login" \in Paths /\ "overview" \in Tabs
  BY DEF Paths, Tabs
<1>u. UNCHANGED viewVars => ViewTyped' /\ Fit(auth, tab', refreshing')
  BY <1>t DEF viewVars, ViewTyped
<1>l. ASSUME NEW status, LeaveProtected(status)
      PROVE  ViewTyped' /\ Fit(auth, tab', refreshing') /\ passkeyLogin' \in {Nobody, passkeyLogin}
  BY <1>l, <1>t, <1>p, <1>u, DisplayFits, Zenon DEF LeaveProtected, CancelPasskey
<1>1. CASE ChangeLanguage
  <2> DEFINE t == IF path = "home" THEN selectedTab ELSE IF path = "login" THEN "overview" ELSE path
  <2>1. t \in Tabs
    BY <1>t DEF Paths, Tabs
  <2>2. Display(SwitchTab(path, t, auth, isManager), selectedTab)
    BY <1>1 DEF ChangeLanguage
  <2> HIDE DEF t
  <2>3. ViewTyped' /\ Fit(auth, tab', refreshing')
    BY <2>1, <2>2, <1>t, DisplayFits
  <2> QED BY <1>1, <2>3, <1>t, <1>b DEF ChangeLanguage, Viewed
<1>2. CASE ClickLogout
  <2>1. LeaveProtected(0) /\ logoutPromise' = TRUE /\ booted
        /\ UNCHANGED <<booted, identityVars, edits, passwordLogin, calls>>
    BY <1>2 DEF ClickLogout, Logout
  <2>2. logoutPromise' \in BOOLEAN
    BY <2>1, Zenon
  <2> QED BY <2>1, <2>2, <1>l, <1>t DEF Viewed
<1>3. CASE SendCall
  <2>1. /\ auth # Nobody /\ calls < MaxCalls /\ calls' = calls + 1
        /\ UNCHANGED <<booted, identityVars, viewVars, edits, logoutPromise, passwordLogin, passkeyLogin>>
    BY <1>3 DEF SendCall
  <2>2. calls' \in 0..MaxCalls
    BY <2>1, <1>t
  <2> QED BY <2>1, <2>2, <1>u, <1>b, <1>t DEF Viewed
<1>4. CASE CallAnswered
  <2>1. /\ calls > 0 /\ calls' = calls - 1
        /\ UNCHANGED <<booted, identityVars, edits, passwordLogin>>
    BY <1>4 DEF CallAnswered
  <2>2. booted /\ calls' \in 0..MaxCalls
    BY <2>1, <1>b, <1>t
  <2>3. /\ ViewTyped' /\ Fit(auth, tab', refreshing')
        /\ passkeyLogin' \in {Nobody, passkeyLogin} /\ logoutPromise' \in BOOLEAN
    <3>1. CASE UNCHANGED <<viewVars, passkeyLogin, logoutPromise>>
      BY <3>1, <1>u, <1>t
    <3>2. CASE Logout(401)
      BY <3>2, <1>l, Zenon DEF Logout
    <3>3. CASE LeaveProtected(403) /\ UNCHANGED logoutPromise
      BY <3>3, <1>l, <1>t
    <3> QED BY <1>4, <3>1, <3>2, <3>3 DEF CallAnswered
  <2> QED BY <2>1, <2>2, <2>3 DEF Viewed
<1>5. ASSUME NEW t \in Tabs, ClickTab(t) PROVE Viewed
  <2> DEFINE p == IF t \in ManagerTabs THEN t ELSE "home"
  <2>1. p \in Paths
    BY DEF Paths, Protected
  <2>2. Display(SwitchTab(p, t, auth, isManager), selectedTab)
    BY <1>5 DEF ClickTab
  <2> HIDE DEF p
  <2>3. ViewTyped' /\ Fit(auth, tab', refreshing')
    BY <2>1, <2>2, <1>t, DisplayFits
  <2> QED BY <1>5, <2>3, <1>t, <1>b DEF ClickTab, Viewed
<1>6. ASSUME NEW t \in Tabs, PageLoaded(t) PROVE Viewed
  <2>1. /\ pageLoads' \subseteq Awaited /\ menu' = t
        /\ UNCHANGED <<booted, identityVars, path, tab, selectedTab, refreshing, edits, logoutPromise,
                       passwordLogin, passkeyLogin, calls>>
    BY <1>6, <1>t DEF PageLoaded
  <2>2. ViewTyped' /\ Fit(auth, tab', refreshing')
    BY <2>1, <1>t DEF ViewTyped
  <2> QED BY <2>1, <2>2, <1>t, <1>b DEF Viewed
<1>7. ASSUME NEW p \in Paths, Navigate(p) PROVE Viewed
  <2>1. PICK t \in PopTabs(p) : Display(SwitchTab(p, t, auth, isManager), selectedTab)
    BY <1>7 DEF Navigate
  <2>2. t \in Tabs
    BY DEF PopTabs, Paths, Tabs, Protected
  <2>3. ViewTyped' /\ Fit(auth, tab', refreshing')
    BY <2>1, <2>2, <1>t, DisplayFits
  <2> QED BY <1>7, <2>3, <1>t, <1>b DEF Navigate, CancelPasskey, Viewed
<1> QED BY <1>1, <1>2, <1>3, <1>4, <1>5, <1>6, <1>7

\* The account changes to a, and what is drawn is drawn for it.
LEMMA SignedKeeps ==
    ASSUME ShellInv, NEW a \in People \union {Nobody}, NEW seq \in 0..MaxAuthChanges, Identity(a, seq),
           seq >= navProfileLoadSequence, a # Nobody => seq < MaxAuthChanges,
           a = Nobody => seq > navProfileLoadSequence \/ profileLoads = {},
           username' \in People \union {Nobody}, username' = a \/ (a = Nobody /\ edits = {}),
           isManager' \in BOOLEAN, ViewTyped', Fit(a, tab', refreshing'), booted', booted' \in BOOLEAN,
           logoutPromise' \in BOOLEAN, UNCHANGED <<edits, calls>>,
           passwordLogin' \in People \union {Nobody}, passkeyLogin' \in People \union {Nobody}
    PROVE  ShellInv' /\ navProfile' \in {navProfile, Nobody}
<1>t. /\ navProfileLoadSequence \in 0..MaxAuthChanges /\ navProfile \in People \union {Nobody}
      /\ profileLoads \subseteq [seq : 1..MaxAuthChanges, user : People]
      /\ edits \subseteq People /\ calls \in 0..MaxCalls
  BY DEF ShellInv, IdentityTyped
<1>u. /\ auth' = a
      /\ navProfileLoadSequence' = IF a = Nobody THEN seq ELSE seq + 1
      /\ profileLoads' = IF a = Nobody THEN profileLoads
                         ELSE profileLoads \union {[seq |-> seq + 1, user |-> a]}
      /\ navProfile' = IF a = Nobody THEN Nobody ELSE navProfile
  BY DEF Identity
<1>1. navProfileLoadSequence' \in 0..MaxAuthChanges
  BY <1>u, <1>t, AuthChangesAssumption
<1>2. profileLoads' \subseteq [seq : 1..MaxAuthChanges, user : People]
  <2>1. CASE a = Nobody
    BY <2>1, <1>u, <1>t
  <2>2. CASE a # Nobody
    <3>1. [seq |-> seq + 1, user |-> a] \in [seq : 1..MaxAuthChanges, user : People]
      BY <2>2, AuthChangesAssumption
    <3> QED BY <2>2, <3>1, <1>u, <1>t
  <2> QED BY <2>1, <2>2
<1>3. IdentityTyped'
  BY <1>1, <1>2, <1>u, <1>t DEF IdentityTyped
<1>4. LoadsOfSession'
  <2>1. \A l \in profileLoads : /\ l.seq <= navProfileLoadSequence /\ l.seq \in Nat
                                /\ l.seq = navProfileLoadSequence => l.user = auth
    BY <1>t DEF ShellInv, LoadsOfSession
  <2>2. CASE a = Nobody
    BY <2>1, <2>2, <1>u, <1>t DEF LoadsOfSession
  <2>3. CASE a # Nobody
    <3>1. \A l \in profileLoads' : l \in profileLoads \/ l = [seq |-> seq + 1, user |-> a]
      BY <2>3, <1>u
    <3> QED BY <2>1, <2>3, <3>1, <1>u, <1>t DEF LoadsOfSession
  <2> QED BY <2>2, <2>3
<1>5. SignedOutSeesNothing'
  BY <1>u DEF Fit, SignedOutSeesNothing
<1>6. BeforeBoot' /\ NameOfSession'
  BY <1>u DEF BeforeBoot, NameOfSession
<1> QED BY <1>3, <1>4, <1>5, <1>6, <1>u DEF ShellInv

LEMMA AuthViewFits ==
    ASSUME ViewTyped, NEW a, NEW m \in BOOLEAN, AuthView(a, m)
    PROVE  ViewTyped' /\ Fit(a, tab', refreshing')
<1>1. CASE a = Nobody \/ (selectedTab \in ManagerTabs /\ ~m)
  <2>1. Display(SwitchTab(path, "overview", a, m), "overview")
    BY <1>1 DEF AuthView
  <2>2. path \in Paths /\ "overview" \in Tabs
    BY DEF ViewTyped, Tabs
  <2> QED BY <2>1, <2>2, DisplayFits
<1>2. CASE ~(a = Nobody \/ (selectedTab \in ManagerTabs /\ ~m))
  BY <1>2 DEF AuthView, viewVars, ViewTyped, Fit
<1> QED BY <1>1, <1>2

LEMMA BootViewFits ==
    ASSUME ViewTyped, NEW a, NEW m \in BOOLEAN, BootAs(a, m)
    PROVE  ViewTyped' /\ Fit(a, tab', refreshing')
<1>s. ASSUME NEW p \in Paths PROVE SavedTab(p, a, m) \in Tabs
  BY DEF SavedTab, ViewTyped, Paths, Tabs
<1> DEFINE first == SwitchTab(path, "overview", a, m)
           p == IF a = Nobody \/ (selectedTab \in ManagerTabs /\ ~m) THEN first.path ELSE path
<1>1. p \in Paths
  <2>1. path \in Paths /\ "overview" \in Tabs
    BY DEF ViewTyped, Tabs
  <2>2. first.path \in Paths
    BY <2>1, SwitchFits
  <2> QED BY <2>1, <2>2
<1>2. IF p = "login" /\ a # Nobody
      THEN \E r \in Paths \ {"login"} : Display(SwitchTab(r, SavedTab(r, a, m), a, m), "overview")
      ELSE Display(SwitchTab(p, SavedTab(p, a, m), a, m), "overview")
  BY DEF BootAs
<1> HIDE DEF p
<1>3. \E r \in Paths : Display(SwitchTab(r, SavedTab(r, a, m), a, m), "overview")
  BY <1>1, <1>2
<1>4. "overview" \in Tabs
  BY DEF Tabs
<1> QED BY <1>3, <1>4, <1>s, DisplayFits

LEMMA IsManager == ASSUME NEW u PROVE (u \in Managers) \in BOOLEAN
<1>1. (u \in Managers) = TRUE \/ (u \in Managers) = FALSE
  BY SMT
<1> QED BY <1>1, Zenon

LEMMA BootKeeps == ASSUME ShellInv, Boot PROVE ShellInv' /\ navProfile' \in {navProfile, Nobody}
<1> USE AuthChangesAssumption
<1>1. /\ auth = Nobody /\ edits = {} /\ navProfileLoadSequence = 0 /\ profileLoads = {}
      /\ passwordLogin = Nobody /\ passkeyLogin = Nobody /\ ViewTyped
      /\ username \in People \union {Nobody} /\ logoutPromise \in BOOLEAN
  BY DEF Boot, ShellInv, BeforeBoot, IdentityTyped
<1>2. booted' = TRUE /\ UNCHANGED <<edits, passwordLogin, passkeyLogin, calls>>
  BY DEF Boot
<1>3. booted' /\ booted' \in BOOLEAN
  BY <1>2, Zenon
<1>4. PICK a \in People \union {Nobody}, m \in BOOLEAN :
         /\ BootAs(a, m)
         /\ username' \in People \union {Nobody} /\ (username' = a \/ a = Nobody)
         /\ logoutPromise' \in BOOLEAN
  <2>1. CASE \E u \in People : username' = u /\ BootAs(u, u \in Managers) /\ UNCHANGED logoutPromise
    <3>1. PICK u \in People : username' = u /\ BootAs(u, u \in Managers) /\ UNCHANGED logoutPromise
      BY <2>1
    <3>2. (u \in Managers) \in BOOLEAN
      BY IsManager
    <3> QED BY <3>1, <3>2, <1>1, Zenon
  <2>2. CASE UNCHANGED <<username, logoutPromise>> /\ BootAs(username, FALSE)
    BY <2>2, <1>1, Zenon
  <2>3. CASE UNCHANGED <<username, logoutPromise>> /\ BootAs(Nobody, FALSE)
    BY <2>3, <1>1, Zenon
  <2>4. CASE logoutPromise' = TRUE /\ UNCHANGED username /\ BootAs(Nobody, FALSE)
    BY <2>4, <1>1, Zenon
  <2> QED BY <2>1, <2>2, <2>3, <2>4, Zenon DEF Boot
<1>5. ViewTyped' /\ Fit(a, tab', refreshing')
  BY <1>1, <1>4, BootViewFits
<1>6. Identity(a, 0) /\ isManager' = m
  BY <1>1, <1>4 DEF BootAs
<1>7. isManager' \in BOOLEAN /\ 0 \in 0..MaxAuthChanges /\ 0 >= navProfileLoadSequence /\ 0 < MaxAuthChanges
  BY <1>6, <1>1
<1> QED BY <1>1, <1>2, <1>3, <1>4, <1>5, <1>6, <1>7, SignedKeeps

LEMMA LoginKeeps ==
    ASSUME ShellInv, NEW u \in People, CompleteLogin(u), booted, booted' = booted,
           UNCHANGED <<edits, calls, logoutPromise>>,
           passwordLogin' \in People \union {Nobody}, passkeyLogin' \in People \union {Nobody}
    PROVE  ShellInv' /\ navProfile' \in {navProfile, Nobody}
<1>t. /\ navProfileLoadSequence \in 0..MaxAuthChanges /\ logoutPromise \in BOOLEAN /\ booted \in BOOLEAN
      /\ ViewTyped /\ path \in Paths /\ selectedTab \in Tabs
  BY DEF ShellInv, IdentityTyped, ViewTyped
<1>1. /\ navProfileLoadSequence < MaxAuthChanges /\ username' = u
      /\ Identity(u, navProfileLoadSequence)
      /\ IF path = "login"
         THEN \E r \in Paths \ {"login"} :
                Display(SwitchTab(r, IF r = "home" THEN "overview" ELSE r, u, isManager'), selectedTab)
         ELSE AuthView(u, isManager')
  BY DEF CompleteLogin
<1>2. isManager' \in BOOLEAN
  BY IsManager DEF CompleteLogin
<1>3. PICK m \in BOOLEAN : isManager' = m
  BY <1>2
<1>4. ViewTyped' /\ Fit(u, tab', refreshing')
  <2>1. CASE path = "login"
    <3>1. PICK r \in Paths \ {"login"} :
                Display(SwitchTab(r, IF r = "home" THEN "overview" ELSE r, u, m), selectedTab)
      BY <1>1, <1>3, <2>1
    <3>2. (IF r = "home" THEN "overview" ELSE r) \in Tabs
      BY DEF Paths, Tabs
    <3> QED BY <3>1, <3>2, <1>t, DisplayFits
  <2>2. CASE path # "login"
    <3>1. AuthView(u, m)
      BY <1>1, <1>3, <2>2
    <3> QED BY <3>1, <1>t, AuthViewFits
  <2> QED BY <2>1, <2>2
<1>5. u # Nobody /\ navProfileLoadSequence >= navProfileLoadSequence
  BY <1>t, NobodyAssumption
<1> QED BY <1>1, <1>2, <1>4, <1>5, <1>t, SignedKeeps

LEMMA LoginSteps ==
    ASSUME ShellInv, PasswordAnswered \/ PasskeyAnswered
    PROVE  ShellInv' /\ navProfile' \in {navProfile, Nobody}
<1>t. /\ {passwordLogin, passkeyLogin} \subseteq People \union {Nobody}
      /\ ViewTyped /\ Fit(auth, tab, refreshing) /\ calls \in 0..MaxCalls /\ logoutPromise \in BOOLEAN
      /\ booted \in BOOLEAN
  BY DEF ShellInv, IdentityTyped, SignedOutSeesNothing, Fit
<1>b. booted
  BY DEF PasswordAnswered, PasskeyAnswered, ShellInv, BeforeBoot
<1>u. ASSUME UNCHANGED <<booted, identityVars, viewVars, edits, calls, logoutPromise>>,
             passwordLogin' \in People \union {Nobody}, passkeyLogin' \in People \union {Nobody}
      PROVE  ShellInv' /\ navProfile' = navProfile
  <2>2. UNCHANGED <<auth, isManager, username, navProfile, navProfileLoadSequence, profileLoads,
                    path, tab, selectedTab, menu, refreshing, pageLoads, booted, edits, calls, logoutPromise>>
    BY <1>u DEF identityVars, viewVars
  <2>3. IdentityTyped' /\ ViewTyped' /\ SignedOutSeesNothing'
    BY <2>2, <1>u DEF ShellInv, IdentityTyped, ViewTyped, SignedOutSeesNothing
  <2>4. BeforeBoot' /\ NameOfSession' /\ LoadsOfSession'
    BY <2>2, <1>b DEF ShellInv, BeforeBoot, NameOfSession, LoadsOfSession
  <2> QED BY <2>2, <2>3, <2>4 DEF ShellInv
<1>1. CASE PasswordAnswered
  <2>1. /\ passwordLogin \in People /\ passwordLogin' = Nobody
        /\ UNCHANGED <<booted, edits, logoutPromise, calls>>
    BY <1>1, <1>t DEF PasswordAnswered
  <2>2. CASE CompleteLogin(passwordLogin) /\ (IF path = "login" THEN CancelPasskey ELSE UNCHANGED passkeyLogin)
    <3>1. passkeyLogin' \in People \union {Nobody}
      BY <2>2, <1>t DEF CancelPasskey
    <3> QED BY <2>1, <2>2, <3>1, <1>b, LoginKeeps
  <2>3. CASE UNCHANGED <<identityVars, viewVars, passkeyLogin>>
    <3>1. passkeyLogin' \in People \union {Nobody}
      BY <2>3, <1>t
    <3> QED BY <2>1, <2>3, <3>1, <1>u
  <2> QED BY <1>1, <2>2, <2>3 DEF PasswordAnswered
<1>2. CASE PasskeyAnswered
  <2>1. /\ passkeyLogin \in People /\ passkeyLogin' = Nobody
        /\ passwordLogin' \in People \union {Nobody}
        /\ UNCHANGED <<booted, edits, logoutPromise, calls>>
    BY <1>2, <1>t DEF PasskeyAnswered
  <2>2. CASE CompleteLogin(passkeyLogin)
    BY <2>1, <2>2, <1>b, LoginKeeps
  <2>3. CASE UNCHANGED <<identityVars, viewVars>>
    BY <2>1, <2>3, <1>u
  <2> QED BY <1>2, <2>2, <2>3 DEF PasskeyAnswered
<1> QED BY <1>1, <1>2

\* The answer to a sign-out ends the session and discards the loads of its profile.
LEMMA LogoutKeeps ==
    ASSUME ShellInv, LogoutAnswered
    PROVE  ShellInv' /\ navProfile' \in {navProfile, Nobody}
<1> USE AuthChangesAssumption
<1>t. /\ {passwordLogin, passkeyLogin} \subseteq People \union {Nobody} /\ ViewTyped
      /\ navProfileLoadSequence \in 0..MaxAuthChanges /\ booted \in BOOLEAN
  BY DEF ShellInv, IdentityTyped
<1>1. /\ navProfileLoadSequence < MaxAuthChanges /\ logoutPromise
      /\ logoutPromise' = FALSE /\ isManager' = FALSE /\ username' = Nobody
      /\ Identity(Nobody, navProfileLoadSequence + 1) /\ AuthView(Nobody, FALSE)
      /\ UNCHANGED <<booted, edits, passwordLogin, passkeyLogin, calls>>
  BY DEF LogoutAnswered
<1>2. logoutPromise' \in BOOLEAN /\ isManager' \in BOOLEAN /\ FALSE \in BOOLEAN
  BY <1>1, Zenon
<1>3. booted' /\ booted' \in BOOLEAN
  BY <1>1, <1>t DEF ShellInv, BeforeBoot
<1>4. ViewTyped' /\ Fit(Nobody, tab', refreshing')
  BY <1>1, <1>2, <1>t, AuthViewFits
<1>5. /\ navProfileLoadSequence + 1 \in 0..MaxAuthChanges
      /\ navProfileLoadSequence + 1 > navProfileLoadSequence
      /\ navProfileLoadSequence + 1 >= navProfileLoadSequence
  BY <1>1, <1>t
<1> QED BY <1>1, <1>2, <1>3, <1>4, <1>5, <1>t, SignedKeeps

\* A profile that arrives, or was changed here, is shown for its account only.
LEMMA BarKeeps ==
    ASSUME ShellInv,
           \/ SaveProfile
           \/ \E l \in profileLoads : ProfileArrives(l)
           \/ \E u \in People : \/ ProfileChanged(u) \/ ProfileInvalidated(u)
                              \/ SubmitPassword(u) \/ SubmitPasskey(u)
    PROVE  ShellInv' /\ navProfile' \in {navProfile, auth'}
<1> USE AuthChangesAssumption
<1>t. /\ IdentityTyped /\ ViewTyped /\ SignedOutSeesNothing /\ BeforeBoot /\ NameOfSession /\ LoadsOfSession
      /\ navProfileLoadSequence \in 0..MaxAuthChanges
      /\ {auth, username, navProfile} \subseteq People \union {Nobody}
      /\ profileLoads \subseteq [seq : 1..MaxAuthChanges, user : People]
      /\ edits \subseteq People
  BY DEF ShellInv, IdentityTyped
<1>v. ASSUME UNCHANGED <<auth, viewVars>> PROVE ViewTyped' /\ SignedOutSeesNothing'
  BY <1>v, <1>t DEF viewVars, ViewTyped, SignedOutSeesNothing
<1>1. CASE SaveProfile
  <2>1. /\ auth # Nobody /\ edits' = edits \union {auth} /\ auth \in People
        /\ UNCHANGED <<booted, auth, isManager, username, navProfile, navProfileLoadSequence, profileLoads,
                       viewVars, logoutPromise, passwordLogin, passkeyLogin, calls>>
    BY <1>1, <1>t DEF SaveProfile, identityVars
  <2>2. IdentityTyped'
    BY <2>1, <1>t DEF IdentityTyped
  <2>3. BeforeBoot' /\ NameOfSession' /\ LoadsOfSession'
    BY <2>1, <1>t DEF BeforeBoot, NameOfSession, LoadsOfSession
  <2> QED BY <2>1, <2>2, <2>3, <1>v DEF ShellInv
<1>2. ASSUME NEW l \in profileLoads, ProfileArrives(l) PROVE ShellInv' /\ navProfile' \in {navProfile, auth'}
  <2>1. /\ profileLoads' = profileLoads \ {l}
        /\ navProfile' \in {l.user, navProfile}
        /\ l.seq = navProfileLoadSequence \/ navProfile' = navProfile
        /\ UNCHANGED <<booted, auth, isManager, username, navProfileLoadSequence, viewVars, edits,
                       logoutPromise, passwordLogin, passkeyLogin, calls>>
    BY <1>2 DEF ProfileArrives
  <2>2. l.user \in People /\ (l.seq = navProfileLoadSequence => l.user = auth)
    BY <1>t DEF LoadsOfSession
  <2>3. IdentityTyped'
    BY <2>1, <2>2, <1>t DEF IdentityTyped
  <2>4. BeforeBoot' /\ NameOfSession' /\ LoadsOfSession'
    BY <2>1, <1>t DEF BeforeBoot, NameOfSession, LoadsOfSession
  <2> QED BY <2>1, <2>2, <2>3, <2>4, <1>v DEF ShellInv
<1>3. ASSUME NEW u \in People, ProfileChanged(u) PROVE ShellInv' /\ navProfile' \in {navProfile, auth'}
  <2>1. /\ u \in edits /\ edits' = edits \ {u}
        /\ \/ username = u /\ navProfileLoadSequence < MaxAuthChanges
              /\ navProfileLoadSequence' = navProfileLoadSequence + 1 /\ navProfile' = u
           \/ UNCHANGED <<navProfileLoadSequence, navProfile>>
        /\ UNCHANGED <<booted, auth, isManager, username, profileLoads, viewVars, logoutPromise,
                       passwordLogin, passkeyLogin, calls>>
    BY <1>3 DEF ProfileChanged
  <2>2. username = u => u = auth
    BY <2>1, <1>t DEF NameOfSession
  <2>3. IdentityTyped'
    <3>1. navProfileLoadSequence' \in 0..MaxAuthChanges
      BY <2>1, <1>t
    <3> QED BY <2>1, <3>1, <1>t DEF IdentityTyped
  <2>4. LoadsOfSession'
    <3>1. \A l \in profileLoads : l.seq \in Nat
      BY <1>t
    <3> QED BY <2>1, <3>1, <1>t DEF LoadsOfSession
  <2>5. BeforeBoot' /\ NameOfSession'
    BY <2>1, <2>2, <1>t DEF BeforeBoot, NameOfSession
  <2> QED BY <2>1, <2>2, <2>3, <2>4, <2>5, <1>v DEF ShellInv
<1>4. ASSUME NEW u \in People, ProfileInvalidated(u) PROVE ShellInv' /\ navProfile' = navProfile
  <2> DEFINE new == [seq |-> navProfileLoadSequence + 1, user |-> u]
  <2>1. /\ u \in edits /\ edits' = edits \ {u}
        /\ \/ /\ username = u /\ navProfileLoadSequence < MaxAuthChanges
              /\ navProfileLoadSequence' = navProfileLoadSequence + 1
              /\ profileLoads' = profileLoads \union {new}
           \/ UNCHANGED <<navProfileLoadSequence, profileLoads>>
        /\ UNCHANGED <<booted, auth, isManager, username, navProfile, viewVars, logoutPromise,
                       passwordLogin, passkeyLogin, calls>>
    BY <1>4 DEF ProfileInvalidated
  <2>2. username = u => u = auth
    BY <2>1, <1>t DEF NameOfSession
  <2>3. navProfileLoadSequence < MaxAuthChanges => new \in [seq : 1..MaxAuthChanges, user : People]
    BY <1>t
  <2>4. new.seq = navProfileLoadSequence + 1 /\ new.user = u
    OBVIOUS
  <2> HIDE DEF new
  <2>5. IdentityTyped'
    <3>1. navProfileLoadSequence' \in 0..MaxAuthChanges
      BY <2>1, <1>t
    <3>2. profileLoads' \subseteq [seq : 1..MaxAuthChanges, user : People]
      BY <2>1, <2>3, <1>t
    <3> QED BY <2>1, <3>1, <3>2, <1>t DEF IdentityTyped
  <2>6. LoadsOfSession'
    <3>1. \A l \in profileLoads : l.seq \in Nat
      BY <1>t
    <3> QED BY <2>1, <2>2, <2>4, <3>1, <1>t DEF LoadsOfSession
  <2>7. BeforeBoot' /\ NameOfSession'
    BY <2>1, <2>2, <1>t DEF BeforeBoot, NameOfSession
  <2> QED BY <2>1, <2>5, <2>6, <2>7, <1>v DEF ShellInv
<1>5. ASSUME NEW u \in People, SubmitPassword(u) \/ SubmitPasskey(u)
      PROVE  ShellInv' /\ navProfile' = navProfile
  <2>1. /\ booted
        /\ UNCHANGED <<booted, auth, isManager, username, navProfile, navProfileLoadSequence, profileLoads,
                       viewVars, edits, logoutPromise, calls>>
        /\ passwordLogin' \in {u, passwordLogin} /\ passkeyLogin' \in {u, passkeyLogin}
    BY <1>5 DEF SubmitPassword, SubmitPasskey, identityVars
  <2>2. IdentityTyped'
    BY <2>1, <1>t DEF IdentityTyped
  <2>3. BeforeBoot' /\ NameOfSession' /\ LoadsOfSession'
    BY <2>1, <1>t DEF BeforeBoot, NameOfSession, LoadsOfSession
  <2> QED BY <2>1, <2>2, <2>3, <1>v DEF ShellInv
<1> QED BY <1>1, <1>2, <1>3, <1>4, <1>5

LEMMA ShellStays == ASSUME ShellInv, ShellNext PROVE ShellInv' /\ navProfile' \in {navProfile, Nobody, auth'}
<1>1. CASE Boot
  BY <1>1, BootKeeps
<1>2. CASE PasswordAnswered \/ PasskeyAnswered
  BY <1>2, LoginSteps
<1>3. CASE LogoutAnswered
  BY <1>3, LogoutKeeps
<1>4. CASE \/ ChangeLanguage \/ ClickLogout \/ SendCall \/ CallAnswered
           \/ \E t \in Tabs : ClickTab(t) \/ PageLoaded(t)
           \/ \E p \in Paths : Navigate(p)
  BY <1>4, ViewSteps, ViewedKeeps
<1>5. CASE \/ SaveProfile
           \/ \E l \in profileLoads : ProfileArrives(l)
           \/ \E u \in People : \/ ProfileChanged(u) \/ ProfileInvalidated(u)
                              \/ SubmitPassword(u) \/ SubmitPasskey(u)
  BY <1>5, BarKeeps
<1> QED BY <1>1, <1>2, <1>3, <1>4, <1>5 DEF ShellNext

LEMMA ShellRests == ASSUME ShellInv, UNCHANGED shellVars PROVE ShellInv'
<1>1. UNCHANGED <<booted, auth, isManager, username, path, tab, selectedTab, menu, refreshing,
                  pageLoads, navProfile, navProfileLoadSequence, profileLoads, edits,
                  logoutPromise, passwordLogin, passkeyLogin, calls>>
  BY DEF shellVars
<1>2. IdentityTyped' /\ ViewTyped' /\ SignedOutSeesNothing'
  BY <1>1 DEF ShellInv, IdentityTyped, ViewTyped, SignedOutSeesNothing
<1>3. BeforeBoot' /\ NameOfSession' /\ LoadsOfSession'
  BY <1>1 DEF ShellInv, BeforeBoot, NameOfSession, LoadsOfSession
<1> QED BY <1>2, <1>3 DEF ShellInv

-----------------------------------------------------------------------------
(* ProfileCache: what is left of a sequence                                *)

\* Among n places, each of 1..n is the one with so many before it.
LEMMA PlaceFound ==
    ASSUME NEW K \in SUBSET Nat, IsFiniteSet(K), NEW j \in 1..Cardinality(K)
    PROVE  Place(K, j) \in K /\ Cardinality({h \in K : h < Place(K, j)}) = j - 1
<1> DEFINE n == Cardinality(K)
           Rank(i) == Cardinality({h \in K : h < i})
           f == [i \in K |-> Rank(i)]
<1>n. n \in Nat
  BY FS_CardinalityType
<1>1. ASSUME NEW i \in K PROVE IsFiniteSet({h \in K : h < i}) /\ Rank(i) \in Nat
  <2>1. {h \in K : h < i} \in SUBSET K
    OBVIOUS
  <2> QED BY <2>1, FS_Subset, FS_CardinalityType
<1>2. ASSUME NEW i \in K, NEW S \in SUBSET K, {h \in K : h < i} \subseteq S, i \in S
      PROVE  Rank(i) < Cardinality(S)
  <2>1. IsFiniteSet(S) /\ Cardinality(S) \in Nat
    BY FS_Subset, FS_CardinalityType
  <2>2. {h \in K : h < i} \in SUBSET S /\ {h \in K : h < i} # S
    BY <1>2
  <2>3. Rank(i) <= Cardinality(S) /\ Rank(i) # Cardinality(S)
    BY <2>1, <2>2, FS_Subset
  <2> QED BY <2>1, <2>3, <1>1
<1>3. ASSUME NEW i \in K PROVE Rank(i) \in 0..n-1
  <2>1. Rank(i) < n
    BY <1>2
  <2> QED BY <2>1, <1>1, <1>n
<1>4. ASSUME NEW i \in K, NEW k \in K, i < k PROVE Rank(i) < Rank(k)
  <2>1. {h \in K : h < i} \subseteq {h \in K : h < k} /\ i \in {h \in K : h < k}
        /\ {h \in K : h < k} \in SUBSET K
    <3>1. i \in Nat /\ k \in Nat /\ \A h \in K : h \in Nat
      OBVIOUS
    <3>2. \A h \in K : h < i => h < k
      BY <3>1, <1>4
    <3> QED BY <3>2, <1>4
  <2> HIDE DEF Rank
  <2>2. Rank(i) < Cardinality({h \in K : h < k})
    BY <2>1, <1>2
  <2> QED BY <2>2 DEF Rank
<1> HIDE DEF Rank
<1>5. \A i, k \in K : f[i] = f[k] => i = k
  <2>1. \A i \in K : f[i] \in Nat /\ f[i] = Rank(i)
    BY <1>1
  <2>2. SUFFICES ASSUME NEW i \in K, NEW k \in K, f[i] = f[k] PROVE i = k
    OBVIOUS
  <2>3. Rank(i) = Rank(k) /\ Rank(i) \in Nat /\ i \in Nat /\ k \in Nat
    BY <2>1, <2>2
  <2>4. ~(i < k) /\ ~(k < i)
    BY <2>3, <1>4
  <2> QED BY <2>3, <2>4
<1>6. f \in [K -> 0..n-1]
  BY <1>3
<1>7. f \in Injection(K, 0..n-1)
  BY <1>5, <1>6 DEF Injection, IsInjective
<1>8. IsFiniteSet(0..n-1) /\ Cardinality(0..n-1) = n
  <2>1. n - 1 \in Int /\ (0 > n - 1 => n = 0)
    BY <1>n
  <2> HIDE DEF n
  <2> QED BY <1>n, <2>1, FS_Interval
<1>9. f \in Surjection(K, 0..n-1)
  BY <1>7, <1>8, FS_Injection
<1>10. \E i \in K : f[i] = j - 1
  <2>1. j - 1 \in 0..n-1
    BY <1>n
  <2> QED BY <1>9, <2>1 DEF Surjection
<1>11. \E i \in K : Rank(i) = j - 1
  BY <1>10
<1>12. \E i \in K : Cardinality({h \in K : h < i}) = j - 1
  BY <1>11 DEF Rank
<1> QED BY <1>12 DEF Place

\* What is left has no more elements than the whole, each from a place of its own.
LEMMA OnlyProperties ==
    ASSUME NEW S, NEW s \in Seq(S), NEW K \in SUBSET DOMAIN s
    PROVE  /\ Only(s, K) \in Seq(S) /\ Len(Only(s, K)) <= Len(s)
           /\ \A j \in 1..Len(Only(s, K)) : Place(K, j) \in K /\ Only(s, K)[j] = s[Place(K, j)]
           /\ \A j, k \in 1..Len(Only(s, K)) : Place(K, j) = Place(K, k) => j = k
<1>1. DOMAIN s = 1..Len(s) /\ Len(s) \in Nat
  OBVIOUS
<1>2. IsFiniteSet(K) /\ Cardinality(K) \in Nat /\ Cardinality(K) <= Len(s)
  <2>1. IsFiniteSet(1..Len(s)) /\ Cardinality(1..Len(s)) = Len(s)
    <3>1. ASSUME NEW n \in Nat PROVE IsFiniteSet(1..n) /\ Cardinality(1..n) = n
      BY FS_Interval
    <3> QED BY <1>1, <3>1
  <2>2. K \in SUBSET (1..Len(s))
    BY <1>1
  <2>3. IsFiniteSet(K) /\ Cardinality(K) <= Len(s)
    BY <2>1, <2>2, FS_Subset
  <2> QED BY <2>3, FS_CardinalityType
<1>3. K \in SUBSET Nat
  BY <1>1
<1>4. \A j \in 1..Cardinality(K) : /\ Place(K, j) \in K
                                   /\ Cardinality({h \in K : h < Place(K, j)}) = j - 1
  BY <1>2, <1>3, PlaceFound
<1>5. \A j \in 1..Cardinality(K) : s[Place(K, j)] \in S
  <2>1. \A i \in K : i \in 1..Len(s)
    BY <1>1
  <2>2. \A i \in 1..Len(s) : s[i] \in S
    BY <1>1
  <2> QED BY <1>4, <2>1, <2>2
<1>6. Only(s, K) \in Seq(S) /\ Len(Only(s, K)) = Cardinality(K)
      /\ \A j \in 1..Cardinality(K) : Only(s, K)[j] = s[Place(K, j)]
  BY <1>2, <1>5 DEF Only
<1>7. ASSUME NEW j \in 1..Cardinality(K), NEW k \in 1..Cardinality(K), Place(K, j) = Place(K, k)
      PROVE  j = k
  <2>1. j - 1 = k - 1
    BY <1>4, <1>7
  <2> QED BY <2>1, <1>2
<1> QED BY <1>2, <1>4, <1>6, <1>7

-----------------------------------------------------------------------------
(* ProfileCache: the cache                                                 *)

ProfileEntry == [user : Names, profile : 0..MaxSaves, expired : BOOLEAN]

\* A cache that is not behind what is known, and has one entry for a user.
CacheFits(c, known) ==
    /\ c \in Seq(ProfileEntry) /\ Len(c) <= MaxEntries
    /\ \A i \in 1..Len(c) : c[i].profile >= known[c[i].user]
    /\ \A i, j \in 1..Len(c) : c[i].user = c[j].user => i = j

LEMMA EntryTypes ==
    ASSUME NEW c, NEW known, CacheFits(c, known), NEW i \in DOMAIN c
    PROVE  i \in 1..Len(c) /\ c[i] \in ProfileEntry /\ c[i].user \in Names
<1>1. i \in 1..Len(c) /\ c[i] \in ProfileEntry
  BY DEF CacheFits
<1> QED BY <1>1 DEF ProfileEntry

\* Entries that are dropped leave a cache that fits, and what was learnt of their
\* users does not matter.
LEMMA OnlyFits ==
    ASSUME NEW c, NEW known, NEW now, CacheFits(c, known), NEW K \in SUBSET DOMAIN c,
           \A i \in K : now[c[i].user] = known[c[i].user]
    PROVE  /\ CacheFits(Only(c, K), now)
           /\ \A j \in 1..Len(Only(c, K)) : \E i \in K : Only(c, K)[j] = c[i]
<1> DEFINE o == Only(c, K)
<1>1. /\ c \in Seq(ProfileEntry) /\ Len(c) <= MaxEntries /\ Len(c) \in Nat
      /\ \A i \in K : i \in 1..Len(c)
  BY DEF CacheFits
<1>2. /\ o \in Seq(ProfileEntry) /\ Len(o) <= Len(c)
      /\ \A j \in 1..Len(o) : Place(K, j) \in K /\ o[j] = c[Place(K, j)]
      /\ \A j, k \in 1..Len(o) : Place(K, j) = Place(K, k) => j = k
  BY <1>1, OnlyProperties
<1> HIDE DEF o
<1>3. \A j \in 1..Len(o) : o[j].profile >= now[o[j].user]
  BY <1>1, <1>2 DEF CacheFits
<1>4. \A j, k \in 1..Len(o) : o[j].user = o[k].user => j = k
  BY <1>1, <1>2 DEF CacheFits
<1>5. Len(o) <= MaxEntries
  BY <1>1, <1>2, EntriesAssumption
<1> QED BY <1>2, <1>3, <1>4, <1>5 DEF CacheFits, o

LEMMA ForgetFits ==
    ASSUME NEW c, NEW known, NEW now, NEW u \in Names, CacheFits(c, known),
           \A v \in Names \ {u} : now[v] = known[v]
    PROVE  CacheFits(Forget(c, u), now)
<1> DEFINE K == {i \in DOMAIN c : c[i].user # u}
<1>1. K \in SUBSET DOMAIN c
  OBVIOUS
<1>2. \A i \in K : c[i].user \in Names \ {u}
  BY EntryTypes
<1> HIDE DEF K
<1>3. CacheFits(Only(c, K), now)
  BY <1>1, <1>2, OnlyFits
<1> QED BY <1>3 DEF Forget, K

\* The oldest entry makes room.
LEMMA TailFits ==
    ASSUME NEW c, NEW known, CacheFits(c, known), Len(c) >= MaxEntries
    PROVE  /\ CacheFits(Tail(c), known) /\ Len(Tail(c)) < MaxEntries
           /\ \A j \in 1..Len(Tail(c)) : j + 1 \in 1..Len(c) /\ Tail(c)[j] = c[j + 1]
<1>1. c \in Seq(ProfileEntry) /\ Len(c) \in Nat /\ Len(c) <= MaxEntries
  BY DEF CacheFits
<1>2. c # <<>>
  BY <1>1, EntriesAssumption
<1>3. /\ Tail(c) \in Seq(ProfileEntry) /\ Len(Tail(c)) = Len(c) - 1
      /\ \A j \in 1..Len(Tail(c)) : Tail(c)[j] = c[j + 1]
  BY <1>1, <1>2, HeadTailProperties
<1>4. \A j \in 1..Len(Tail(c)) : j + 1 \in 1..Len(c)
  BY <1>1, <1>3
<1>5. Len(Tail(c)) < MaxEntries
  BY <1>1, <1>3, EntriesAssumption
<1>6. \A j, k \in 1..Len(Tail(c)) : Tail(c)[j].user = Tail(c)[k].user => j = k
  <2>1. ASSUME NEW j \in 1..Len(Tail(c)), NEW k \in 1..Len(Tail(c)), Tail(c)[j].user = Tail(c)[k].user
        PROVE  j = k
    <3>1. j + 1 = k + 1
      BY <2>1, <1>3, <1>4 DEF CacheFits
    <3> QED BY <3>1
  <2> QED BY <2>1
<1>7. \A j \in 1..Len(Tail(c)) : Tail(c)[j].profile >= known[Tail(c)[j].user]
  BY <1>3, <1>4 DEF CacheFits
<1> QED BY <1>3, <1>4, <1>5, <1>6, <1>7, EntriesAssumption DEF CacheFits

LEMMA AppendFits ==
    ASSUME NEW c, NEW known, NEW e \in ProfileEntry, CacheFits(c, known), Len(c) < MaxEntries,
           \A i \in 1..Len(c) : c[i].user # e.user, e.profile >= known[e.user]
    PROVE  CacheFits(Append(c, e), known)
<1> DEFINE d == Append(c, e)
<1>1. c \in Seq(ProfileEntry) /\ Len(c) \in Nat
  BY DEF CacheFits
<1>2. /\ d \in Seq(ProfileEntry) /\ Len(d) = Len(c) + 1
      /\ \A i \in 1..Len(c) : d[i] = c[i]
      /\ d[Len(c) + 1] = e
  BY <1>1, AppendProperties
<1> HIDE DEF d
<1>3. \A i \in 1..Len(d) : i \in 1..Len(c) \/ i = Len(c) + 1
  BY <1>1, <1>2
<1>4. \A i \in 1..Len(d) : d[i].profile >= known[d[i].user]
  BY <1>2, <1>3 DEF CacheFits
<1>5. \A i, j \in 1..Len(d) : d[i].user = d[j].user => i = j
  BY <1>2, <1>3 DEF CacheFits
<1>6. Len(d) <= MaxEntries
  BY <1>1, <1>2, EntriesAssumption
<1> QED BY <1>2, <1>4, <1>5, <1>6 DEF CacheFits, d

\* cacheUserProfile keeps the cache within its size, with the new entry the only one
\* of its user.
LEMMA CachedFits ==
    ASSUME NEW c, NEW known, NEW now, NEW u \in Names, NEW p \in 0..MaxSaves, CacheFits(c, known),
           \A v \in Names \ {u} : now[v] = known[v], p >= now[u]
    PROVE  CacheFits(CacheUserProfile(c, u, p), now)
<1> DEFINE K == {i \in DOMAIN c : c[i].user # u /\ ~c[i].expired}
           fresh == Only(c, K)
           room == IF Len(fresh) >= MaxEntries THEN Tail(fresh) ELSE fresh
           e == [user |-> u, profile |-> p, expired |-> FALSE]
<1>1. K \in SUBSET DOMAIN c
  OBVIOUS
<1>2. \A i \in K : c[i].user \in Names \ {u}
  BY EntryTypes
<1>3. CacheUserProfile(c, u, p) = Append(room, e)
  BY DEF CacheUserProfile
<1> HIDE DEF K
<1>4. CacheFits(fresh, now) /\ \A j \in 1..Len(fresh) : fresh[j].user # u
  BY <1>1, <1>2, OnlyFits
<1> HIDE DEF fresh
<1>5. CacheFits(room, now) /\ Len(room) < MaxEntries /\ \A j \in 1..Len(room) : room[j].user # u
  <2>1. CASE Len(fresh) >= MaxEntries
    BY <2>1, <1>4, TailFits
  <2>2. CASE ~(Len(fresh) >= MaxEntries)
    <3>1. Len(fresh) \in Nat
      BY <1>4 DEF CacheFits
    <3> QED BY <2>2, <3>1, <1>4, EntriesAssumption
  <2> QED BY <2>1, <2>2
<1>6. e \in ProfileEntry /\ e.user = u /\ e.profile = p
  <2>1. ASSUME NEW b \in BOOLEAN PROVE [user |-> u, profile |-> p, expired |-> b] \in ProfileEntry
    BY DEF ProfileEntry
  <2> QED BY <2>1, Zenon
<1> HIDE DEF room, e
<1> QED BY <1>3, <1>5, <1>6, AppendFits

-----------------------------------------------------------------------------
(* ProfileCache: the invariant                                             *)

Lookup == [id : 1..MaxProfileRequests, user : Names, generation : Nat,
           at : {"queued", "sent", "answered"}, answer : 0..MaxSaves]

\* The server knows of every save this page knows of.
SavesKnown ==
    /\ saved \in [Names -> 0..MaxSaves] /\ changed \in [Names -> 0..MaxSaves]
    /\ \A u \in Names : changed[u] <= saved[u]
    /\ saves \subseteq [user : Names, profile : 0..MaxSaves]
    /\ \A s \in saves : s.profile <= saved[s.user]

\* An answer of the current generation is not behind the last change made here.
AnswersCurrent ==
    /\ profileCacheGeneration \in Nat /\ lookups \subseteq Lookup
    /\ \A l \in lookups :
         /\ l.generation <= profileCacheGeneration
         /\ l.generation = profileCacheGeneration /\ l.at = "answered" => l.answer >= changed[l.user]

\* The request a user waits for is under way and for that user.
SharedIsOwn ==
    /\ requested \in 0..MaxProfileRequests
    /\ profileRequests \in [Names -> 0..MaxProfileRequests]
    /\ \A u \in Names : profileRequests[u] # 0 =>
                           \E l \in lookups : l.id = profileRequests[u] /\ l.user = u

ProfileInv ==
    /\ SavesKnown /\ AnswersCurrent /\ SharedIsOwn /\ CacheFits(profileCache, changed)

LEMMA ProfileStarts == ProfileInit => ProfileInv
<1> SUFFICES ASSUME ProfileInit PROVE ProfileInv
  OBVIOUS
<1> USE EntriesAssumption, SavesAssumption, RequestsAssumption
<1>1. SavesKnown
  BY DEF ProfileInit, SavesKnown
<1>2. AnswersCurrent
  BY DEF ProfileInit, AnswersCurrent
<1>3. SharedIsOwn
  BY DEF ProfileInit, SharedIsOwn
<1>4. <<>> \in Seq(ProfileEntry) /\ Len(<<>>) = 0
  OBVIOUS
<1>5. CacheFits(<<>>, changed)
  BY <1>4 DEF CacheFits
<1> QED BY <1>1, <1>2, <1>3, <1>5 DEF ProfileInit, ProfileInv

\* What ProfileInv says to a reader of the cache.
LEMMA ProfileIsSafe ==
    ASSUME ProfileInv
    PROVE  ProfileTypeOK /\ CacheNotBehind /\ CacheBounded /\ SharedIsLive
<1>1. /\ profileCache \in Seq(ProfileEntry) /\ Len(profileCache) <= MaxEntries
      /\ DOMAIN profileCache = 1..Len(profileCache)
  BY DEF ProfileInv, CacheFits
<1>2. ProfileTypeOK
  BY <1>1 DEF ProfileInv, SavesKnown, AnswersCurrent, SharedIsOwn, ProfileTypeOK, ProfileEntry, Lookup
<1>3. CacheNotBehind
  BY <1>1 DEF ProfileInv, CacheFits, CacheNotBehind
<1>4. ASSUME NEW u \in Names PROVE Cardinality(Entries(u)) <= 1
  <2>1. \A i, j \in Entries(u) : i = j
    BY <1>1 DEF ProfileInv, CacheFits, Entries
  <2>2. CASE Entries(u) = {}
    BY <2>2, FS_EmptySet
  <2>3. CASE Entries(u) # {}
    <3>1. PICK i : Entries(u) = {i}
      BY <2>1, <2>3
    <3>2. Cardinality({i}) = 1
      BY FS_Singleton, Zenon
    <3> QED BY <3>1, <3>2
  <2> QED BY <2>2, <2>3
<1>5. CacheBounded
  BY <1>1, <1>4 DEF CacheBounded
<1>6. SharedIsLive
  BY DEF ProfileInv, SharedIsOwn, SharedIsLive
<1> QED BY <1>2, <1>3, <1>5, <1>6

-----------------------------------------------------------------------------
(* ProfileCache: the steps                                                 *)

LEMMA GetUserProfileKeeps ==
    ASSUME ProfileInv, NEW u \in Names, NEW refresh \in BOOLEAN, GetUserProfile(u, refresh)
    PROVE  ProfileInv'
<1> USE RequestsAssumption, SavesAssumption
<1>1. SavesKnown /\ AnswersCurrent /\ SharedIsOwn /\ CacheFits(profileCache, changed)
  BY DEF ProfileInv
<1>2. UNCHANGED <<saved, profileCacheGeneration, saves, changed>> /\ profileCache' = Forget(profileCache, u)
  BY DEF GetUserProfile
<1>3. CacheFits(profileCache', changed')
  BY <1>1, <1>2, ForgetFits
<1>4. SavesKnown'
  BY <1>1, <1>2 DEF SavesKnown
<1>5. CASE UNCHANGED <<requested, profileRequests, lookups>>
  <2>1. AnswersCurrent' /\ SharedIsOwn'
    BY <1>1, <1>2, <1>5 DEF AnswersCurrent, SharedIsOwn
  <2> QED BY <1>3, <1>4, <2>1 DEF ProfileInv
<1>6. ASSUME NEW at \in {"sent", "queued"}, requested < MaxProfileRequests, requested' = requested + 1,
             profileRequests' = [profileRequests EXCEPT ![u] = requested'],
             lookups' = lookups \union {[id |-> requested', user |-> u, answer |-> 0,
                                         generation |-> profileCacheGeneration, at |-> at]}
      PROVE  ProfileInv'
  <2> DEFINE new == [id |-> requested', user |-> u, answer |-> 0,
                     generation |-> profileCacheGeneration, at |-> at]
  <2>1. requested' \in 0..MaxProfileRequests /\ requested' # 0 /\ requested' \in 1..MaxProfileRequests
    BY <1>1, <1>6 DEF SharedIsOwn
  <2>2. new \in Lookup /\ new.at # "answered" /\ new.generation = profileCacheGeneration
        /\ new.id = requested' /\ new.user = u
    BY <1>1, <2>1 DEF Lookup, AnswersCurrent
  <2>3. lookups' = lookups \union {new}
    BY <1>6
  <2> HIDE DEF new
  <2>4. AnswersCurrent'
    BY <1>1, <1>2, <2>2, <2>3 DEF AnswersCurrent
  <2>5. profileRequests' \in [Names -> 0..MaxProfileRequests]
        /\ \A v \in Names : profileRequests'[v] = IF v = u THEN requested' ELSE profileRequests[v]
    BY <1>1, <1>6, <2>1 DEF SharedIsOwn
  <2>6. SharedIsOwn'
    BY <1>1, <2>1, <2>2, <2>3, <2>5 DEF SharedIsOwn
  <2> QED BY <1>3, <1>4, <2>4, <2>6 DEF ProfileInv
<1> QED BY <1>5, <1>6 DEF GetUserProfile

\* Requests move on: each is still there, for the same user and generation, and an
\* answer it has now is from now.
LEMMA LookupsMove ==
    ASSUME ProfileInv, FlushUserProfileBatch \/ \E l \in lookups : ServerReadsProfile(l)
    PROVE  ProfileInv'
<1> USE RequestsAssumption, SavesAssumption
<1>1. SavesKnown /\ AnswersCurrent /\ SharedIsOwn /\ CacheFits(profileCache, changed)
  BY DEF ProfileInv
<1>2. UNCHANGED <<saved, profileCache, profileRequests, profileCacheGeneration, requested, saves, changed>>
  BY DEF FlushUserProfileBatch, ServerReadsProfile
<1>3. /\ \A l \in lookups : \E k \in lookups' : k.id = l.id /\ k.user = l.user
      /\ \A k \in lookups' : \/ k \in lookups
                             \/ \E l \in lookups :
                                  /\ k \in Lookup /\ k.generation = l.generation /\ k.user = l.user
                                  /\ k.at = "answered" => k.answer = saved[k.user]
  <2>1. CASE FlushUserProfileBatch
    <3>1. lookups' = {IF l.at = "queued" THEN [l EXCEPT !.at = "sent"] ELSE l : l \in lookups}
      BY <2>1 DEF FlushUserProfileBatch
    <3>2. ASSUME NEW l \in lookups
          PROVE  LET k == [l EXCEPT !.at = "sent"]
                 IN  /\ k \in Lookup /\ k.generation = l.generation /\ k.user = l.user /\ k.id = l.id
                     /\ k.at # "answered"
      BY <1>1 DEF AnswersCurrent, Lookup
    <3>3. ASSUME NEW l \in lookups PROVE \E k \in lookups' : k.id = l.id /\ k.user = l.user
      <4> DEFINE k == IF l.at = "queued" THEN [l EXCEPT !.at = "sent"] ELSE l
      <4>1. k \in lookups' /\ k.id = l.id /\ k.user = l.user
        BY <3>1, <3>2
      <4> QED BY <4>1
    <3>4. ASSUME NEW k \in lookups', k \notin lookups
          PROVE  \E l \in lookups : /\ k \in Lookup /\ k.generation = l.generation /\ k.user = l.user
                                    /\ k.at # "answered"
      <4>1. PICK l \in lookups : k = [l EXCEPT !.at = "sent"]
        BY <3>1, <3>4
      <4> QED BY <3>2, <4>1
    <3> QED BY <3>3, <3>4
  <2>2. ASSUME NEW l \in lookups, ServerReadsProfile(l)
        PROVE  /\ \A h \in lookups : \E k \in lookups' : k.id = h.id /\ k.user = h.user
               /\ \A k \in lookups' : \/ k \in lookups
                                      \/ \E h \in lookups :
                                           /\ k \in Lookup /\ k.generation = h.generation /\ k.user = h.user
                                           /\ k.at = "answered" => k.answer = saved[k.user]
    <3> DEFINE new == [l EXCEPT !.at = "answered", !.answer = saved[l.user]]
    <3>1. lookups' = (lookups \ {l}) \union {new}
      BY <2>2 DEF ServerReadsProfile
    <3>2. /\ new \in Lookup /\ new.generation = l.generation /\ new.user = l.user /\ new.id = l.id
          /\ new.answer = saved[new.user]
      BY <1>1 DEF AnswersCurrent, Lookup, SavesKnown
    <3> HIDE DEF new
    <3> QED BY <3>1, <3>2
  <2> QED BY <2>1, <2>2
<1>4. AnswersCurrent'
  <2>1. lookups' \subseteq Lookup
    BY <1>1, <1>3 DEF AnswersCurrent
  <2>2. ASSUME NEW k \in lookups'
        PROVE  /\ k.generation <= profileCacheGeneration
               /\ k.generation = profileCacheGeneration /\ k.at = "answered" => k.answer >= changed[k.user]
    <3>1. CASE k \in lookups
      BY <3>1, <1>1 DEF AnswersCurrent
    <3>2. CASE k \notin lookups
      <4>1. PICK l \in lookups : /\ k \in Lookup /\ k.generation = l.generation /\ k.user = l.user
                                 /\ k.at = "answered" => k.answer = saved[k.user]
        BY <3>2, <1>3
      <4>2. k.user \in Names
        BY <4>1 DEF Lookup
      <4>3. saved[k.user] >= changed[k.user]
        BY <4>2, <1>1 DEF SavesKnown
      <4> QED BY <4>1, <4>3, <1>1 DEF AnswersCurrent
    <3> QED BY <3>1, <3>2
  <2> QED BY <1>1, <1>2, <2>1, <2>2 DEF AnswersCurrent
<1>5. SharedIsOwn'
  BY <1>1, <1>2, <1>3 DEF SharedIsOwn
<1>6. SavesKnown' /\ CacheFits(profileCache', changed')
  BY <1>1, <1>2 DEF SavesKnown
<1> QED BY <1>4, <1>5, <1>6 DEF ProfileInv

\* The answer is kept only if it is of the current generation; the request ends.
LEMMA LookupEndsKeeps == ASSUME ProfileInv, NEW l \in lookups, LookupEnds(l) PROVE ProfileInv'
<1> USE RequestsAssumption, SavesAssumption
<1>1. SavesKnown /\ AnswersCurrent /\ SharedIsOwn /\ CacheFits(profileCache, changed)
  BY DEF ProfileInv
<1>2. /\ lookups' = lookups \ {l}
      /\ profileRequests' = [profileRequests EXCEPT ![l.user] = IF @ = l.id THEN 0 ELSE @]
      /\ UNCHANGED <<saved, profileCacheGeneration, requested, saves, changed>>
  BY DEF LookupEnds
<1>3. l.user \in Names /\ l.answer \in 0..MaxSaves
  BY <1>1 DEF AnswersCurrent, Lookup
<1>4. CacheFits(profileCache', changed')
  <2>1. CASE l.at = "answered" /\ l.generation = profileCacheGeneration
    <3>1. profileCache' = CacheUserProfile(profileCache, l.user, l.answer)
      BY <2>1 DEF LookupEnds
    <3>2. l.answer >= changed[l.user]
      BY <2>1, <1>1 DEF AnswersCurrent
    <3> QED BY <3>1, <3>2, <1>1, <1>2, <1>3, CachedFits
  <2>2. CASE ~(l.at = "answered" /\ l.generation = profileCacheGeneration)
    BY <2>2, <1>1, <1>2 DEF LookupEnds
  <2> QED BY <2>1, <2>2
<1>5. SavesKnown' /\ AnswersCurrent'
  BY <1>1, <1>2 DEF SavesKnown, AnswersCurrent
<1>6. SharedIsOwn'
  <2>1. profileRequests' \in [Names -> 0..MaxProfileRequests]
        /\ \A u \in Names : profileRequests'[u] = IF u = l.user /\ profileRequests[u] = l.id
                                                  THEN 0 ELSE profileRequests[u]
    BY <1>1, <1>2, <1>3 DEF SharedIsOwn
  <2>2. ASSUME NEW u \in Names, profileRequests'[u] # 0
        PROVE  \E k \in lookups' : k.id = profileRequests'[u] /\ k.user = u
    <3>1. profileRequests'[u] = profileRequests[u] /\ ~(u = l.user /\ profileRequests[u] = l.id)
      BY <2>1, <2>2
    <3>2. PICK k \in lookups : k.id = profileRequests[u] /\ k.user = u
      BY <1>1, <2>2, <3>1 DEF SharedIsOwn
    <3> QED BY <3>1, <3>2, <1>2
  <2> QED BY <2>1, <2>2, <1>1, <1>2 DEF SharedIsOwn
<1> QED BY <1>4, <1>5, <1>6 DEF ProfileInv

LEMMA EntryExpiresKeeps == ASSUME ProfileInv, NEW i \in DOMAIN profileCache, EntryExpires(i) PROVE ProfileInv'
<1>1. SavesKnown /\ AnswersCurrent /\ SharedIsOwn /\ CacheFits(profileCache, changed)
  BY DEF ProfileInv
<1>2. /\ profileCache' = [profileCache EXCEPT ![i].expired = TRUE]
      /\ UNCHANGED <<saved, profileRequests, profileCacheGeneration, lookups, requested, saves, changed>>
  BY DEF EntryExpires
<1>3. SavesKnown' /\ AnswersCurrent' /\ SharedIsOwn'
  BY <1>1, <1>2 DEF SavesKnown, AnswersCurrent, SharedIsOwn
<1>4. ASSUME NEW c \in Seq(ProfileEntry), NEW known, NEW b \in BOOLEAN, CacheFits(c, known),
             NEW k \in DOMAIN c
      PROVE  CacheFits([c EXCEPT ![k].expired = b], known)
  <2> DEFINE e == [c[k] EXCEPT !.expired = b]
             d == [c EXCEPT ![k] = e]
  <2>1. k \in 1..Len(c) /\ c[k] \in ProfileEntry
    BY <1>4, EntryTypes
  <2>2. e \in ProfileEntry /\ e.user = c[k].user /\ e.profile = c[k].profile
    BY <2>1 DEF ProfileEntry
  <2> HIDE DEF e
  <2>3. /\ d \in Seq(ProfileEntry) /\ Len(d) = Len(c)
        /\ \A j \in 1..Len(c) : d[j] = IF j = k THEN e ELSE c[j]
    BY <2>1, <2>2, ExceptSeq
  <2> HIDE DEF d
  <2>4. CacheFits(d, known)
    BY <1>4, <2>1, <2>2, <2>3 DEF CacheFits
  <2> QED BY <2>4 DEF d, e
<1>5. profileCache \in Seq(ProfileEntry) /\ TRUE \in BOOLEAN
  BY <1>1 DEF CacheFits
<1>6. CacheFits([profileCache EXCEPT ![i].expired = TRUE], changed)
  BY <1>1, <1>4, <1>5, Zenon
<1>7. CacheFits(profileCache', changed')
  BY <1>2, <1>6
<1> QED BY <1>3, <1>7 DEF ProfileInv

\* A profile is saved, here or elsewhere: nothing this page holds moves.
LEMMA SaveKeeps ==
    ASSUME ProfileInv, NEW u \in Names, SaveHere(u) \/ SaveElsewhere(u)
    PROVE  ProfileInv'
<1> USE RequestsAssumption, SavesAssumption
<1>1. SavesKnown /\ AnswersCurrent /\ SharedIsOwn /\ CacheFits(profileCache, changed)
  BY DEF ProfileInv
<1>2. /\ saved[u] < MaxSaves /\ saved' = [saved EXCEPT ![u] = @ + 1]
      /\ saves' \in {saves, saves \union {[user |-> u, profile |-> saved'[u]]}}
      /\ UNCHANGED <<profileCache, profileRequests, profileCacheGeneration, lookups, requested, changed>>
  BY DEF SaveHere, SaveElsewhere
<1>3. /\ saved' \in [Names -> 0..MaxSaves] /\ saved'[u] \in 0..MaxSaves
      /\ \A v \in Names : saved'[v] >= saved[v]
  BY <1>1, <1>2 DEF SavesKnown
<1>4. SavesKnown'
  <2> DEFINE new == [user |-> u, profile |-> saved'[u]]
  <2>1. new \in [user : Names, profile : 0..MaxSaves] /\ new.profile <= saved'[new.user]
    BY <1>3
  <2>2. saves' \in {saves, saves \union {new}}
    BY <1>2
  <2> HIDE DEF new
  <2>3. \A s \in saves : s.user \in Names /\ s.profile \in Nat /\ s.profile <= saved'[s.user]
    BY <1>1, <1>3 DEF SavesKnown
  <2> QED BY <1>1, <1>2, <1>3, <2>1, <2>2, <2>3 DEF SavesKnown
<1>5. AnswersCurrent' /\ SharedIsOwn'
  BY <1>1, <1>2 DEF AnswersCurrent, SharedIsOwn
<1> QED BY <1>1, <1>2, <1>4, <1>5 DEF ProfileInv

\* A save is answered: the generation moves on, so nothing under way is cached any more.
LEMMA AnswerKeeps ==
    ASSUME ProfileInv, NEW s \in saves, SyncUserProfile(s) \/ InvalidateUserProfile(s)
    PROVE  ProfileInv'
<1> USE RequestsAssumption, SavesAssumption
<1> DEFINE u == s.user
<1>1. SavesKnown /\ AnswersCurrent /\ SharedIsOwn /\ CacheFits(profileCache, changed)
  BY DEF ProfileInv
<1>2. /\ saves' = saves \ {s} /\ profileCacheGeneration' = profileCacheGeneration + 1
      /\ profileRequests' = [profileRequests EXCEPT ![u] = 0]
      /\ changed' = [changed EXCEPT ![u] = s.profile]
      /\ UNCHANGED <<saved, lookups, requested>>
      /\ \/ profileCache' = CacheUserProfile(profileCache, u, s.profile)
         \/ profileCache' = Forget(profileCache, u)
  BY DEF SyncUserProfile, InvalidateUserProfile, SaveAnswered
<1>3. u \in Names /\ s.profile \in 0..MaxSaves /\ s.profile <= saved[u]
  BY <1>1 DEF SavesKnown
<1> HIDE DEF u
<1>4. /\ changed' \in [Names -> 0..MaxSaves] /\ changed'[u] = s.profile
      /\ \A v \in Names \ {u} : changed'[v] = changed[v]
  BY <1>1, <1>2, <1>3 DEF SavesKnown
<1>5. SavesKnown'
  BY <1>1, <1>2, <1>3, <1>4 DEF SavesKnown
<1>6. AnswersCurrent'
  BY <1>1, <1>2 DEF AnswersCurrent, Lookup
<1>7. SharedIsOwn'
  <2>1. profileRequests' \in [Names -> 0..MaxProfileRequests]
        /\ \A v \in Names : profileRequests'[v] = IF v = u THEN 0 ELSE profileRequests[v]
    BY <1>1, <1>2, <1>3 DEF SharedIsOwn
  <2> QED BY <1>1, <1>2, <2>1 DEF SharedIsOwn
<1>8. CacheFits(profileCache', changed')
  <2>1. s.profile >= changed'[u]
    BY <1>3, <1>4
  <2>2. CacheFits(CacheUserProfile(profileCache, u, s.profile), changed')
    BY <1>1, <1>3, <1>4, <2>1, CachedFits
  <2>3. CacheFits(Forget(profileCache, u), changed')
    BY <1>1, <1>3, <1>4, ForgetFits
  <2> QED BY <1>2, <2>2, <2>3
<1> QED BY <1>5, <1>6, <1>7, <1>8 DEF ProfileInv

LEMMA ClearKeeps == ASSUME ProfileInv, ClearUserProfileCache PROVE ProfileInv'
<1> USE RequestsAssumption, SavesAssumption, EntriesAssumption
<1>1. SavesKnown /\ AnswersCurrent /\ SharedIsOwn
  BY DEF ProfileInv
<1>2. /\ profileCacheGeneration' = profileCacheGeneration + 1 /\ profileCache' = <<>>
      /\ profileRequests' = [u \in Names |-> 0]
      /\ UNCHANGED <<saved, lookups, requested, saves, changed>>
  BY DEF ClearUserProfileCache
<1>3. SavesKnown'
  BY <1>1, <1>2 DEF SavesKnown
<1>4. AnswersCurrent'
  BY <1>1, <1>2 DEF AnswersCurrent, Lookup
<1>5. SharedIsOwn'
  BY <1>1, <1>2 DEF SharedIsOwn
<1>6. <<>> \in Seq(ProfileEntry) /\ Len(<<>>) = 0
  OBVIOUS
<1>7. CacheFits(<<>>, changed')
  BY <1>6 DEF CacheFits
<1> QED BY <1>2, <1>3, <1>4, <1>5, <1>7 DEF ProfileInv

LEMMA ProfileStays == ASSUME ProfileInv, ProfileNext PROVE ProfileInv'
BY GetUserProfileKeeps, LookupsMove, LookupEndsKeeps, EntryExpiresKeeps, SaveKeeps, AnswerKeeps,
   ClearKeeps
   DEF ProfileNext, LookupNext

LEMMA ProfileRests == ASSUME ProfileInv, UNCHANGED profileVars PROVE ProfileInv'
<1>1. UNCHANGED <<saved, profileCache, profileRequests, profileCacheGeneration, lookups, requested, saves, changed>>
  BY DEF profileVars
<1>2. SavesKnown' /\ AnswersCurrent' /\ SharedIsOwn'
  BY <1>1 DEF ProfileInv, SavesKnown, AnswersCurrent, SharedIsOwn
<1>3. CacheFits(profileCache', changed')
  BY <1>1 DEF ProfileInv
<1> QED BY <1>2, <1>3 DEF ProfileInv

-----------------------------------------------------------------------------
(* Both                                                                    *)

IdentityInv == ShellInv /\ ProfileInv

LEMMA IdentityStarts == Init => IdentityInv
BY ShellStarts, ProfileStarts DEF Init, IdentityInv

LEMMA IdentityStays ==
    IdentityInv /\ [Next]_vars =>
        IdentityInv' /\ [navProfile' # navProfile => navProfile' \in {Nobody, auth'}]_shellVars
<1> SUFFICES ASSUME IdentityInv, [Next]_vars
             PROVE  IdentityInv' /\ (UNCHANGED shellVars \/ navProfile' \in {navProfile, Nobody, auth'})
  BY Zenon
<1>1. ShellInv /\ ProfileInv
  BY DEF IdentityInv
<1>2. CASE ShellNext /\ UNCHANGED profileVars
  BY <1>1, <1>2, ShellStays, ProfileRests DEF IdentityInv
<1>3. CASE ProfileNext /\ UNCHANGED shellVars
  BY <1>1, <1>3, ProfileStays, ShellRests DEF IdentityInv
<1>4. CASE UNCHANGED vars
  <2>1. UNCHANGED shellVars /\ UNCHANGED profileVars
    BY <1>4 DEF vars
  <2> QED BY <1>1, <2>1, ShellRests, ProfileRests DEF IdentityInv
<1> QED BY <1>2, <1>3, <1>4 DEF Next

\* Who is signed out is shown no page of an account, and no timer fetches for one;
\* the cache of profiles is never behind a change the page made, keeps one entry for a
\* user and its size, and no request callers share is a dead one (switchTab,
\* updateAuthUI, performLogout; getUserProfile, cacheUserProfile, syncUserProfile).
THEOREM IdentityIsSafe == Spec => []IdentitySafe
<1>1. Spec => []IdentityInv
  <2>1. IdentityInv /\ [Next]_vars => IdentityInv'
    BY IdentityStays
  <2> QED BY <2>1, IdentityStarts, PTL DEF Spec
<1>2. IdentityInv => IdentitySafe
  BY ShellTypes, ProfileIsSafe DEF IdentityInv, ShellInv, IdentitySafe
<1> QED BY <1>1, <1>2, PTL

\* The navigation bar never changes to anyone but the account signed in, whatever
\* loads and saves of earlier accounts are still under way (refreshNavProfile,
\* userProfileChanged, performLogout).
THEOREM BarIsOfSession == Spec => IdentityFollowsSession
<1>1. IdentityInv /\ [Next]_vars =>
         IdentityInv' /\ [navProfile' # navProfile => navProfile' \in {Nobody, auth'}]_shellVars
  BY IdentityStays
<1> QED BY <1>1, IdentityStarts, PTL DEF Spec, IdentityFollowsSession
=============================================================================
