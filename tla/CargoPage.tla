----------------------------- MODULE CargoPage -----------------------------
(***************************************************************************)
(* The Cargo pages of the web client (js/browser/cargo.js): the catalog of *)
(* a repository, read page by page, and the page of a package with its     *)
(* operations.  Everything is kept in variables of the JavaScript module,  *)
(* which the next route overwrites; a number per route tells the answers   *)
(* apart.                                                                  *)
(***************************************************************************)
EXTENDS Naturals, FiniteSets

CONSTANTS
    CargoRepositories,
    Crates,
    NoCrate,        \* no package, or no repository
    CatalogPages,   \* pages of a catalog
    MaxCargoRoutes, \* bound of the model on routes opened
    MaxCargoOps     \* bound of the model on operations and further pages asked for

\* An empty catalog has its first page too; the bounds are counts.
ASSUME CratesAssumption == NoCrate \notin Crates \union CargoRepositories
ASSUME CatalogAssumption == CatalogPages \in Nat \ {0}
ASSUME RoutesAssumption == MaxCargoRoutes \in Nat
ASSUME OpsAssumption == MaxCargoOps \in Nat

VARIABLES
    cargoRoute,     \* the route of the browser
    cargoSequence,  \* cargoLoadSequence
    cargoRepository,    \* activeRepository
    cargoDetails,   \* activePackageDetails
    cargoList,      \* activePackageList: repository and page of its rows
    cargoPage,      \* activeCatalogPage
    cargoView,      \* what the view shows
    cargoBusy,      \* is-updating
    cargoLoads,     \* route loads under way
    cargoMores,     \* further pages asked for
    cargoOps,       \* operations of the package page under way
    cargoLeft,      \* operations and further pages left to ask for
    cargoPast       \* history: what the view shows is the route's own answer, the failure of
                    \* its load, or something of an earlier page that came across it

cargoVars == <<cargoRoute, cargoSequence, cargoRepository, cargoDetails, cargoList, cargoPage,
               cargoView, cargoBusy, cargoLoads, cargoMores, cargoOps, cargoLeft, cargoPast>>

Hidden == [kind |-> "hidden", repository |-> NoCrate, crate |-> NoCrate]
Overview(r) == [kind |-> "overview", repository |-> r, crate |-> NoCrate]
Package(r, p) == [kind |-> "package", repository |-> r, crate |-> p]
NotFound(r) == [kind |-> "invalid", repository |-> r, crate |-> NoCrate]

CargoRoutes ==
    {Hidden} \union {Overview(r) : r \in CargoRepositories}
    \union {Package(r, p) : r \in CargoRepositories, p \in Crates}
    \union {NotFound(r) : r \in CargoRepositories}
PackageRoutes == {t \in CargoRoutes : t.kind = "package"}

\* The handlers of the page, by what they wait for and what follows.
OpKinds == {"mutate", "confirm", "delete", "transfer"}

\* A view: its kind, the package shown, the rows of the catalog, and its button for more.
Shown(k, d, rows) == [kind |-> k, details |-> d, rows |-> rows, more |-> k = "overview"]
Empty == Shown("empty", Hidden, {})

CargoTypeOK ==
    /\ cargoRoute \in CargoRoutes /\ cargoSequence \in 0..MaxCargoRoutes
    /\ cargoRepository \in CargoRepositories \union {NoCrate}
    /\ cargoDetails \in PackageRoutes \union {Hidden}
    /\ cargoList \subseteq CargoRepositories \X (1..CatalogPages)
    /\ cargoPage \in 1..CatalogPages
    /\ cargoView.kind \in {"empty", "loading", "overview", "package", "error"}
    /\ cargoBusy \in BOOLEAN /\ cargoPast \in {"own", "failed", "crossed"}
    /\ cargoLoads \subseteq [seq : 1..MaxCargoRoutes, route : CargoRoutes, stage : {"read", "animate"}]
    /\ cargoMores \subseteq [seq : 0..MaxCargoRoutes, repository : CargoRepositories,
                             page : 2..CatalogPages, id : 1..MaxCargoOps, early : BOOLEAN]
    /\ cargoOps \subseteq [kind : OpKinds, id : 1..MaxCargoOps, target : PackageRoutes,
                           path : PackageRoutes \union {Hidden}, seq : 0..MaxCargoRoutes,
                           stage : {"dialog", "request", "refresh"}]

CargoInit ==
    /\ cargoRoute = Hidden /\ cargoSequence = 0 /\ cargoRepository = NoCrate
    /\ cargoDetails = Hidden /\ cargoList = {} /\ cargoPage = 1
    /\ cargoView = Empty /\ cargoBusy = FALSE
    /\ cargoLoads = {} /\ cargoMores = {} /\ cargoOps = {}
    /\ cargoLeft = MaxCargoOps /\ cargoPast = "own"

(***************************************************************************)
(* Routes                                                                  *)
(***************************************************************************)

\* renderCargoOverview: the rows held at the moment; the details are forgotten.
RenderCargoOverview(rows) ==
    /\ cargoView' = Shown("overview", Hidden, rows)
    /\ cargoDetails' = Hidden

\* renderCargoPackagePage.
RenderCargoPackagePage(d) == cargoView' = Shown("package", d, {})

\* beginCargoRouteLoad: a skeleton only when the view is empty.
BeginCargoRouteLoad ==
    /\ cargoView' = IF cargoView.kind = "empty" THEN Shown("loading", Hidden, {}) ELSE cargoView
    /\ cargoBusy' = TRUE

\* renderCargoRepository: the number goes up and the variables are the new route's; the
\* catalog held stays until the new one has come, the details when a package follows.
OpenCargo(t) ==
    /\ t.kind # "hidden"
    /\ cargoRepository' = t.repository
    /\ IF t.kind = "invalid"
       THEN /\ cargoView' = Shown("error", Hidden, {})
            /\ UNCHANGED <<cargoDetails, cargoBusy, cargoLoads>>
       ELSE /\ BeginCargoRouteLoad
            /\ cargoDetails' = IF t.kind = "overview" THEN Hidden ELSE cargoDetails
            /\ cargoLoads' = cargoLoads \union
                   {[seq |-> cargoSequence', route |-> t, stage |-> "read"]}
    /\ UNCHANGED <<cargoList, cargoPage>>

\* hideCargoRepositoryView.
HideCargo ==
    /\ cargoRepository' = NoCrate /\ cargoDetails' = Hidden
    /\ cargoList' = {} /\ cargoPage' = 1
    /\ cargoView' = Empty /\ cargoBusy' = FALSE
    /\ UNCHANGED cargoLoads

\* A route is opened by the browser, or by a handler that has ended.
Route(t) ==
    /\ cargoSequence < MaxCargoRoutes
    /\ cargoSequence' = cargoSequence + 1
    /\ cargoRoute' = t
    /\ cargoPast' = "own"
    /\ OpenCargo(t) \/ (t = Hidden /\ HideCargo)

GoTo(t) ==
    /\ Route(t)
    /\ UNCHANGED <<cargoMores, cargoOps, cargoLeft>>

\* Mutant of CurrentCargo: the number is not compared.
AnyCargo(seq) == seq \in 0..cargoSequence

CurrentCargo(seq) == seq = cargoSequence

\* The answer the route asked for is still to come.
Awaited == \E l \in cargoLoads : l.seq = cargoSequence /\ l.stage = "read"

\* The answer to loadCargoCatalog replaces the rows held.
CatalogArrives(l) ==
    /\ cargoList' = {<<l.route.repository, 1>>}
    /\ cargoPage' = 1
    /\ RenderCargoOverview(cargoList')

\* The answer to loadCargoPackage.
PackageArrives(l) ==
    /\ cargoDetails' = l.route
    /\ RenderCargoPackagePage(l.route)
    /\ UNCHANGED <<cargoList, cargoPage>>

\* loadCargoOverview and loadCargoPackage after their request: an overtaken one returns.
LoadArrives(l) ==
    /\ l.stage = "read"
    /\ IF CurrentCargo(l.seq)
       THEN /\ cargoLoads' = (cargoLoads \ {l}) \union {[l EXCEPT !.stage = "animate"]}
            /\ IF l.route.kind = "overview" THEN CatalogArrives(l) ELSE PackageArrives(l)
            /\ cargoPast' = "own"
       ELSE /\ cargoLoads' = cargoLoads \ {l}
            /\ UNCHANGED <<cargoDetails, cargoList, cargoPage, cargoView, cargoPast>>
    /\ UNCHANGED <<cargoRoute, cargoSequence, cargoRepository, cargoBusy, cargoMores, cargoOps,
                   cargoLeft>>

\* Mutant of LoadFails: the view stays busy.
LoadFailsBusy(l) ==
    /\ l.stage = "read"
    /\ cargoLoads' = cargoLoads \ {l}
    /\ IF CurrentCargo(l.seq)
       THEN cargoView' = Shown("error", Hidden, {}) /\ cargoPast' = "failed" /\ UNCHANGED cargoBusy
       ELSE UNCHANGED <<cargoView, cargoBusy, cargoPast>>
    /\ UNCHANGED <<cargoRoute, cargoSequence, cargoRepository, cargoDetails, cargoList, cargoPage,
                   cargoMores, cargoOps, cargoLeft>>

LoadFails(l) ==
    /\ l.stage = "read"
    /\ cargoLoads' = cargoLoads \ {l}
    /\ IF CurrentCargo(l.seq)
       THEN cargoView' = Shown("error", Hidden, {}) /\ cargoBusy' = FALSE /\ cargoPast' = "failed"
       ELSE UNCHANGED <<cargoView, cargoBusy, cargoPast>>
    /\ UNCHANGED <<cargoRoute, cargoSequence, cargoRepository, cargoDetails, cargoList, cargoPage,
                   cargoMores, cargoOps, cargoLeft>>

\* The animation of replaceRepositoryView ends: the view is no longer busy, whoever made
\* it so.
Animated(l) ==
    /\ l.stage = "animate"
    /\ cargoLoads' = cargoLoads \ {l}
    /\ cargoBusy' = FALSE
    /\ UNCHANGED <<cargoRoute, cargoSequence, cargoRepository, cargoDetails, cargoList, cargoPage,
                   cargoView, cargoMores, cargoOps, cargoLeft, cargoPast>>

\* The cached page is built again when the language changes.
CargoLanguageChanged ==
    /\ cargoRoute # Hidden
    /\ \/ /\ cargoView.kind = "package" /\ cargoDetails # Hidden
          /\ RenderCargoPackagePage(cargoDetails) /\ UNCHANGED cargoDetails
       \/ cargoView.kind = "overview" /\ RenderCargoOverview(cargoList)
    /\ UNCHANGED <<cargoRoute, cargoSequence, cargoRepository, cargoList, cargoPage, cargoBusy,
                   cargoLoads, cargoMores, cargoOps, cargoLeft, cargoPast>>

(***************************************************************************)
(* Further pages of the catalog                                            *)
(***************************************************************************)

\* loadMoreCargoPackages, unless every page is held (a page past the last would be empty, and
\* is not asked for here); its button is disabled until the rows are built again.
LoadMoreCargoPackages ==
    /\ cargoView.kind = "overview" /\ cargoView.more /\ cargoLeft > 0
    /\ Cardinality(cargoList) < CatalogPages /\ cargoPage < CatalogPages
    /\ cargoRepository # NoCrate
    /\ cargoMores' = cargoMores \union
           {[seq |-> cargoSequence, repository |-> cargoRepository, page |-> cargoPage + 1,
             id |-> cargoLeft, early |-> Awaited]}
    /\ cargoView' = [cargoView EXCEPT !.more = FALSE]
    /\ cargoBusy' = TRUE /\ cargoLeft' = cargoLeft - 1
    /\ UNCHANGED <<cargoRoute, cargoSequence, cargoRepository, cargoDetails, cargoList, cargoPage,
                   cargoLoads, cargoOps, cargoPast>>

\* The page asked for is added to the rows, those of the page before it included when it was
\* asked for early; a failure is reported.  Either way the view is released by the route that
\* asked.
MoreArrives(m) ==
    /\ cargoMores' = cargoMores \ {m}
    /\ IF CurrentCargo(m.seq)
       THEN /\ cargoBusy' = FALSE
            /\ \/ /\ cargoPage' = m.page
                  /\ cargoList' = cargoList \union {<<m.repository, m.page>>}
                  /\ RenderCargoOverview(cargoList')
                  /\ cargoPast' = IF m.early THEN "crossed" ELSE cargoPast
               \/ /\ cargoView' = [cargoView EXCEPT !.more = @ \/ cargoView.kind = "overview"]
                  /\ UNCHANGED <<cargoPage, cargoList, cargoDetails, cargoPast>>
       ELSE UNCHANGED <<cargoBusy, cargoPage, cargoList, cargoView, cargoDetails, cargoPast>>
    /\ UNCHANGED <<cargoRoute, cargoSequence, cargoRepository, cargoLoads, cargoOps, cargoLeft>>

(***************************************************************************)
(* Operations of the package page                                          *)
(***************************************************************************)

\* handleCargoPageClick and the team's controls: an operation without a question is sent
\* at once, the others ask first.  A page still shown while the route's answer is awaited is
\* one of an earlier route.
ClickOperation(k) ==
    /\ cargoView.kind = "package" /\ cargoDetails # Hidden /\ cargoLeft > 0
    /\ cargoRepository # NoCrate
    /\ LET at == Package(cargoRepository, cargoDetails.crate)
       IN  cargoOps' = cargoOps \union
               {[kind |-> k, id |-> cargoLeft, target |-> cargoView.details,
                 path |-> IF k = "mutate" THEN at ELSE Hidden,
                 seq |-> IF Awaited THEN cargoSequence - 1 ELSE cargoSequence,
                 stage |-> IF k = "mutate" THEN "request" ELSE "dialog"]}
    /\ cargoLeft' = cargoLeft - 1
    /\ UNCHANGED <<cargoRoute, cargoSequence, cargoRepository, cargoDetails, cargoList, cargoPage,
                   cargoView, cargoBusy, cargoLoads, cargoMores, cargoPast>>

\* The question is answered.  The path of the request is built now, from the repository of
\* the moment, and by a transfer from the package of the moment too.
AnswerQuestion(o) ==
    /\ o.stage = "dialog"
    /\ LET crate == IF o.kind = "transfer" THEN cargoDetails.crate ELSE o.target.crate
       IN  \/ cargoOps' = cargoOps \ {o}
           \/ /\ crate # NoCrate /\ cargoRepository # NoCrate
              /\ cargoOps' = (cargoOps \ {o}) \union
                     {[o EXCEPT !.stage = "request", !.path = Package(cargoRepository, crate)]}
    /\ UNCHANGED <<cargoRoute, cargoSequence, cargoRepository, cargoDetails, cargoList, cargoPage,
                   cargoView, cargoBusy, cargoLoads, cargoMores, cargoLeft, cargoPast>>

\* The operation failed, or succeeded with no package to refresh.
OperationEnds(o) ==
    /\ o.stage = "request"
    /\ cargoOps' = cargoOps \ {o}
    /\ UNCHANGED <<cargoRoute, cargoSequence, cargoRepository, cargoDetails, cargoList, cargoPage,
                   cargoView, cargoBusy, cargoLoads, cargoMores, cargoLeft, cargoPast>>

\* A deletion of the package, and leaving its team, open the catalog.
DeletedPackage(o) ==
    /\ o.stage = "request" /\ o.kind = "delete" /\ cargoRepository # NoCrate
    /\ Route(Overview(cargoRepository))
    /\ cargoOps' = cargoOps \ {o}
    /\ UNCHANGED <<cargoMores, cargoLeft>>

\* refreshCargoPackagePage, up to its request.
RefreshCargoPackage(o) ==
    /\ o.stage = "request" /\ o.kind # "delete" /\ cargoDetails # Hidden
    /\ cargoOps' = (cargoOps \ {o}) \union
           {[o EXCEPT !.stage = "refresh", !.path = Package(cargoRepository, cargoDetails.crate)]}
    /\ cargoRepository # NoCrate
    /\ UNCHANGED <<cargoRoute, cargoSequence, cargoRepository, cargoDetails, cargoList, cargoPage,
                   cargoView, cargoBusy, cargoLoads, cargoMores, cargoLeft, cargoPast>>

\* Its answer is shown, whatever the route has become; a failure is reported.
RefreshArrives(o) ==
    /\ o.stage = "refresh"
    /\ cargoOps' = cargoOps \ {o}
    /\ \/ /\ cargoDetails' = o.path /\ RenderCargoPackagePage(o.path)
          /\ cargoPast' = IF o.seq = cargoSequence THEN cargoPast ELSE "crossed"
       \/ UNCHANGED <<cargoDetails, cargoView, cargoPast>>
    /\ UNCHANGED <<cargoRoute, cargoSequence, cargoRepository, cargoList, cargoPage, cargoBusy,
                   cargoLoads, cargoMores, cargoLeft>>

CargoNext ==
    \/ \E t \in CargoRoutes : GoTo(t)
    \/ \E l \in cargoLoads : LoadArrives(l) \/ LoadFails(l) \/ Animated(l)
    \/ CargoLanguageChanged
    \/ LoadMoreCargoPackages
    \/ \E m \in cargoMores : MoreArrives(m)
    \/ \E k \in OpKinds : ClickOperation(k)
    \/ \E o \in cargoOps : \/ AnswerQuestion(o) \/ OperationEnds(o) \/ DeletedPackage(o)
                           \/ RefreshCargoPackage(o) \/ RefreshArrives(o)

\* Requests are answered, or fail, and animations end.
CargoFairness ==
    /\ WF_cargoVars(\E l \in cargoLoads : LoadArrives(l) \/ LoadFails(l) \/ Animated(l))
    /\ WF_cargoVars(\E m \in cargoMores : MoreArrives(m))

(***************************************************************************)
(* Properties                                                              *)
(***************************************************************************)

\* Once the route's own request is answered the view shows the route the browser is at, or
\* the error of its load, in whatever order the answers to the routes before it come, and
\* whatever operations and further pages were under way when the route changed - until an
\* answer the code does not tell from the route's own is shown over it: the package read again
\* after an operation of an earlier page, or a further page asked for before the route's
\* answer came.  The next route or answer ends that.  The code does not exclude the two: see
\* the README, section 7.
CargoShowsRoute ==
    ~Awaited /\ cargoPast # "crossed" =>
        IF cargoPast = "failed" THEN cargoView.kind = "error"
        ELSE CASE cargoRoute.kind = "hidden"   -> cargoView = Empty
               [] cargoRoute.kind = "invalid"  -> cargoView.kind = "error"
               [] cargoRoute.kind = "overview" -> cargoView.kind = "overview"
               [] OTHER -> cargoView.kind = "package" /\ cargoView.details = cargoRoute

\* The catalog shown for a route that is answered has every page up to some last one, all of
\* its own repository: no page is skipped, or left of the repository visited before, by a page
\* asked for on an earlier route either.  The page to ask for next is one of them or the one
\* after, although an answer that comes late may set it back.  Excepted is the catalog over
\* which a page asked for before the route's answer was added.
CargoCatalogWhole ==
    ~Awaited /\ cargoPast = "own" /\ cargoView.kind = "overview" =>
        \E last \in cargoPage..CatalogPages :
            cargoView.rows = {<<cargoRoute.repository, n>> : n \in 1..last}

\* The view does not stay busy (a route that is not found leaves the flag as it is).
CargoBusyEnds == []<>(~cargoBusy \/ cargoRoute.kind = "invalid")

\* An operation is sent for the package the page showed when its button was pressed, as the
\* comments say of the questions asked first ("after explicit confirmation").
\* The code does not keep this: see the README, section 7.
CargoTargets == \A o \in cargoOps : o.stage = "request" => o.path = o.target

CargoSpec == CargoInit /\ [][CargoNext]_cargoVars /\ CargoFairness
=============================================================================
