--------------------------- MODULE MC_ClientPages ---------------------------
(***************************************************************************)
(* The pages of the web client that read and change what the server has,   *)
(* for TLC.  A behaviour exercises one of them, chosen at the start.       *)
(***************************************************************************)
EXTENDS DirectoryView, MessageCenter, TicketCenter, CargoPage, TLC

CONSTANTS home, d1, p1, p2, r1, r2, ann, bob

VARIABLE component

\* A directory of one repository, and two of another whose format shows the first itself.
TwoRepositories == d1 :> r1 @@ p1 :> r2 @@ p2 :> r2

vars == <<component, directoryVars, messageVars, ticketVars, cargoVars>>

\* One initial state of the components that rest is enough.
Init ==
    /\ component \in {"directory", "messages", "tickets", "cargo"}
    /\ DirectoryInit /\ MessageInit /\ TicketInit /\ CargoInit
    /\ component # "tickets" => reviewer = ann

Next ==
    /\ UNCHANGED component
    /\ \/ /\ component = "directory" /\ DirectoryNext
          /\ UNCHANGED <<messageVars, ticketVars, cargoVars>>
       \/ /\ component = "messages" /\ MessageNext
          /\ UNCHANGED <<directoryVars, ticketVars, cargoVars>>
       \/ /\ component = "tickets" /\ TicketNext
          /\ UNCHANGED <<directoryVars, messageVars, cargoVars>>
       \/ /\ component = "cargo" /\ CargoNext
          /\ UNCHANGED <<directoryVars, messageVars, ticketVars>>

\* The fairness of a component that rests asks for nothing.
Spec ==
    /\ Init /\ [][Next]_vars
    /\ DirectoryFairness /\ MessageFairness /\ TicketFairness /\ CargoFairness

-----------------------------------------------------------------------------
(* Properties *)

\* What a directory or ticket page shows belongs to the newest load, the person and the filters
\* it shows them under, whatever the order of the answers (browser.js, tickets.js); there is one
\* poller of messages and a page lists a message once (messages.js).  A Cargo page shows its
\* route once the route's own answer came, but for two cases that last until the next route's
\* answer: the refresh that ends an operation of a page left meanwhile, and a further page of
\* the catalog asked for before the route's answer (browser/cargo.js:1470-1505; README,
\* section 7).
PagesSafe ==
    /\ DirectoryTypeOK /\ ViewIsLatest /\ NoCardAtHome
    /\ MessageTypeOK /\ OnePoller /\ ListedOnce
    /\ TicketTypeOK /\ TicketPageIsLatest /\ PageExists /\ FiltersOfOwner
    /\ CargoTypeOK /\ CargoShowsRoute /\ CargoCatalogWhole

\* No page stays loading or busy, and the badge of unread messages becomes right again after
\* polls that failed.
PagesProgress ==
    /\ LoadingEnds
    /\ BadgeRecovers /\ FetchEnds /\ ClearEnds
    /\ TicketLoadEnds
    /\ CargoBusyEnds
=============================================================================
