---------------------------- MODULE TicketCenter ----------------------------
(***************************************************************************)
(* The ticket center of the web client (js/tickets.js): the filtered and   *)
(* paged list of tickets, the page of one ticket and decisions on it.       *)
(***************************************************************************)
EXTENDS Naturals, FiniteSets

CONSTANTS
    Tickets,            \* 1..n
    Reviewers,          \* accounts that use this browser
    TicketPage,         \* pageSize
    MaxTicketLoads      \* bound of the model on loadGeneration

\* A page holds a ticket at least; the bound is a count.
ASSUME TicketsAssumption == IsFiniteSet(Tickets) /\ Tickets \subseteq Nat \ {0}
ASSUME TicketPageAssumption == TicketPage \in Nat \ {0}
ASSUME TicketLoadsAssumption == MaxTicketLoads \in Nat

Filters == {"all", "unprocessed"}   \* of activeView, activeStatus and activeTypes
NoTicket == 0
Routes == {<<"list">>} \union ({"ticket"} \X Tickets)

VARIABLES
    undecided,          \* the tickets open at the server
    reviewer,           \* the account that is signed in
    ticketRoute,        \* whether the page is left, shows the list, or which ticket
    listOwner,
    activeFilter,
    chosenBy,           \* the account that chose activeFilter and the page
    pageOffset,         \* in pages
    loadGeneration,
    ticketLoads,        \* calls of loadTasks and loadTicketDetail that wait
    pageShows,          \* what #review-page-content shows
    decisions           \* tickets whose decision is under way

ticketVars == <<undecided, reviewer, ticketRoute, listOwner, activeFilter, chosenBy, pageOffset,
                loadGeneration, ticketLoads, pageShows, decisions>>
filterVars == <<reviewer, listOwner, activeFilter, chosenBy>>

Loads == [gen : 1..MaxTicketLoads, ticket : Tickets \union {NoTicket},
          step : {"enter", "sent", "messages"}, filter : Filters, page : Nat]
Contents == [kind : {"nothing", "loading", "list", "ticket", "error"},
             of : Tickets \union {NoTicket}, last : BOOLEAN, past : BOOLEAN]

TicketTypeOK ==
    /\ undecided \subseteq Tickets /\ decisions \subseteq Tickets
    /\ {reviewer, listOwner, chosenBy} \subseteq Reviewers
    /\ ticketRoute \in {<<"away">>} \union Routes
    /\ activeFilter \in Filters /\ pageOffset \in Nat
    /\ loadGeneration \in 0..MaxTicketLoads
    /\ ticketLoads \subseteq Loads
    /\ pageShows \in Contents

TicketInit ==
    /\ undecided = Tickets /\ decisions = {}
    /\ reviewer \in Reviewers /\ listOwner = reviewer /\ chosenBy = reviewer
    /\ ticketRoute = <<"away">>
    /\ activeFilter = "all" /\ pageOffset = 0
    /\ loadGeneration = 0 /\ ticketLoads = {}
    /\ pageShows = [kind |-> "nothing", of |-> NoTicket, last |-> TRUE, past |-> FALSE]

Matching(filter) == IF filter = "all" THEN Tickets ELSE undecided
Pages(filter) == (Cardinality(Matching(filter)) + TicketPage - 1) \div TicketPage

Loading(ticket) == [kind |-> "loading", of |-> ticket, last |-> TRUE, past |-> FALSE]

\* A call of loadTasks (NoTicket) or loadTicketDetail numbers itself and shows that it loads.
StartLoad(ticket) ==
    /\ loadGeneration < MaxTicketLoads
    /\ loadGeneration' = loadGeneration + 1
    /\ ticketLoads' = ticketLoads \union
           {[gen |-> loadGeneration', ticket |-> ticket, filter |-> "all", page |-> 0,
             step |-> IF ticket = NoTicket THEN "enter" ELSE "sent"]}
    /\ pageShows' = Loading(ticket)

(***************************************************************************)
(* Routes, filters and pages                                               *)
(***************************************************************************)

\* Another account signs in; the shell has left the page meanwhile.
SignIn(r) ==
    /\ r # reviewer /\ reviewer' = r /\ ticketRoute' = <<"away">>
    /\ UNCHANGED <<undecided, listOwner, activeFilter, chosenBy, pageOffset, loadGeneration,
                   ticketLoads, pageShows, decisions>>

\* openTicketCenter: the default filters, for this account.
OpenTicketCenter ==
    /\ ticketRoute' = <<"list">>
    /\ listOwner' = reviewer /\ activeFilter' = "all" /\ chosenBy' = reviewer /\ pageOffset' = 0
    /\ StartLoad(NoTicket)
    /\ UNCHANGED <<undecided, reviewer, decisions>>

\* loadTicketCenterPage: a ticket path is visited, or the language changes; another
\* account finds the default filters.
LoadTicketCenterPage(route) ==
    /\ ticketRoute' = route
    /\ IF reviewer # listOwner
       THEN /\ listOwner' = reviewer /\ activeFilter' = "all" /\ chosenBy' = reviewer
            /\ pageOffset' = 0
       ELSE UNCHANGED <<listOwner, activeFilter, chosenBy, pageOffset>>
    /\ StartLoad(IF route = <<"list">> THEN NoTicket ELSE route[2])
    /\ UNCHANGED <<undecided, reviewer, decisions>>

\* A choice in the toolbar starts at the first page.
ChooseFilter(f) ==
    /\ ticketRoute = <<"list">> /\ f # activeFilter
    /\ activeFilter' = f /\ chosenBy' = reviewer /\ pageOffset' = 0
    /\ StartLoad(NoTicket)
    /\ UNCHANGED <<undecided, reviewer, ticketRoute, listOwner, decisions>>

\* The pager, whose buttons are off at the ends.
TurnPage(next) ==
    /\ ticketRoute = <<"list">> /\ pageShows.kind = "list"
    /\ IF next THEN ~pageShows.last ELSE pageOffset > 0
    /\ pageOffset' = IF next THEN pageOffset + 1 ELSE pageOffset - 1
    /\ chosenBy' = reviewer
    /\ StartLoad(NoTicket)
    /\ UNCHANGED <<undecided, reviewer, ticketRoute, listOwner, activeFilter, decisions>>

\* openTicket, from a card of the list.
OpenTicket(t) ==
    /\ ticketRoute = <<"list">> /\ pageShows.kind = "list"
    /\ ticketRoute' = <<"ticket", t>>
    /\ StartLoad(t)
    /\ UNCHANGED <<undecided, pageOffset, decisions>> /\ UNCHANGED filterVars

(***************************************************************************)
(* Answers                                                                 *)
(***************************************************************************)

\* loadTasks sends its query after the loading surface is in place, with the filters and
\* the page of that moment.
SendQuery(l) ==
    /\ l.step = "enter"
    /\ ticketLoads' = (ticketLoads \ {l}) \union
           {[l EXCEPT !.step = "sent", !.filter = activeFilter, !.page = pageOffset]}
    /\ UNCHANGED <<undecided, ticketRoute, pageOffset, loadGeneration, pageShows, decisions>>
    /\ UNCHANGED filterVars

ShowList(l) ==
    [kind |-> "list", of |-> NoTicket, last |-> l.page + 1 >= Pages(l.filter),
     past |-> l.page > 0 /\ l.page >= Pages(l.filter)]

\* Mutant of TasksArrive: the last page is taken for the one after it.
TasksArriveOffByOne(l) ==
    /\ l.ticket = NoTicket /\ l.step = "sent"
    /\ IF l.gen # loadGeneration
       THEN ticketLoads' = ticketLoads \ {l} /\ UNCHANGED <<pageOffset, pageShows>>
       ELSE IF pageOffset > 0 /\ pageOffset >= Pages(l.filter)
       THEN /\ pageOffset' = Pages(l.filter)
            /\ ticketLoads' = (ticketLoads \ {l}) \union {[l EXCEPT !.step = "enter"]}
            /\ pageShows' = Loading(NoTicket)
       ELSE /\ ticketLoads' = ticketLoads \ {l}
            /\ pageShows' = ShowList(l)
            /\ UNCHANGED pageOffset
    /\ UNCHANGED <<loadGeneration, undecided, ticketRoute, decisions>> /\ UNCHANGED filterVars

\* Mutant of TasksArrive: the answer that comes last is shown.
TasksArriveLast(l) ==
    /\ l.ticket = NoTicket /\ l.step = "sent"
    /\ ticketLoads' = ticketLoads \ {l}
    /\ pageShows' = ShowList(l)
    /\ UNCHANGED <<pageOffset, loadGeneration, undecided, ticketRoute, decisions>>
    /\ UNCHANGED filterVars

\* The answer of loadTasks.  Only the latest call goes on; a page that has fallen off the
\* end is replaced by the last one, which is loaded in turn (under the same number here:
\* no other call has it).
TasksArrive(l) ==
    /\ l.ticket = NoTicket /\ l.step = "sent"
    /\ IF l.gen # loadGeneration
       THEN ticketLoads' = ticketLoads \ {l} /\ UNCHANGED <<pageOffset, loadGeneration, pageShows>>
       ELSE IF pageOffset > 0 /\ pageOffset >= Pages(l.filter)
       THEN /\ pageOffset' = IF Pages(l.filter) = 0 THEN 0 ELSE Pages(l.filter) - 1
            /\ UNCHANGED loadGeneration
            /\ ticketLoads' = (ticketLoads \ {l}) \union {[l EXCEPT !.step = "enter"]}
            /\ pageShows' = Loading(NoTicket)
       ELSE /\ ticketLoads' = ticketLoads \ {l}
            /\ pageShows' = ShowList(l)
            /\ UNCHANGED <<pageOffset, loadGeneration>>
    /\ UNCHANGED <<undecided, ticketRoute, decisions>> /\ UNCHANGED filterVars

\* The ticket arrives, then the first page of its messages; each answer counts only for
\* the latest call.
TicketArrives(l) ==
    /\ l.ticket # NoTicket
    /\ IF l.gen # loadGeneration
       THEN ticketLoads' = ticketLoads \ {l} /\ UNCHANGED pageShows
       ELSE IF l.step = "sent"
       THEN ticketLoads' = (ticketLoads \ {l}) \union {[l EXCEPT !.step = "messages"]}
            /\ UNCHANGED pageShows
       ELSE /\ ticketLoads' = ticketLoads \ {l}
            /\ pageShows' = [kind |-> "ticket", of |-> l.ticket, last |-> TRUE, past |-> FALSE]
    /\ UNCHANGED <<undecided, ticketRoute, pageOffset, loadGeneration, decisions>>
    /\ UNCHANGED filterVars

\* A request fails, which the latest call shows; or it is denied, and the shell leaves
\* the page whichever call it was.
LoadDenied(l) ==
    /\ l.step # "enter"
    /\ ticketLoads' = ticketLoads \ {l}
    /\ \/ /\ pageShows' = IF l.gen # loadGeneration THEN pageShows
                          ELSE [kind |-> "error", of |-> l.ticket, last |-> TRUE, past |-> FALSE]
          /\ UNCHANGED ticketRoute
       \/ ticketRoute' = <<"away">> /\ UNCHANGED pageShows
    /\ UNCHANGED <<undecided, pageOffset, loadGeneration, decisions>>
    /\ UNCHANGED filterVars

(***************************************************************************)
(* Decisions                                                               *)
(***************************************************************************)

\* A button of the page of a ticket, confirmed (submitDecision).
Decision(t) ==
    /\ pageShows.kind = "ticket" /\ pageShows.of = t /\ ticketRoute = <<"ticket", t>>
    /\ t \in undecided \ decisions
    /\ decisions' = decisions \union {t}
    /\ undecided' = undecided \ {t}
    /\ UNCHANGED <<ticketRoute, pageOffset, loadGeneration, ticketLoads, pageShows>>
    /\ UNCHANGED filterVars

\* Another reviewer decides (decideTask).
DecidedElsewhere(t) ==
    /\ t \in undecided /\ undecided' = undecided \ {t}
    /\ UNCHANGED <<ticketRoute, pageOffset, loadGeneration, ticketLoads, pageShows, decisions>>
    /\ UNCHANGED filterVars

\* The answer: the list is loaded, at the path of the ticket or wherever the page is now.
DecisionAnswered(t) ==
    /\ decisions' = decisions \ {t}
    /\ \/ StartLoad(NoTicket)
       \/ UNCHANGED <<loadGeneration, ticketLoads, pageShows>>
    /\ UNCHANGED <<undecided, ticketRoute, pageOffset>> /\ UNCHANGED filterVars

TicketNext ==
    \/ \E r \in Reviewers : SignIn(r)
    \/ OpenTicketCenter
    \/ \E route \in Routes : LoadTicketCenterPage(route)
    \/ \E f \in Filters : ChooseFilter(f)
    \/ \E next \in BOOLEAN : TurnPage(next)
    \/ \E l \in ticketLoads : SendQuery(l) \/ TasksArrive(l) \/ TicketArrives(l) \/ LoadDenied(l)
    \/ \E t \in Tickets : OpenTicket(t) \/ Decision(t) \/ DecidedElsewhere(t)
    \/ \E t \in decisions : DecisionAnswered(t)

\* Requests are answered and transitions end.
TicketFairness ==
    WF_ticketVars(\E l \in ticketLoads : SendQuery(l) \/ TasksArrive(l) \/ TicketArrives(l)
                                            \/ LoadDenied(l))

(***************************************************************************)
(* Properties                                                              *)
(***************************************************************************)

\* While the latest call waits the page says so and nothing else, and once it has been
\* answered the page does not go on loading unless the shell has left it: no answer to an
\* earlier call shows, whatever the order (loadGeneration).
TicketPageIsLatest ==
    LET latest == {l \in ticketLoads : l.gen = loadGeneration}
    IN  IF latest = {} THEN pageShows.kind # "loading" \/ ticketRoute = <<"away">>
        ELSE \A l \in latest : pageShows.kind = "loading" /\ pageShows.of = l.ticket

\* No page past the end is shown, although tickets leave the list while its pages are
\* turned.
PageExists == ~pageShows.past

\* Whoever signs in next does not get the filters and the page of the account before.
FiltersOfOwner == ticketRoute = <<"list">> => chosenBy = reviewer

\* The loading surface gives way to a list, a ticket or a message, or the page is left.
TicketLoadEnds == []<>(pageShows.kind # "loading" \/ ticketRoute = <<"away">>)

TicketSpec == TicketInit /\ [][TicketNext]_ticketVars /\ TicketFairness
=============================================================================
