------------------------- MODULE ClientPages_proofs -------------------------
(***************************************************************************)
(* What the pages of the web client show and hold, for any directories,    *)
(* messages, tickets and packages and every bound: PagesSafe, conjunct by  *)
(* conjunct.                                                               *)
(***************************************************************************)
EXTENDS MC_ClientPages, FiniteSetTheorems, SequenceTheorems, TLAPS

-----------------------------------------------------------------------------
(* DirectoryView                                                           *)

DirectoryLoads ==
    [seq : 1..MaxLoads, to : Places, same : BOOLEAN, reuse : BOOLEAN, details : BOOLEAN,
     found : BOOLEAN, over : BOOLEAN, stats : Nat]

\* The latest call, by its number, is for the directory the browser is at.
LatestIsHere ==
    \A l \in loads : /\ l.seq <= currentLoadSeq
                     /\ l.seq = currentLoadSeq => l.to = lastDirectoryPath

\* At "/" no answer that is still under way counts for the card.
CardAnswersOverdue ==
    /\ \A l \in loads : l.stats <= statsLoadSeq
    /\ lastDirectoryPath = Home => \A l \in loads : l.details \/ l.stats < statsLoadSeq

DirectoryInv ==
    DirectoryTypeOK /\ LatestIsHere /\ ViewIsLatest /\ CardAnswersOverdue /\ NoCardAtHome

LEMMA HomeHasNoRepository == Home \in Places /\ Repository(Home) = NoRepository /\ ~CanReuse(Home)
BY DEF Places, Repository, CanReuse

LEMMA DirectoryTypes ==
    ASSUME DirectoryTypeOK
    PROVE  /\ onServer \in [Places -> SUBSET FileNames]
           /\ lastDirectoryPath \in Places /\ contentOf \in Places /\ currentLoadSeq \in 0..MaxLoads
           /\ currentLoadSeq \in Nat /\ MaxLoads \in Nat
           /\ loads \subseteq DirectoryLoads /\ rows \subseteq Rows /\ deletes \subseteq Rows
           /\ statsLoadSeq \in Nat
BY LoadsAssumption DEF DirectoryTypeOK, DirectoryLoads

LEMMA DirectoryStarts == DirectoryInit => DirectoryInv
<1> SUFFICES ASSUME DirectoryInit PROVE DirectoryInv
  OBVIOUS
<1>1. DirectoryTypeOK
  BY HomeHasNoRepository, LoadsAssumption DEF DirectoryInit, DirectoryTypeOK
<1>2. LatestIsHere /\ ViewIsLatest /\ CardAnswersOverdue /\ NoCardAtHome
  BY DEF DirectoryInit, LatestIsHere, ViewIsLatest, CardAnswersOverdue, NoCardAtHome
<1> QED BY <1>1, <1>2 DEF DirectoryInv

\* A call as its details have come, or failed with the request still under way.
LEMMA LoadGoesOn ==
    ASSUME NEW l \in DirectoryLoads, NEW b \in BOOLEAN, NEW c \in BOOLEAN
    PROVE  /\ LET k == [l EXCEPT !.details = b, !.found = c]
              IN  /\ k \in DirectoryLoads /\ k.seq = l.seq /\ k.to = l.to /\ k.stats = l.stats
                  /\ (k.over <=> l.over) /\ (k.details <=> b)
           /\ LET k == [l EXCEPT !.over = b]
              IN  /\ k \in DirectoryLoads /\ k.seq = l.seq /\ k.to = l.to /\ k.stats = l.stats
                  /\ (k.details <=> l.details)
<1>1. LET k == [l EXCEPT !.details = b, !.found = c]
      IN  k \in DirectoryLoads /\ k.seq = l.seq /\ k.to = l.to /\ k.stats = l.stats
  BY DEF DirectoryLoads
<1>2. LET k == [l EXCEPT !.details = b, !.found = c] IN (k.over <=> l.over) /\ (k.details <=> b)
  BY Zenon DEF DirectoryLoads
<1>3. LET k == [l EXCEPT !.over = b]
      IN  k \in DirectoryLoads /\ k.seq = l.seq /\ k.to = l.to /\ k.stats = l.stats
  BY DEF DirectoryLoads
<1>4. LET k == [l EXCEPT !.over = b] IN k.details <=> l.details
  BY Zenon DEF DirectoryLoads
<1> QED BY <1>1, <1>2, <1>3, <1>4

LEMMA LoadDirectoryKeeps == ASSUME DirectoryInv, NEW d \in Places, LoadDirectory(d) PROVE DirectoryInv'
<1>t. /\ DirectoryTypeOK /\ LatestIsHere /\ CardAnswersOverdue
      /\ loads \subseteq DirectoryLoads /\ statsLoadSeq \in Nat /\ currentLoadSeq \in Nat /\ MaxLoads \in Nat
  BY DirectoryTypes DEF DirectoryInv
<1> DEFINE l == [seq |-> currentLoadSeq', to |-> d, same |-> d = lastDirectoryPath,
                 reuse |-> CanReuse(d), details |-> CanReuse(d) \/ d = Home,
                 found |-> CanReuse(d), over |-> FALSE, stats |-> statsLoadSeq']
<1>1. /\ currentLoadSeq < MaxLoads /\ currentLoadSeq' = currentLoadSeq + 1 /\ lastDirectoryPath' = d
      /\ content' \in {content, "loading"}
      /\ currentRepository' = IF d = Home THEN NoRepository ELSE currentRepository
      /\ statsLoadSeq' = IF CanReuse(d) THEN statsLoadSeq ELSE statsLoadSeq + 1
      /\ card' = IF d = Home THEN NoRepository ELSE card
      /\ loads' = loads \union {l}
      /\ UNCHANGED <<onServer, rows, contentOf, deletes>>
  BY DEF LoadDirectory
<1>2. /\ currentLoadSeq' \in 1..MaxLoads /\ statsLoadSeq' \in Nat /\ statsLoadSeq <= statsLoadSeq'
      /\ ~CanReuse(d) => statsLoadSeq < statsLoadSeq'
  BY <1>1, <1>t
<1>3. l \in DirectoryLoads
  <2>1. CanReuse(d) \in BOOLEAN /\ (d = lastDirectoryPath) \in BOOLEAN
        /\ (CanReuse(d) \/ d = Home) \in BOOLEAN /\ FALSE \in BOOLEAN
    BY Zenon DEF CanReuse
  <2>2. ASSUME NEW a \in BOOLEAN, NEW b \in BOOLEAN, NEW c \in BOOLEAN, NEW e \in BOOLEAN
        PROVE  [seq |-> currentLoadSeq', to |-> d, same |-> a, reuse |-> b, details |-> c,
                found |-> b, over |-> e, stats |-> statsLoadSeq'] \in DirectoryLoads
    BY <1>2 DEF DirectoryLoads
  <2> QED BY <2>1, <2>2, Zenon
<1>4. l.seq = currentLoadSeq' /\ l.to = d /\ l.stats = statsLoadSeq'
  OBVIOUS
<1>5. ~l.over /\ (d = Home => l.details)
  BY Zenon
<1> HIDE DEF l
<1>6. DirectoryTypeOK'
  BY <1>1, <1>2, <1>3, <1>t, HomeHasNoRepository DEF DirectoryTypeOK, DirectoryLoads
<1>7. LatestIsHere'
  BY <1>1, <1>4, <1>t DEF LatestIsHere, DirectoryLoads
<1>8. ViewIsLatest'
  BY <1>1, <1>4, <1>5 DEF ViewIsLatest
<1>9. CardAnswersOverdue'
  <2>1. \A k \in loads : k.stats <= statsLoadSeq /\ k.stats \in Nat
    BY <1>t DEF CardAnswersOverdue, DirectoryLoads
  <2>2. \A k \in loads' : k.stats <= statsLoadSeq'
    BY <2>1, <1>1, <1>2, <1>4, <1>t
  <2>3. d = Home => \A k \in loads' : k.details \/ k.stats < statsLoadSeq'
    BY <2>1, <1>1, <1>2, <1>4, <1>5, <1>t, HomeHasNoRepository
  <2> QED BY <2>2, <2>3, <1>1 DEF CardAnswersOverdue
<1>10. NoCardAtHome'
  BY <1>1 DEF NoCardAtHome
<1> QED BY <1>6, <1>7, <1>8, <1>9, <1>10 DEF DirectoryInv

\* A call ends, or goes on as k, and the card may count it.
LEMMA LoadAnswered ==
    ASSUME DirectoryInv, NEW l \in loads, NEW k \in DirectoryLoads,
           k.seq = l.seq, k.to = l.to, k.stats = l.stats,
           k.details \/ l.stats < statsLoadSeq \/ lastDirectoryPath # Home,
           loads' \in {loads \ {l}, (loads \ {l}) \union {k}},
           UNCHANGED <<currentLoadSeq, lastDirectoryPath, onServer, deletes>>,
           rows' \subseteq Rows, content' \in {"loading", "list", "empty", "error", "view"},
           {currentRepository', card'} \subseteq {Repository(d) : d \in Places},
           \/ /\ UNCHANGED contentOf
              /\ l.seq = currentLoadSeq /\ ~l.over => k \in loads' /\ ~k.over
           \/ l.seq = currentLoadSeq /\ contentOf' = l.to,
           \/ UNCHANGED <<card, statsLoadSeq>>
           \/ /\ ~l.details /\ l.stats = statsLoadSeq
              /\ statsLoadSeq' \in {statsLoadSeq, statsLoadSeq + 1}
    PROVE  DirectoryInv'
<1>t. /\ DirectoryTypeOK /\ LatestIsHere /\ CardAnswersOverdue /\ loads \subseteq DirectoryLoads
      /\ statsLoadSeq \in Nat /\ currentLoadSeq \in Nat /\ l \in DirectoryLoads /\ l.to \in Places
  BY DirectoryTypes DEF DirectoryInv, DirectoryLoads
<1>1. \A j \in loads' : j \in loads \/ j = k
  OBVIOUS
<1>2. statsLoadSeq' \in Nat /\ statsLoadSeq <= statsLoadSeq'
  BY <1>t
<1>3. lastDirectoryPath = Home => UNCHANGED <<card, statsLoadSeq>>
  BY <1>t DEF CardAnswersOverdue
<1>4. DirectoryTypeOK'
  BY <1>1, <1>2, <1>t DEF DirectoryTypeOK, DirectoryLoads
<1>5. LatestIsHere'
  BY <1>1, <1>t DEF LatestIsHere
<1>6. ViewIsLatest'
  <2>1. CASE l.seq = currentLoadSeq /\ contentOf' = l.to
    BY <2>1, <1>t DEF ViewIsLatest, LatestIsHere
  <2>2. CASE UNCHANGED contentOf /\ (l.seq = currentLoadSeq /\ ~l.over => k \in loads' /\ ~k.over)
    <3>1. CASE l.seq = currentLoadSeq /\ ~l.over
      <4>1. k \in loads' /\ ~k.over /\ k.seq = currentLoadSeq'
        BY <2>2, <3>1
      <4> QED BY <4>1 DEF ViewIsLatest
    <3>2. CASE l.seq # currentLoadSeq \/ l.over
      BY <2>2, <3>2 DEF ViewIsLatest, DirectoryInv
    <3> QED BY <3>1, <3>2
  <2> QED BY <2>1, <2>2
<1>7. CardAnswersOverdue'
  <2>1. \A j \in loads' : j.stats <= statsLoadSeq /\ j.stats \in Nat
    BY <1>1, <1>t DEF CardAnswersOverdue, DirectoryLoads
  <2>2. \A j \in loads' : j.stats <= statsLoadSeq'
    BY <2>1, <1>2, <1>t
  <2>3. lastDirectoryPath = Home => \A j \in loads' : j.details \/ j.stats < statsLoadSeq'
    BY <1>1, <1>3, <1>t DEF CardAnswersOverdue
  <2> QED BY <2>2, <2>3 DEF CardAnswersOverdue
<1>8. NoCardAtHome'
  BY <1>3 DEF NoCardAtHome, DirectoryInv
<1> QED BY <1>4, <1>5, <1>6, <1>7, <1>8 DEF DirectoryInv

LEMMA LoadTypes ==
    ASSUME DirectoryInv, NEW l \in loads
    PROVE  /\ l \in DirectoryLoads /\ l.to \in Places /\ Repository(l.to) \in {Repository(d) : d \in Places}
           /\ NoRepository \in {Repository(d) : d \in Places}
           /\ {currentRepository, card} \subseteq {Repository(d) : d \in Places}
           /\ rows \subseteq Rows /\ content \in {"loading", "list", "empty", "error", "view"}
           /\ Rebuilt(l.to) \subseteq Rows /\ Reconciled(l.to) \subseteq Rows
           /\ loads \subseteq DirectoryLoads
<1>1. /\ l \in DirectoryLoads /\ l.to \in Places /\ rows \subseteq Rows /\ loads \subseteq DirectoryLoads
      /\ onServer \in [Places -> SUBSET FileNames]
  BY DirectoryTypes DEF DirectoryInv, DirectoryLoads
<1>2. Rebuilt(l.to) \subseteq Rows /\ Reconciled(l.to) \subseteq Rows
  BY <1>1 DEF Rebuilt, Reconciled, Rows
<1>3. Repository(l.to) \in {Repository(d) : d \in Places} /\ NoRepository \in {Repository(d) : d \in Places}
  BY <1>1, HomeHasNoRepository
<1> QED BY <1>1, <1>2, <1>3 DEF DirectoryInv, DirectoryTypeOK

LEMMA DetailsArriveKeeps == ASSUME DirectoryInv, NEW l \in loads, DetailsArrive(l) PROVE DirectoryInv'
<1>t. /\ l \in DirectoryLoads /\ Repository(l.to) \in {Repository(d) : d \in Places}
      /\ NoRepository \in {Repository(d) : d \in Places}
      /\ {currentRepository, card} \subseteq {Repository(d) : d \in Places}
      /\ rows \subseteq Rows /\ content \in {"loading", "list", "empty", "error", "view"}
  BY LoadTypes
<1>1. PICK found \in BOOLEAN :
        /\ loads' = (loads \ {l}) \union {[l EXCEPT !.details = TRUE, !.found = found]}
        /\ IF l.stats = statsLoadSeq
           THEN /\ card' = IF found THEN Repository(l.to) ELSE NoRepository
                /\ statsLoadSeq' = IF found THEN statsLoadSeq ELSE statsLoadSeq + 1
           ELSE UNCHANGED <<card, statsLoadSeq>>
  BY DEF DetailsArrive
<1>2. PICK k \in DirectoryLoads :
        /\ k = [l EXCEPT !.details = TRUE, !.found = found]
        /\ k.seq = l.seq /\ k.to = l.to /\ k.stats = l.stats /\ (k.over <=> l.over) /\ k.details
  <2>1. TRUE \in BOOLEAN
    OBVIOUS
  <2> QED BY <2>1, <1>t, LoadGoesOn, Zenon
<1>3. /\ ~l.details
      /\ UNCHANGED <<onServer, lastDirectoryPath, currentLoadSeq, currentRepository, deletes, rows,
                     content, contentOf>>
  BY DEF DetailsArrive, listVars
<1>4. loads' = (loads \ {l}) \union {k}
  BY <1>1, <1>2
<1>5. k \in loads'
  BY <1>4
<1>6. \/ UNCHANGED <<card, statsLoadSeq>>
      \/ l.stats = statsLoadSeq /\ statsLoadSeq' \in {statsLoadSeq, statsLoadSeq + 1}
  BY <1>1
<1>7. card' \in {Repository(d) : d \in Places}
  BY <1>1, <1>t
<1> QED BY <1>2, <1>3, <1>4, <1>5, <1>6, <1>7, <1>t, LoadAnswered

LEMMA LoadedKeeps == ASSUME DirectoryInv, NEW l \in loads, Loaded(l) PROVE DirectoryInv'
<1>t. /\ l \in DirectoryLoads /\ Repository(l.to) \in {Repository(d) : d \in Places}
      /\ NoRepository \in {Repository(d) : d \in Places}
      /\ {currentRepository, card} \subseteq {Repository(d) : d \in Places}
      /\ rows \subseteq Rows /\ content \in {"loading", "list", "empty", "error", "view"}
      /\ Rebuilt(l.to) \subseteq Rows /\ Reconciled(l.to) \subseteq Rows
  BY LoadTypes
<1>1. /\ l.details /\ loads' = loads \ {l}
      /\ UNCHANGED <<onServer, lastDirectoryPath, currentLoadSeq, statsLoadSeq, card, deletes>>
  BY DEF Loaded
<1>2. CASE l.over \/ l.seq # currentLoadSeq
  <2>1. UNCHANGED <<currentRepository, rows, content, contentOf>>
    BY <1>2 DEF Loaded
  <2> QED BY <1>1, <1>2, <2>1, <1>t, LoadAnswered
<1>3. CASE ~l.over /\ l.seq = currentLoadSeq
  <2>1. /\ currentRepository' = IF l.found THEN Repository(l.to) ELSE NoRepository
        /\ IF l.found /\ l.to \in HasView
           THEN content' = "view" /\ contentOf' = l.to /\ UNCHANGED rows
           ELSE ShowDirectory(l)
    BY <1>3 DEF Loaded
  <2>2. /\ rows' \subseteq Rows /\ content' \in {"loading", "list", "empty", "error", "view"}
        /\ contentOf' = l.to /\ currentRepository' \in {Repository(d) : d \in Places}
    BY <2>1, <1>t DEF ShowDirectory
  <2> QED BY <1>1, <1>3, <2>2, <1>t, LoadAnswered
<1> QED BY <1>2, <1>3

LEMMA LoadFailedKeeps == ASSUME DirectoryInv, NEW l \in loads, LoadFailed(l) PROVE DirectoryInv'
<1>t. /\ l \in DirectoryLoads /\ Repository(l.to) \in {Repository(d) : d \in Places}
      /\ NoRepository \in {Repository(d) : d \in Places}
      /\ {currentRepository, card} \subseteq {Repository(d) : d \in Places}
      /\ rows \subseteq Rows /\ content \in {"loading", "list", "empty", "error", "view"}
      /\ \A m \in loads : m.stats <= statsLoadSeq
      /\ lastDirectoryPath = Home => \A m \in loads : m.details \/ m.stats < statsLoadSeq
  BY LoadTypes DEF DirectoryInv, CardAnswersOverdue
<1>1. PICK k \in DirectoryLoads :
        /\ k = [l EXCEPT !.over = TRUE]
        /\ k.seq = l.seq /\ k.to = l.to /\ k.stats = l.stats /\ (k.details <=> l.details)
  <2>1. TRUE \in BOOLEAN
    OBVIOUS
  <2> QED BY <2>1, <1>t, LoadGoesOn, Zenon
<1>2. k.details \/ l.stats < statsLoadSeq \/ lastDirectoryPath # Home
  BY <1>1, <1>t
<1>3. /\ UNCHANGED <<onServer, lastDirectoryPath, currentLoadSeq, deletes>>
      /\ ~l.over
      /\ rows' \subseteq Rows /\ content' \in {"loading", "list", "empty", "error", "view"}
      /\ \/ UNCHANGED contentOf /\ l.seq # currentLoadSeq
         \/ l.seq = currentLoadSeq /\ contentOf' = l.to
  BY <1>t DEF LoadFailed, listVars
<1>4. CASE /\ ~l.details /\ loads' = loads \ {l} /\ UNCHANGED currentRepository
           /\ IF l.stats = statsLoadSeq
              THEN card' = NoRepository /\ statsLoadSeq' = statsLoadSeq + 1
              ELSE UNCHANGED <<card, statsLoadSeq>>
  BY <1>1, <1>2, <1>3, <1>4, <1>t, LoadAnswered
<1>5. CASE /\ loads' \in {loads \ {l}, (loads \ {l}) \union {k}}
           /\ UNCHANGED <<card, statsLoadSeq>>
           /\ currentRepository' \in {currentRepository, Repository(l.to), NoRepository}
  BY <1>1, <1>2, <1>3, <1>5, <1>t, LoadAnswered
<1>6. loads' \in {loads \ {l}, (loads \ {l}) \union {k}}
  BY <1>1 DEF LoadFailed
<1> QED BY <1>4, <1>5, <1>6 DEF LoadFailed

LEMMA DirectoryStays == ASSUME DirectoryInv, [DirectoryNext]_directoryVars PROVE DirectoryInv'
<1>t. /\ onServer \in [Places -> SUBSET FileNames] /\ rows \subseteq Rows /\ deletes \subseteq Rows
      /\ content \in {"loading", "list", "empty", "error", "view"}
      /\ {currentRepository, card} \subseteq {Repository(d) : d \in Places}
      /\ NoRepository \in {Repository(d) : d \in Places}
  BY DirectoryTypes, HomeHasNoRepository DEF DirectoryInv, DirectoryTypeOK
<1>1. ASSUME UNCHANGED <<lastDirectoryPath, currentLoadSeq, loads, statsLoadSeq, card, contentOf>>,
             onServer' \in [Places -> SUBSET FileNames], rows' \subseteq Rows, deletes' \subseteq Rows,
             content' \in {content, "empty"}, currentRepository' \in {currentRepository, NoRepository}
      PROVE  DirectoryInv'
  <2>1. DirectoryTypeOK'
    BY <1>1, <1>t DEF DirectoryInv, DirectoryTypeOK
  <2>2. LatestIsHere' /\ ViewIsLatest' /\ CardAnswersOverdue' /\ NoCardAtHome'
    BY <1>1 DEF DirectoryInv, LatestIsHere, ViewIsLatest, CardAnswersOverdue, NoCardAtHome
  <2> QED BY <2>1, <2>2 DEF DirectoryInv
<1>2. CASE SettingsChanged
  BY <1>1, <1>2, <1>t DEF SettingsChanged, listVars
<1>3. ASSUME NEW r \in rows, DeleteFile(r) PROVE DirectoryInv'
  BY <1>1, <1>3, <1>t DEF DeleteFile, listVars
<1>4. ASSUME NEW r \in deletes, FileDeleted(r) PROVE DirectoryInv'
  <2>1. [onServer EXCEPT ![r.of] = @ \ {r.name}] \in [Places -> SUBSET FileNames]
    BY <1>t
  <2> QED BY <2>1, <1>1, <1>4, <1>t DEF FileDeleted
<1>5. CASE UNCHANGED directoryVars
  BY <1>1, <1>5, <1>t DEF directoryVars
<1> QED BY <1>2, <1>3, <1>4, <1>5, LoadDirectoryKeeps, DetailsArriveKeeps, LoadedKeeps, LoadFailedKeeps
        DEF DirectoryNext

-----------------------------------------------------------------------------
(* TicketCenter                                                            *)

\* A call has a number of its own, and the latest that asks for a page asks for the one chosen.
CallsNumbered ==
    /\ \A l \in ticketLoads : l.gen <= loadGeneration
    /\ \A k, l \in ticketLoads : k.gen = l.gen => k = l
    /\ \A l \in ticketLoads :
          l.gen = loadGeneration /\ l.ticket = NoTicket /\ l.step = "sent" => l.page = pageOffset

\* The filters were chosen by the account the list was opened for, which is the one signed in
\* unless the page has been left.
ChosenByOwner == chosenBy = listOwner /\ (ticketRoute # <<"away">> => listOwner = reviewer)

TicketInv == TicketTypeOK /\ CallsNumbered /\ ChosenByOwner /\ TicketPageIsLatest /\ PageExists

LEMMA TicketsNumbered == NoTicket \notin Tickets
BY TicketsAssumption DEF NoTicket

LEMMA ContentTypes ==
    ASSUME NEW kind \in {"nothing", "loading", "list", "ticket", "error"},
           NEW t \in Tickets \union {NoTicket}, NEW last \in BOOLEAN, NEW past \in BOOLEAN
    PROVE  LET c == [kind |-> kind, of |-> t, last |-> last, past |-> past]
           IN  c \in Contents /\ c.kind = kind /\ c.of = t /\ (c.past <=> past)
<1>1. LET c == [kind |-> kind, of |-> t, last |-> last, past |-> past]
      IN  c \in Contents /\ c.kind = kind /\ c.of = t
  BY DEF Contents
<1>2. LET c == [kind |-> kind, of |-> t, last |-> last, past |-> past] IN c.past <=> past
  BY Zenon
<1> QED BY <1>1, <1>2

LEMMA PlainContents ==
    ASSUME NEW kind \in {"nothing", "loading", "list", "ticket", "error"}, NEW t \in Tickets \union {NoTicket}
    PROVE  LET c == [kind |-> kind, of |-> t, last |-> TRUE, past |-> FALSE]
           IN  c \in Contents /\ c.kind = kind /\ c.of = t /\ ~c.past
<1>1. TRUE \in BOOLEAN /\ FALSE \in BOOLEAN
  OBVIOUS
<1> QED BY <1>1, ContentTypes, Zenon

LEMMA TicketTypes ==
    ASSUME TicketTypeOK
    PROVE  /\ undecided \subseteq Tickets /\ decisions \subseteq Tickets
           /\ reviewer \in Reviewers /\ listOwner \in Reviewers /\ chosenBy \in Reviewers
           /\ ticketRoute \in {<<"away">>} \union Routes
           /\ activeFilter \in Filters /\ pageOffset \in Nat
           /\ loadGeneration \in 0..MaxTicketLoads /\ loadGeneration \in Nat /\ MaxTicketLoads \in Nat
           /\ ticketLoads \subseteq Loads /\ pageShows \in Contents
BY TicketLoadsAssumption DEF TicketTypeOK

LEMMA TicketStarts == TicketInit => TicketInv
<1> SUFFICES ASSUME TicketInit PROVE TicketInv
  OBVIOUS
<1>1. pageShows \in Contents /\ pageShows.kind = "nothing" /\ ~pageShows.past
  BY PlainContents DEF TicketInit
<1>2. TicketTypeOK
  BY <1>1, TicketLoadsAssumption DEF TicketInit, TicketTypeOK, Filters
<1>3. CallsNumbered /\ ChosenByOwner
  BY DEF TicketInit, CallsNumbered, ChosenByOwner
<1>4. TicketPageIsLatest /\ PageExists
  BY <1>1 DEF TicketInit, TicketPageIsLatest, PageExists
<1> QED BY <1>2, <1>3, <1>4 DEF TicketInv

\* What a new call leaves, whatever was chosen before it.
LEMMA TicketAsked ==
    ASSUME TicketInv, NEW t \in Tickets \union {NoTicket}, StartLoad(t),
           undecided' \subseteq Tickets, decisions' \subseteq Tickets,
           reviewer' \in Reviewers, listOwner' \in Reviewers, chosenBy' = listOwner',
           ticketRoute' \in {<<"away">>} \union Routes, ticketRoute' # <<"away">> => listOwner' = reviewer',
           activeFilter' \in Filters, pageOffset' \in Nat
    PROVE  TicketInv'
<1>t. /\ TicketTypeOK /\ CallsNumbered /\ ticketLoads \subseteq Loads
      /\ loadGeneration \in Nat /\ MaxTicketLoads \in Nat
  BY TicketTypes DEF TicketInv
<1> DEFINE l == [gen |-> loadGeneration', ticket |-> t, filter |-> "all", page |-> 0,
                 step |-> IF t = NoTicket THEN "enter" ELSE "sent"]
<1>1. /\ loadGeneration < MaxTicketLoads /\ loadGeneration' = loadGeneration + 1
      /\ ticketLoads' = ticketLoads \union {l} /\ pageShows' = Loading(t)
  BY DEF StartLoad
<1>2. loadGeneration' \in 1..MaxTicketLoads /\ loadGeneration' \in Nat
  BY <1>1, <1>t
<1>3. l \in Loads /\ l.gen = loadGeneration' /\ l.ticket = t /\ (l.step = "sent" => t # NoTicket)
  BY <1>2 DEF Loads, Filters
<1> HIDE DEF l
<1>4. pageShows' \in Contents /\ pageShows'.kind = "loading" /\ pageShows'.of = t /\ ~pageShows'.past
  BY <1>1, PlainContents DEF Loading
<1>5. \A k \in ticketLoads : k.gen \in Nat /\ k.gen <= loadGeneration
  BY <1>t DEF CallsNumbered, Loads
<1>6. \A k \in ticketLoads : k.gen # loadGeneration' /\ k.gen <= loadGeneration'
  BY <1>1, <1>2, <1>5, <1>t
<1>7. TicketTypeOK'
  BY <1>1, <1>2, <1>3, <1>4, <1>t DEF TicketTypeOK
<1>8. CallsNumbered'
  <2>1. \A k \in ticketLoads' : k.gen <= loadGeneration'
    BY <1>1, <1>2, <1>3, <1>6
  <2>2. \A j, k \in ticketLoads' : j.gen = k.gen => j = k
    BY <1>1, <1>3, <1>6, <1>t DEF CallsNumbered
  <2>3. \A k \in ticketLoads' :
            k.gen = loadGeneration' /\ k.ticket = NoTicket /\ k.step = "sent" => k.page = pageOffset'
    BY <1>1, <1>3, <1>6
  <2> QED BY <2>1, <2>2, <2>3 DEF CallsNumbered
<1>9. ChosenByOwner'
  BY DEF ChosenByOwner
<1>10. TicketPageIsLatest'
  BY <1>1, <1>3, <1>4, <1>6 DEF TicketPageIsLatest
<1>11. PageExists'
  BY <1>4 DEF PageExists
<1> QED BY <1>7, <1>8, <1>9, <1>10, <1>11 DEF TicketInv

\* A call ends, or goes on as k; only the latest changes the page.
LEMMA TicketAnswered ==
    ASSUME TicketInv, NEW l \in ticketLoads, NEW k \in Loads, k.gen = l.gen, k.ticket = l.ticket,
           k.ticket = NoTicket /\ k.step = "sent" => k.page = pageOffset',
           ticketLoads' \in {ticketLoads \ {l}, (ticketLoads \ {l}) \union {k}},
           UNCHANGED <<undecided, loadGeneration, decisions, filterVars>>,
           pageShows' \in Contents, ~pageShows'.past, pageOffset' \in Nat,
           ticketRoute' \in {ticketRoute, <<"away">>},
           l.gen # loadGeneration => UNCHANGED <<pageOffset, pageShows>>,
           l.gen = loadGeneration =>
              \/ /\ ticketLoads' = ticketLoads \ {l}
                 /\ pageShows'.kind # "loading" \/ ticketRoute' = <<"away">>
              \/ pageShows'.kind = "loading" /\ pageShows'.of = l.ticket /\ k \in ticketLoads'
    PROVE  TicketInv'
<1>t. /\ TicketTypeOK /\ CallsNumbered /\ ChosenByOwner /\ TicketPageIsLatest /\ ticketLoads \subseteq Loads
  BY TicketTypes DEF TicketInv
<1>1. \A j \in ticketLoads' : (j \in ticketLoads /\ j # l) \/ (j = k /\ k \in ticketLoads')
  OBVIOUS
<1>2. \A j \in ticketLoads : j # l => j.gen # l.gen
  BY <1>t DEF CallsNumbered
<1>3. TicketTypeOK'
  BY <1>1, <1>t DEF TicketTypeOK, filterVars
<1>4. CallsNumbered'
  <2>1. \A j \in ticketLoads' : j.gen <= loadGeneration'
    BY <1>1, <1>t DEF CallsNumbered
  <2>2. \A i, j \in ticketLoads' : i.gen = j.gen => i = j
    BY <1>1, <1>2, <1>t DEF CallsNumbered
  <2>3. ASSUME NEW j \in ticketLoads', j.gen = loadGeneration', j.ticket = NoTicket, j.step = "sent"
        PROVE  j.page = pageOffset'
    <3>1. CASE j = k
      BY <3>1, <2>3
    <3>2. CASE j \in ticketLoads /\ j # l
      <4>1. l.gen # loadGeneration
        BY <1>2, <2>3, <3>2
      <4> QED BY <4>1, <2>3, <3>2, <1>t DEF CallsNumbered
    <3> QED BY <1>1, <3>1, <3>2
  <2> QED BY <2>1, <2>2, <2>3 DEF CallsNumbered
<1>5. ChosenByOwner'
  BY <1>t DEF ChosenByOwner, filterVars
<1>6. TicketPageIsLatest'
  <2> DEFINE latest == {j \in ticketLoads : j.gen = loadGeneration}
             after == {j \in ticketLoads' : j.gen = loadGeneration}
  <2>1. CASE l.gen # loadGeneration
    <3>1. after = latest
      BY <2>1, <1>1
    <3>2. UNCHANGED pageShows
      BY <2>1
    <3> QED BY <3>1, <3>2, <1>t DEF TicketPageIsLatest
  <2>2. CASE l.gen = loadGeneration
    <3>1. \A j \in after : j = k /\ k \in ticketLoads'
      BY <2>2, <1>1, <1>2
    <3>2. CASE ticketLoads' = ticketLoads \ {l} /\ (pageShows'.kind # "loading" \/ ticketRoute' = <<"away">>)
      <4>1. after = {}
        BY <2>2, <3>2, <1>2
      <4> QED BY <3>2, <4>1 DEF TicketPageIsLatest
    <3>3. CASE pageShows'.kind = "loading" /\ pageShows'.of = l.ticket /\ k \in ticketLoads'
      <4>1. after # {}
        BY <2>2, <3>3
      <4> QED BY <3>1, <3>3, <4>1 DEF TicketPageIsLatest
    <3> QED BY <2>2, <3>2, <3>3
  <2> QED BY <2>1, <2>2
<1>7. PageExists'
  BY DEF PageExists
<1> QED BY <1>3, <1>4, <1>5, <1>6, <1>7 DEF TicketInv

LEMMA PagesNumber == ASSUME TicketTypeOK, NEW f \in Filters PROVE Pages(f) \in Nat
<1>1. Matching(f) \subseteq Tickets
  BY DEF TicketTypeOK, Matching
<1>2. Cardinality(Matching(f)) \in Nat
  BY <1>1, TicketsAssumption, FS_Subset, FS_CardinalityType
<1>3. ASSUME NEW n \in Nat, NEW p \in Nat \ {0} PROVE (n + p - 1) \div p \in Nat
  OBVIOUS
<1> QED BY <1>2, <1>3, TicketPageAssumption DEF Pages

LEMMA LoadShows ==
    ASSUME TicketInv, NEW l \in ticketLoads
    PROVE  /\ l \in Loads /\ l.ticket \in Tickets \union {NoTicket} /\ l.filter \in Filters /\ l.page \in Nat
           /\ l.gen \in 1..MaxTicketLoads /\ pageShows \in Contents /\ ~pageShows.past
           /\ pageOffset \in Nat
           /\ l.gen = loadGeneration => pageShows.kind = "loading" /\ pageShows.of = l.ticket
BY TicketTypes DEF TicketInv, TicketPageIsLatest, PageExists, Loads

LEMMA SendQueryKeeps == ASSUME TicketInv, NEW l \in ticketLoads, SendQuery(l) PROVE TicketInv'
<1>t. /\ l \in Loads /\ activeFilter \in Filters /\ pageOffset \in Nat /\ pageShows \in Contents
      /\ ~pageShows.past
      /\ l.gen = loadGeneration => pageShows.kind = "loading" /\ pageShows.of = l.ticket
  BY LoadShows, TicketTypes DEF TicketInv
<1> DEFINE k == [l EXCEPT !.step = "sent", !.filter = activeFilter, !.page = pageOffset]
<1>1. k \in Loads /\ k.gen = l.gen /\ k.ticket = l.ticket /\ k.page = pageOffset
  BY <1>t DEF Loads
<1>2. /\ ticketLoads' = (ticketLoads \ {l}) \union {k}
      /\ UNCHANGED <<undecided, ticketRoute, pageOffset, loadGeneration, pageShows, decisions, filterVars>>
  BY DEF SendQuery
<1> HIDE DEF k
<1>3. k \in ticketLoads'
  BY <1>2
<1> QED BY <1>1, <1>2, <1>3, <1>t, TicketAnswered

LEMMA TasksArriveKeeps == ASSUME TicketInv, NEW l \in ticketLoads, TasksArrive(l) PROVE TicketInv'
<1>t. /\ l \in Loads /\ l.filter \in Filters /\ l.page \in Nat /\ pageOffset \in Nat /\ pageShows \in Contents
      /\ ~pageShows.past
      /\ l.gen = loadGeneration => pageShows.kind = "loading" /\ pageShows.of = l.ticket
  BY LoadShows
<1>1. /\ l.ticket = NoTicket /\ l.step = "sent"
      /\ UNCHANGED <<undecided, ticketRoute, loadGeneration, decisions, filterVars>>
  BY DEF TasksArrive
<1> DEFINE k == [l EXCEPT !.step = "enter"]
<1>2. k \in Loads /\ k.gen = l.gen /\ k.ticket = l.ticket /\ k.step = "enter"
  BY <1>t DEF Loads
<1>p. Pages(l.filter) \in Nat
  BY <1>t, PagesNumber DEF TicketInv
<1>3. CASE l.gen # loadGeneration
  <2>1. ticketLoads' = ticketLoads \ {l} /\ UNCHANGED <<pageOffset, pageShows>>
    BY <1>3 DEF TasksArrive
  <2> HIDE DEF k
  <2> QED BY <1>1, <1>2, <1>3, <2>1, <1>t, TicketAnswered
<1>4. CASE l.gen = loadGeneration /\ pageOffset > 0 /\ pageOffset >= Pages(l.filter)
  <2>1. /\ pageOffset' = IF Pages(l.filter) = 0 THEN 0 ELSE Pages(l.filter) - 1
        /\ ticketLoads' = (ticketLoads \ {l}) \union {k} /\ pageShows' = Loading(NoTicket)
    BY <1>4 DEF TasksArrive
  <2> HIDE DEF k
  <2>2. pageOffset' \in Nat /\ k \in ticketLoads'
    BY <2>1, <1>p
  <2>3. pageShows' \in Contents /\ pageShows'.kind = "loading" /\ pageShows'.of = NoTicket /\ ~pageShows'.past
    BY <2>1, PlainContents DEF Loading
  <2> QED BY <1>1, <1>2, <1>4, <2>1, <2>2, <2>3, TicketAnswered
<1>5. CASE l.gen = loadGeneration /\ ~(pageOffset > 0 /\ pageOffset >= Pages(l.filter))
  <2>1. ticketLoads' = ticketLoads \ {l} /\ pageShows' = ShowList(l) /\ UNCHANGED pageOffset
    BY <1>5 DEF TasksArrive
  <2>2. l.page = pageOffset
    BY <1>1, <1>5 DEF TicketInv, CallsNumbered
  <2>3. ~(l.page > 0 /\ l.page >= Pages(l.filter))
    BY <1>5, <2>2
  <2>4. (l.page + 1 >= Pages(l.filter)) \in BOOLEAN /\ (l.page > 0 /\ l.page >= Pages(l.filter)) \in BOOLEAN
    BY <1>t, <1>p
  <2>5. pageShows' \in Contents /\ pageShows'.kind = "list" /\ (pageShows'.past <=> (l.page > 0 /\ l.page >= Pages(l.filter)))
    BY <2>1, <2>4, ContentTypes, Zenon DEF ShowList
  <2> HIDE DEF k
  <2> QED BY <1>1, <1>2, <1>5, <2>1, <2>3, <2>5, <1>t, TicketAnswered
<1> QED BY <1>3, <1>4, <1>5

LEMMA TicketArrivesKeeps == ASSUME TicketInv, NEW l \in ticketLoads, TicketArrives(l) PROVE TicketInv'
<1>t. /\ l \in Loads /\ l.ticket \in Tickets \union {NoTicket} /\ pageOffset \in Nat /\ pageShows \in Contents
      /\ ~pageShows.past
      /\ l.gen = loadGeneration => pageShows.kind = "loading" /\ pageShows.of = l.ticket
  BY LoadShows
<1> DEFINE k == [l EXCEPT !.step = "messages"]
<1>1. k \in Loads /\ k.gen = l.gen /\ k.ticket = l.ticket /\ k.step = "messages"
  BY <1>t DEF Loads
<1>2. /\ l.ticket # NoTicket
      /\ UNCHANGED <<undecided, ticketRoute, pageOffset, loadGeneration, decisions, filterVars>>
      /\ \/ ticketLoads' = ticketLoads \ {l} /\ UNCHANGED pageShows /\ l.gen # loadGeneration
         \/ ticketLoads' = (ticketLoads \ {l}) \union {k} /\ UNCHANGED pageShows
         \/ /\ ticketLoads' = ticketLoads \ {l} /\ l.gen = loadGeneration
            /\ pageShows' = [kind |-> "ticket", of |-> l.ticket, last |-> TRUE, past |-> FALSE]
  BY DEF TicketArrives
<1> HIDE DEF k
<1>3. CASE ticketLoads' = ticketLoads \ {l} /\ UNCHANGED pageShows /\ l.gen # loadGeneration
  BY <1>1, <1>2, <1>3, <1>t, TicketAnswered
<1>4. CASE ticketLoads' = (ticketLoads \ {l}) \union {k} /\ UNCHANGED pageShows
  <2>1. k \in ticketLoads'
    BY <1>4
  <2> QED BY <1>1, <1>2, <1>4, <2>1, <1>t, TicketAnswered
<1>5. CASE /\ ticketLoads' = ticketLoads \ {l} /\ l.gen = loadGeneration
           /\ pageShows' = [kind |-> "ticket", of |-> l.ticket, last |-> TRUE, past |-> FALSE]
  <2>1. pageShows' \in Contents /\ pageShows'.kind = "ticket" /\ ~pageShows'.past
    BY <1>5, <1>t, PlainContents
  <2> QED BY <1>1, <1>2, <1>5, <2>1, <1>t, TicketAnswered
<1> QED BY <1>2, <1>3, <1>4, <1>5

LEMMA LoadDeniedKeeps == ASSUME TicketInv, NEW l \in ticketLoads, LoadDenied(l) PROVE TicketInv'
<1>t. /\ l \in Loads /\ l.ticket \in Tickets \union {NoTicket} /\ pageOffset \in Nat /\ pageShows \in Contents
      /\ ~pageShows.past
  BY LoadShows
<1> DEFINE k == [l EXCEPT !.step = "enter"]
<1>1. k \in Loads /\ k.gen = l.gen /\ k.ticket = l.ticket /\ k.step = "enter"
  BY <1>t DEF Loads
<1> HIDE DEF k
<1>2. /\ ticketLoads' = ticketLoads \ {l}
      /\ UNCHANGED <<undecided, pageOffset, loadGeneration, decisions, filterVars>>
      /\ \/ /\ pageShows' = IF l.gen # loadGeneration THEN pageShows
                            ELSE [kind |-> "error", of |-> l.ticket, last |-> TRUE, past |-> FALSE]
            /\ UNCHANGED ticketRoute
         \/ ticketRoute' = <<"away">> /\ UNCHANGED pageShows
  BY DEF LoadDenied
<1>3. CASE l.gen = loadGeneration /\ UNCHANGED ticketRoute
           /\ pageShows' = [kind |-> "error", of |-> l.ticket, last |-> TRUE, past |-> FALSE]
  <2>1. pageShows' \in Contents /\ pageShows'.kind = "error" /\ ~pageShows'.past
    BY <1>3, <1>t, PlainContents
  <2> QED BY <1>1, <1>2, <1>3, <2>1, <1>t, TicketAnswered
<1>4. CASE /\ UNCHANGED pageShows
           /\ \/ l.gen # loadGeneration /\ UNCHANGED ticketRoute
              \/ ticketRoute' = <<"away">>
  BY <1>1, <1>2, <1>4, <1>t, TicketAnswered
<1> QED BY <1>2, <1>3, <1>4

LEMMA TicketStays == ASSUME TicketInv, [TicketNext]_ticketVars PROVE TicketInv'
<1>t. /\ undecided \subseteq Tickets /\ decisions \subseteq Tickets
      /\ reviewer \in Reviewers /\ listOwner \in Reviewers /\ chosenBy = listOwner
      /\ ticketRoute \in {<<"away">>} \union Routes
      /\ ticketRoute # <<"away">> => listOwner = reviewer
      /\ <<"list">> # <<"away">>
      /\ activeFilter \in Filters /\ pageOffset \in Nat /\ "all" \in Filters
  BY TicketTypes DEF TicketInv, ChosenByOwner, Filters
<1>1. ASSUME UNCHANGED <<listOwner, activeFilter, chosenBy, pageOffset, loadGeneration, ticketLoads, pageShows>>,
             undecided' \subseteq Tickets, decisions' \subseteq Tickets,
             reviewer' \in Reviewers, ticketRoute' \in {ticketRoute, <<"away">>},
             ticketRoute' # <<"away">> => reviewer' = reviewer
      PROVE  TicketInv'
  <2>1. TicketTypeOK'
    BY <1>1, <1>t DEF TicketInv, TicketTypeOK
  <2>2. CallsNumbered' /\ ChosenByOwner' /\ TicketPageIsLatest' /\ PageExists'
    BY <1>1 DEF TicketInv, CallsNumbered, ChosenByOwner, TicketPageIsLatest, PageExists
  <2> QED BY <2>1, <2>2 DEF TicketInv
<1>2. ASSUME NEW r \in Reviewers, SignIn(r) PROVE TicketInv'
  BY <1>1, <1>2, <1>t DEF SignIn
<1>3. CASE OpenTicketCenter
  <2>1. <<"list">> \in Routes /\ NoTicket \in Tickets \union {NoTicket}
    BY DEF Routes
  <2> QED BY <1>3, <1>t, <2>1, TicketAsked DEF OpenTicketCenter
<1>4. ASSUME NEW route \in Routes, LoadTicketCenterPage(route) PROVE TicketInv'
  <2>1. (IF route = <<"list">> THEN NoTicket ELSE route[2]) \in Tickets \union {NoTicket}
    BY DEF Routes
  <2>2. /\ ticketRoute' = route /\ UNCHANGED <<undecided, reviewer, decisions>>
        /\ listOwner' = reviewer /\ chosenBy' = listOwner' /\ activeFilter' \in Filters /\ pageOffset' \in Nat
        /\ StartLoad(IF route = <<"list">> THEN NoTicket ELSE route[2])
    BY <1>4, <1>t DEF LoadTicketCenterPage
  <2> QED BY <2>1, <2>2, <1>t, TicketAsked
<1>5. ASSUME NEW f \in Filters, ChooseFilter(f) PROVE TicketInv'
  BY <1>5, <1>t, TicketAsked DEF ChooseFilter
<1>6. ASSUME NEW next \in BOOLEAN, TurnPage(next) PROVE TicketInv'
  <2>1. /\ ticketRoute = <<"list">> /\ chosenBy' = reviewer /\ StartLoad(NoTicket)
        /\ UNCHANGED <<undecided, reviewer, ticketRoute, listOwner, activeFilter, decisions>>
    BY <1>6 DEF TurnPage
  <2>2. pageOffset' \in Nat
    <3>1. next => pageOffset' = pageOffset + 1
      BY <1>6 DEF TurnPage
    <3>2. ~next => pageOffset > 0 /\ pageOffset' = pageOffset - 1
      BY <1>6 DEF TurnPage
    <3> QED BY <3>1, <3>2, <1>t
  <2> QED BY <2>1, <2>2, <1>t, TicketAsked
<1>7. ASSUME NEW t \in Tickets, OpenTicket(t) PROVE TicketInv'
  <2>1. <<"ticket", t>> \in Routes
    BY DEF Routes
  <2> QED BY <1>7, <2>1, <1>t, TicketAsked DEF OpenTicket, filterVars
<1>8. ASSUME NEW t \in Tickets, Decision(t) \/ DecidedElsewhere(t) PROVE TicketInv'
  BY <1>1, <1>8, <1>t DEF Decision, DecidedElsewhere, filterVars
<1>9. ASSUME NEW t \in decisions, DecisionAnswered(t) PROVE TicketInv'
  <2>1. CASE StartLoad(NoTicket)
    BY <1>9, <2>1, <1>t, TicketAsked DEF DecisionAnswered, filterVars
  <2>2. CASE UNCHANGED <<loadGeneration, ticketLoads, pageShows>>
    BY <1>1, <1>9, <2>2, <1>t DEF DecisionAnswered, filterVars
  <2> QED BY <1>9, <2>1, <2>2 DEF DecisionAnswered
<1>10. CASE UNCHANGED ticketVars
  BY <1>1, <1>10, <1>t DEF ticketVars
<1> QED BY <1>2, <1>3, <1>4, <1>5, <1>6, <1>7, <1>8, <1>9, <1>10, SendQueryKeeps, TasksArriveKeeps,
           TicketArrivesKeeps, LoadDeniedKeeps DEF TicketNext

LEMMA TicketIsSafe == TicketInv => TicketTypeOK /\ TicketPageIsLatest /\ PageExists /\ FiltersOfOwner
BY DEF TicketInv, ChosenByOwner, FiltersOfOwner

-----------------------------------------------------------------------------
(* CargoPage                                                               *)

CargoViews ==
    [kind : {"empty", "loading", "overview", "package", "error"}, details : PackageRoutes \union {Hidden},
     rows : SUBSET (CargoRepositories \X (1..CatalogPages)), more : BOOLEAN]

CargoTyped ==
    /\ CargoTypeOK /\ cargoView \in CargoViews /\ cargoLeft \in 0..MaxCargoOps
    /\ cargoView.kind = "package" => cargoView.details \in PackageRoutes
    /\ \A l \in cargoLoads : l.route.kind \in {"overview", "package"}
    /\ \A o \in cargoOps : o.stage = "refresh" => o.path \in PackageRoutes

\* The latest load, by its number, is of the route the browser is at.
CargoLatest ==
    /\ cargoRepository = cargoRoute.repository
    /\ \A l \in cargoLoads : l.seq <= cargoSequence /\ (l.seq = cargoSequence => l.route = cargoRoute)

PagesUpTo(r, last) == {<<r, n>> : n \in 1..last}

\* What the view, the catalog held and the details held are once a route has come.
CargoShown ==
    /\ cargoRoute.kind = "hidden" => cargoView = Empty
    /\ cargoRoute.kind = "invalid" => cargoView.kind = "error"
    /\ cargoRoute.kind = "overview" =>
          /\ cargoView.kind = "overview" /\ cargoView.rows = cargoList
          /\ \E last \in cargoPage..CatalogPages : cargoList = PagesUpTo(cargoRoute.repository, last)
    /\ cargoRoute.kind = "package" =>
          cargoView.kind = "package" /\ cargoView.details = cargoRoute /\ cargoDetails = cargoRoute

\* A further page asked for once the route was answered belongs to it, and so does an
\* operation of the page the route brought.
OwnMore(m) ==
    /\ ~Awaited /\ cargoPast # "failed"
    /\ cargoPast = "own" =>
          /\ m.repository = cargoRepository /\ cargoRoute.kind = "overview"
          /\ <<m.repository, m.page - 1>> \in cargoList
OwnOperation(o) ==
    /\ ~Awaited /\ cargoPast # "failed"
    /\ cargoPast = "own" =>
          cargoRoute.kind = "package" /\ (o.stage = "refresh" => o.path = cargoRoute)

\* What the view shows, by its history, and what is under way for the route itself.
CargoTold ==
    /\ cargoPast = "own" => Awaited \/ CargoShown
    /\ cargoPast = "failed" => ~Awaited /\ cargoView.kind = "error"
    /\ \A m \in cargoMores : m.seq <= cargoSequence /\ (m.seq = cargoSequence /\ ~m.early => OwnMore(m))
    /\ \A o \in cargoOps : o.seq <= cargoSequence /\ (o.seq = cargoSequence => OwnOperation(o))

CargoInv == CargoTyped /\ CargoLatest /\ CargoTold

Pasts == {"own", "failed", "crossed"}

LEMMA RouteShapes ==
    ASSUME NEW t \in CargoRoutes
    PROVE  /\ t.kind \in {"hidden", "overview", "package", "invalid"}
           /\ t.repository \in CargoRepositories \union {NoCrate}
           /\ t.kind = "hidden" => t = Hidden /\ t.repository = NoCrate
           /\ t.kind # "hidden" => t.repository \in CargoRepositories /\ t # Hidden
           /\ t.kind = "package" <=> t \in PackageRoutes
           /\ t.kind = "package" => t.crate \in Crates /\ t = Package(t.repository, t.crate)
BY DEF CargoRoutes, PackageRoutes, Hidden, Overview, Package, NotFound

LEMMA RouteMakes ==
    ASSUME NEW r \in CargoRepositories
    PROVE  /\ Overview(r) \in CargoRoutes /\ Overview(r).kind = "overview" /\ Overview(r).repository = r
           /\ \A p \in Crates : Package(r, p) \in PackageRoutes
BY DEF CargoRoutes, PackageRoutes, Overview, Package

LEMMA ShownTypes ==
    ASSUME NEW k \in {"empty", "loading", "overview", "package", "error"},
           NEW d \in PackageRoutes \union {Hidden},
           NEW rs \in SUBSET (CargoRepositories \X (1..CatalogPages))
    PROVE  /\ Shown(k, d, rs) \in CargoViews
           /\ Shown(k, d, rs).kind = k /\ Shown(k, d, rs).details = d /\ Shown(k, d, rs).rows = rs
<1>1. (k = "overview") \in BOOLEAN
  OBVIOUS
<1>2. ASSUME NEW b \in BOOLEAN
      PROVE  LET v == [kind |-> k, details |-> d, rows |-> rs, more |-> b]
             IN  v \in CargoViews /\ v.kind = k /\ v.details = d /\ v.rows = rs
  BY DEF CargoViews
<1> QED BY <1>1, <1>2, Zenon DEF Shown

LEMMA PlainViews ==
    ASSUME NEW k \in {"empty", "loading", "error"}
    PROVE  Shown(k, Hidden, {}) \in CargoViews /\ Shown(k, Hidden, {}).kind = k
BY ShownTypes

LEMMA CargoTypes ==
    ASSUME CargoTyped
    PROVE  /\ cargoRoute \in CargoRoutes /\ cargoSequence \in 0..MaxCargoRoutes /\ cargoSequence \in Nat
           /\ MaxCargoRoutes \in Nat /\ MaxCargoOps \in Nat /\ CatalogPages \in Nat /\ CatalogPages > 0
           /\ cargoRepository \in CargoRepositories \union {NoCrate}
           /\ cargoDetails \in PackageRoutes \union {Hidden}
           /\ cargoList \subseteq CargoRepositories \X (1..CatalogPages)
           /\ cargoPage \in 1..CatalogPages /\ cargoView \in CargoViews /\ cargoLeft \in 0..MaxCargoOps
           /\ cargoBusy \in BOOLEAN /\ cargoPast \in Pasts
           /\ cargoLoads \subseteq [seq : 1..MaxCargoRoutes, route : CargoRoutes, stage : {"read", "animate"}]
           /\ cargoMores \subseteq [seq : 0..MaxCargoRoutes, repository : CargoRepositories,
                                    page : 2..CatalogPages, id : 1..MaxCargoOps, early : BOOLEAN]
           /\ cargoOps \subseteq [kind : OpKinds, id : 1..MaxCargoOps, target : PackageRoutes,
                                  path : PackageRoutes \union {Hidden}, seq : 0..MaxCargoRoutes,
                                  stage : {"dialog", "request", "refresh"}]
<1>1. cargoBusy \in BOOLEAN
  BY Zenon DEF CargoTyped, CargoTypeOK
<1> QED BY <1>1, RoutesAssumption, OpsAssumption, CatalogAssumption DEF CargoTyped, CargoTypeOK, Pasts

LEMMA CargoStarts == CargoInit => CargoInv
<1> SUFFICES ASSUME CargoInit PROVE CargoInv
  OBVIOUS
<1>1. Empty \in CargoViews /\ Empty.kind = "empty" /\ Hidden \in CargoRoutes
      /\ Hidden.kind = "hidden" /\ Hidden.repository = NoCrate
  BY PlainViews DEF Empty, CargoRoutes, Hidden
<1>2. cargoBusy \in BOOLEAN
  BY Zenon DEF CargoInit
<1>3. CargoTyped
  BY <1>1, <1>2, RoutesAssumption, OpsAssumption, CatalogAssumption DEF CargoInit, CargoTyped, CargoTypeOK
<1>4. CargoLatest /\ CargoTold
  BY <1>1 DEF CargoInit, CargoLatest, CargoTold, CargoShown
<1> QED BY <1>3, <1>4 DEF CargoInv

\* A new route: what was under way is of an earlier one.
LEMMA RouteKeeps ==
    ASSUME CargoInv, NEW t \in CargoRoutes, Route(t), cargoMores' \subseteq cargoMores,
           cargoOps' \subseteq cargoOps, UNCHANGED cargoLeft
    PROVE  CargoInv'
<1>t. CargoTyped /\ CargoLatest /\ CargoTold
  BY DEF CargoInv
<1>c. /\ cargoSequence \in Nat /\ MaxCargoRoutes \in Nat /\ CatalogPages \in Nat /\ CatalogPages > 0
      /\ cargoView \in CargoViews
      /\ cargoDetails \in PackageRoutes \union {Hidden}
      /\ cargoList \subseteq CargoRepositories \X (1..CatalogPages) /\ cargoPage \in 1..CatalogPages
      /\ cargoBusy \in BOOLEAN
      /\ cargoLoads \subseteq [seq : 1..MaxCargoRoutes, route : CargoRoutes, stage : {"read", "animate"}]
  BY <1>t, CargoTypes
<1>1. /\ cargoSequence < MaxCargoRoutes /\ cargoSequence' = cargoSequence + 1 /\ cargoRoute' = t
      /\ cargoPast' = "own"
      /\ OpenCargo(t) \/ (t = Hidden /\ HideCargo)
  BY DEF Route
<1>2. cargoSequence' \in 1..MaxCargoRoutes /\ cargoSequence' \in 0..MaxCargoRoutes
  BY <1>1, <1>c
<1>s. /\ \A m \in cargoMores : m.seq \in Nat /\ m.seq <= cargoSequence' /\ m.seq # cargoSequence'
      /\ \A o \in cargoOps : o.seq \in Nat /\ o.seq <= cargoSequence' /\ o.seq # cargoSequence'
  <2>1. \A m \in cargoMores : m.seq \in Nat /\ m.seq <= cargoSequence
    BY <1>t, CargoTypes DEF CargoTold
  <2>2. \A o \in cargoOps : o.seq \in Nat /\ o.seq <= cargoSequence
    BY <1>t, CargoTypes DEF CargoTold
  <2> QED BY <2>1, <2>2, <1>1, <1>c
<1>3. \A l \in cargoLoads : l.seq \in Nat /\ l.seq <= cargoSequence /\ l.seq # cargoSequence' /\ l.seq <= cargoSequence'
  BY <1>1, <1>t, <1>c DEF CargoLatest
\* Each kind of route leaves these.
<1>4. ASSUME cargoRepository' = t.repository,
             cargoDetails' \in PackageRoutes \union {Hidden},
             cargoList' \subseteq CargoRepositories \X (1..CatalogPages), cargoPage' \in 1..CatalogPages,
             cargoBusy' \in BOOLEAN, cargoView' \in CargoViews,
             cargoView'.kind = "package" => cargoView'.details \in PackageRoutes,
             \/ UNCHANGED cargoLoads /\ CargoShown'
             \/ /\ t.kind \in {"overview", "package"}
                /\ cargoLoads' = cargoLoads \union {[seq |-> cargoSequence', route |-> t, stage |-> "read"]}
      PROVE  CargoInv'
  <2> DEFINE l == [seq |-> cargoSequence', route |-> t, stage |-> "read"]
  <2>1. /\ l \in [seq : 1..MaxCargoRoutes, route : CargoRoutes, stage : {"read", "animate"}]
        /\ l.seq = cargoSequence' /\ l.route = t /\ l.stage = "read"
    BY <1>2
  <2>2. \/ UNCHANGED cargoLoads /\ CargoShown'
        \/ t.kind \in {"overview", "package"} /\ cargoLoads' = cargoLoads \union {l}
    BY <1>4
  <2> HIDE DEF l
  <2>3. cargoBusy' \in BOOLEAN
    BY <1>4, Zenon
  <2>4. CargoTypeOK'
    <3>1. cargoLoads' \subseteq [seq : 1..MaxCargoRoutes, route : CargoRoutes, stage : {"read", "animate"}]
      BY <2>1, <2>2, <1>c
    <3>2. cargoRepository' \in CargoRepositories \union {NoCrate}
      BY <1>4, RouteShapes
    <3>3. cargoView'.kind \in {"empty", "loading", "overview", "package", "error"}
      BY <1>4 DEF CargoViews
    <3> QED BY <2>3, <3>1, <3>2, <3>3, <1>1, <1>2, <1>4, <1>t DEF CargoTyped, CargoTypeOK
  <2>5. CargoTyped'
    <3>1. \A k \in cargoLoads' : k.route.kind \in {"overview", "package"}
      BY <2>1, <2>2, <1>t DEF CargoTyped
    <3> QED BY <2>4, <3>1, <1>4, <1>t DEF CargoTyped
  <2>6. CargoLatest'
    BY <2>1, <2>2, <1>1, <1>2, <1>3, <1>4, <1>c DEF CargoLatest
  <2>7. CargoTold'
    <3>1. Awaited' \/ CargoShown'
      BY <2>1, <2>2 DEF Awaited
    <3> QED BY <3>1, <1>1, <1>s DEF CargoTold
  <2> QED BY <2>5, <2>6, <2>7 DEF CargoInv
<1>5. CASE t = Hidden /\ HideCargo
  <2>1. Hidden.kind = "hidden" /\ Hidden.repository = NoCrate
    BY DEF Hidden
  <2>2. Empty \in CargoViews /\ Empty.kind = "empty"
    BY PlainViews DEF Empty
  <2>3. cargoBusy' \in BOOLEAN
    BY <1>5, Zenon DEF HideCargo
  <2>4. CargoShown'
    BY <1>1, <1>5, <2>1 DEF HideCargo, CargoShown
  <2> QED BY <1>4, <1>5, <2>1, <2>2, <2>3, <2>4, <1>c DEF HideCargo
<1>6. CASE OpenCargo(t) /\ t.kind = "invalid"
  <2>1. /\ cargoRepository' = t.repository /\ cargoView' = Shown("error", Hidden, {})
        /\ UNCHANGED <<cargoDetails, cargoBusy, cargoLoads, cargoList, cargoPage>>
    BY <1>6 DEF OpenCargo
  <2>2. cargoView' \in CargoViews /\ cargoView'.kind = "error"
    BY <2>1, PlainViews
  <2>3. CargoShown'
    BY <1>1, <1>6, <2>2 DEF CargoShown
  <2>4. cargoBusy' \in BOOLEAN
    BY <2>1, <1>c, Zenon
  <2> QED BY <1>4, <2>1, <2>2, <2>3, <2>4, <1>c
<1>7. CASE OpenCargo(t) /\ t.kind \notin {"hidden", "invalid"}
  <2>1. /\ cargoRepository' = t.repository /\ BeginCargoRouteLoad
        /\ cargoDetails' = IF t.kind = "overview" THEN Hidden ELSE cargoDetails
        /\ cargoLoads' = cargoLoads \union {[seq |-> cargoSequence', route |-> t, stage |-> "read"]}
        /\ UNCHANGED <<cargoList, cargoPage>>
    BY <1>7 DEF OpenCargo
  <2>2. /\ cargoView' = IF cargoView.kind = "empty" THEN Shown("loading", Hidden, {}) ELSE cargoView
        /\ cargoBusy' = TRUE
    BY <2>1 DEF BeginCargoRouteLoad
  <2>3. cargoBusy' \in BOOLEAN
    BY <2>2, Zenon
  <2>4. cargoView' \in CargoViews /\ (cargoView'.kind = "package" => cargoView'.details \in PackageRoutes)
    BY <2>2, PlainViews, <1>c, <1>t DEF CargoTyped
  <2>5. t.kind \in {"overview", "package"}
    BY <1>7, RouteShapes
  <2>6. cargoDetails' \in PackageRoutes \union {Hidden}
    BY <2>1, <1>c
  <2> QED BY <1>4, <2>1, <2>3, <2>4, <2>5, <2>6, <1>c
<1>8. OpenCargo(t) => t.kind # "hidden"
  BY DEF OpenCargo
<1> QED BY <1>1, <1>5, <1>6, <1>7, <1>8

LEMMA GoToKeeps == ASSUME CargoInv, NEW t \in CargoRoutes, GoTo(t) PROVE CargoInv'
<1>1. Route(t) /\ UNCHANGED <<cargoMores, cargoOps, cargoLeft>>
  BY DEF GoTo
<1> QED BY <1>1, RouteKeeps

LEMMA DeletedPackageKeeps == ASSUME CargoInv, NEW o \in cargoOps, DeletedPackage(o) PROVE CargoInv'
<1>1. /\ cargoRepository # NoCrate /\ Route(Overview(cargoRepository)) /\ cargoOps' = cargoOps \ {o}
      /\ UNCHANGED <<cargoMores, cargoLeft>>
  BY DEF DeletedPackage
<1>2. Overview(cargoRepository) \in CargoRoutes
  BY <1>1, CargoTypes, RouteMakes DEF CargoInv
<1>3. cargoMores' \subseteq cargoMores /\ cargoOps' \subseteq cargoOps
  BY <1>1
<1> QED BY <1>1, <1>2, <1>3, RouteKeeps

RouteLoads == [seq : 1..MaxCargoRoutes, route : CargoRoutes, stage : {"read", "animate"}]
FurtherPages ==
    [seq : 0..MaxCargoRoutes, repository : CargoRepositories, page : 2..CatalogPages, id : 1..MaxCargoOps,
     early : BOOLEAN]
Operations ==
    [kind : OpKinds, id : 1..MaxCargoOps, target : PackageRoutes, path : PackageRoutes \union {Hidden},
     seq : 0..MaxCargoRoutes, stage : {"dialog", "request", "refresh"}]

\* A step within a route.
LEMMA WithinRoute ==
    ASSUME CargoInv, UNCHANGED <<cargoRoute, cargoSequence, cargoRepository>>,
           cargoDetails' \in PackageRoutes \union {Hidden},
           cargoList' \subseteq CargoRepositories \X (1..CatalogPages), cargoPage' \in 1..CatalogPages,
           cargoView' \in CargoViews, cargoView'.kind = "package" => cargoView'.details \in PackageRoutes,
           cargoBusy' \in BOOLEAN, cargoPast' \in Pasts, cargoLeft' \in 0..MaxCargoOps,
           cargoLoads' \subseteq RouteLoads,
           \A k \in cargoLoads' : \E l \in cargoLoads : k.seq = l.seq /\ k.route = l.route,
           cargoMores' \subseteq FurtherPages, cargoOps' \subseteq Operations,
           \A o \in cargoOps' : o.stage = "refresh" => o.path \in PackageRoutes,
           CargoTold'
    PROVE  CargoInv'
<1>t. CargoTyped /\ CargoLatest
  BY DEF CargoInv
<1>1. cargoBusy' \in BOOLEAN
  BY Zenon
<1>2. cargoView'.kind \in {"empty", "loading", "overview", "package", "error"}
  BY DEF CargoViews
<1>3. CargoTypeOK'
  BY <1>1, <1>2, <1>t DEF CargoTyped, CargoTypeOK, RouteLoads, FurtherPages, Operations, Pasts
<1>4. CargoTyped'
  BY <1>3, <1>t DEF CargoTyped
<1>5. CargoLatest'
  BY <1>t DEF CargoLatest
<1> QED BY <1>4, <1>5 DEF CargoInv

\* What a state within the invariant is, for the steps that follow.
LEMMA CargoFacts ==
    ASSUME CargoInv
    PROVE  /\ cargoRoute \in CargoRoutes /\ cargoSequence \in 0..MaxCargoRoutes
           /\ CatalogPages \in Nat /\ CatalogPages > 0
           /\ cargoRepository \in CargoRepositories \union {NoCrate}
           /\ cargoRepository = cargoRoute.repository
           /\ cargoDetails \in PackageRoutes \union {Hidden}
           /\ cargoList \subseteq CargoRepositories \X (1..CatalogPages)
           /\ cargoPage \in 1..CatalogPages /\ cargoView \in CargoViews /\ cargoLeft \in 0..MaxCargoOps
           /\ cargoView.kind = "package" => cargoView.details \in PackageRoutes
           /\ cargoBusy \in BOOLEAN /\ cargoPast \in Pasts
           /\ cargoLoads \subseteq RouteLoads /\ cargoMores \subseteq FurtherPages /\ cargoOps \subseteq Operations
           /\ \A o \in cargoOps : o.stage = "refresh" => o.path \in PackageRoutes
           /\ \A l \in cargoLoads : l.route.kind \in {"overview", "package"}
           /\ \A l \in cargoLoads : l.seq = cargoSequence => l.route = cargoRoute
           /\ CargoTold
BY CargoTypes DEF CargoInv, CargoTyped, CargoLatest, RouteLoads, FurtherPages, Operations

\* A step that leaves what is shown, told and awaited, and begins nothing.
LEMMA SameTold ==
    ASSUME CargoTold, Awaited' <=> Awaited, cargoMores' \subseteq cargoMores, cargoOps' \subseteq cargoOps,
           UNCHANGED <<cargoRoute, cargoSequence, cargoRepository, cargoDetails, cargoList, cargoPage,
                       cargoView, cargoPast>>
    PROVE  CargoTold'
<1>1. CargoShown => CargoShown'
  BY DEF CargoShown
<1> QED BY <1>1 DEF CargoTold, OwnMore, OwnOperation

LEMMA LoadArrivesKeeps == ASSUME CargoInv, NEW l \in cargoLoads, LoadArrives(l) PROVE CargoInv'
<1>t. /\ cargoRoute \in CargoRoutes /\ CatalogPages \in Nat /\ CatalogPages > 0
      /\ cargoDetails \in PackageRoutes \union {Hidden}
      /\ cargoList \subseteq CargoRepositories \X (1..CatalogPages)
      /\ cargoPage \in 1..CatalogPages /\ cargoView \in CargoViews /\ cargoLeft \in 0..MaxCargoOps
      /\ cargoView.kind = "package" => cargoView.details \in PackageRoutes
      /\ cargoBusy \in BOOLEAN /\ cargoPast \in Pasts
      /\ cargoLoads \subseteq RouteLoads /\ cargoMores \subseteq FurtherPages /\ cargoOps \subseteq Operations
      /\ \A o \in cargoOps : o.stage = "refresh" => o.path \in PackageRoutes
      /\ l.route.kind \in {"overview", "package"} /\ l.route \in CargoRoutes
      /\ l.seq = cargoSequence => l.route = cargoRoute
      /\ CargoTold
  BY CargoFacts DEF RouteLoads
<1>1. /\ l.stage = "read"
      /\ UNCHANGED <<cargoRoute, cargoSequence, cargoRepository, cargoBusy, cargoMores, cargoOps,
                     cargoLeft>>
  BY DEF LoadArrives
<1>b. cargoBusy' \in BOOLEAN
  BY <1>1, <1>t, Zenon
<1>2. CASE l.seq # cargoSequence
  <2>1. /\ cargoLoads' = cargoLoads \ {l}
        /\ UNCHANGED <<cargoDetails, cargoList, cargoPage, cargoView, cargoPast>>
    BY <1>2 DEF LoadArrives, CurrentCargo
  <2>2. Awaited' <=> Awaited
    BY <1>1, <1>2, <2>1 DEF Awaited
  <2>3. CargoTold'
    BY <1>1, <1>t, <2>1, <2>2, SameTold
  <2> QED BY <1>1, <1>b, <2>1, <2>3, <1>t, WithinRoute
<1>3. CASE l.seq = cargoSequence
  <2> DEFINE k == [l EXCEPT !.stage = "animate"]
  <2>1. /\ cargoLoads' = (cargoLoads \ {l}) \union {k}
        /\ IF l.route.kind = "overview" THEN CatalogArrives(l) ELSE PackageArrives(l)
        /\ cargoPast' = "own"
    BY <1>3 DEF LoadArrives, CurrentCargo
  <2>2. k \in RouteLoads /\ k.seq = l.seq /\ k.route = l.route
    BY <1>t DEF RouteLoads
  <2> HIDE DEF k
  <2>3. cargoLoads' \subseteq RouteLoads /\ \A j \in cargoLoads' : \E i \in cargoLoads : j.seq = i.seq /\ j.route = i.route
    BY <2>1, <2>2, <1>t
  <2>4. CargoShown' => CargoTold'
    <3>1. Awaited
      BY <1>1, <1>3 DEF Awaited
    <3> QED BY <1>1, <1>t, <2>1, <3>1 DEF CargoTold, OwnMore, OwnOperation
  <2>p. cargoPast' \in Pasts
    BY <2>1 DEF Pasts
  <2>5. CASE l.route.kind = "overview"
    <3>1. l.route.repository \in CargoRepositories
      BY <2>5, <1>t, RouteShapes
    <3>2. /\ cargoList' = {<<l.route.repository, 1>>} /\ cargoPage' = 1
          /\ cargoView' = Shown("overview", Hidden, cargoList') /\ cargoDetails' = Hidden
      BY <2>1, <2>5 DEF CatalogArrives, RenderCargoOverview
    <3>3. cargoList' \subseteq CargoRepositories \X (1..CatalogPages) /\ cargoPage' \in 1..CatalogPages
      BY <3>1, <3>2, <1>t
    <3>4. cargoView' \in CargoViews /\ cargoView'.kind = "overview" /\ cargoView'.rows = cargoList'
      BY <3>2, <3>3, ShownTypes
    <3>5. cargoList' = PagesUpTo(l.route.repository, 1) /\ 1 \in cargoPage'..CatalogPages
      BY <3>2, <1>t DEF PagesUpTo
    <3>6. CargoShown'
      <4>1. cargoRoute' = l.route /\ cargoRoute'.kind = "overview"
        BY <1>1, <1>3, <2>5, <1>t
      <4> QED BY <4>1, <3>4, <3>5 DEF CargoShown
    <3>7. CargoTold'
      BY <3>6, <2>4
    <3> QED BY <1>1, <1>b, <2>p, <2>3, <3>2, <3>3, <3>4, <3>7, <1>t, WithinRoute
  <2>6. CASE l.route.kind = "package"
    <3>1. l.route \in PackageRoutes
      BY <2>6, <1>t, RouteShapes
    <3>2. /\ cargoDetails' = l.route /\ cargoView' = Shown("package", l.route, {})
          /\ UNCHANGED <<cargoList, cargoPage>>
      BY <2>1, <2>6 DEF PackageArrives, RenderCargoPackagePage
    <3>3. cargoView' \in CargoViews /\ cargoView'.kind = "package" /\ cargoView'.details = l.route
      BY <3>1, <3>2, ShownTypes
    <3>4. CargoShown'
      <4>1. cargoRoute' = l.route /\ cargoRoute'.kind = "package"
        BY <1>1, <1>3, <2>6, <1>t
      <4> QED BY <4>1, <3>2, <3>3 DEF CargoShown
    <3>5. CargoTold'
      BY <3>4, <2>4
    <3> QED BY <1>1, <1>b, <2>p, <2>3, <3>1, <3>2, <3>3, <3>5, <1>t, WithinRoute
  <2> QED BY <1>t, <2>5, <2>6
<1> QED BY <1>2, <1>3

\* A load that ends without an answer, or after its animation.
LEMMA LoadGoneKeeps ==
    ASSUME CargoInv, NEW l \in cargoLoads, cargoLoads' = cargoLoads \ {l},
           UNCHANGED <<cargoRoute, cargoSequence, cargoRepository, cargoDetails, cargoList, cargoPage,
                       cargoMores, cargoOps, cargoLeft>>,
           cargoBusy' \in BOOLEAN,
           \/ /\ cargoView' = Shown("error", Hidden, {}) /\ cargoPast' = "failed"
              /\ l.seq = cargoSequence /\ l.stage = "read"
           \/ /\ UNCHANGED <<cargoView, cargoPast>>
              /\ l.seq # cargoSequence \/ l.stage = "animate"
    PROVE  CargoInv'
<1>t. /\ cargoDetails \in PackageRoutes \union {Hidden}
      /\ cargoList \subseteq CargoRepositories \X (1..CatalogPages)
      /\ cargoPage \in 1..CatalogPages /\ cargoView \in CargoViews /\ cargoLeft \in 0..MaxCargoOps
      /\ cargoView.kind = "package" => cargoView.details \in PackageRoutes
      /\ cargoPast \in Pasts
      /\ cargoLoads \subseteq RouteLoads /\ cargoMores \subseteq FurtherPages /\ cargoOps \subseteq Operations
      /\ \A o \in cargoOps : o.stage = "refresh" => o.path \in PackageRoutes
      /\ CargoTold
      /\ \A k \in cargoLoads : k.seq = cargoSequence => k.route = cargoRoute
  BY CargoFacts
<1>1. /\ cargoLoads' \subseteq RouteLoads
      /\ \A k \in cargoLoads' : \E j \in cargoLoads : k.seq = j.seq /\ k.route = j.route
  BY <1>t
<1>2. CASE /\ cargoView' = Shown("error", Hidden, {}) /\ cargoPast' = "failed"
           /\ l.seq = cargoSequence /\ l.stage = "read"
  <2>1. cargoPast' \in Pasts
    BY <1>2 DEF Pasts
  <2>2. cargoView' \in CargoViews /\ cargoView'.kind = "error"
    BY <1>2, PlainViews
  <2>3. Awaited
    BY <1>2 DEF Awaited
  <2>4. ~Awaited'
    <3>1. \A k \in cargoLoads : k.seq = cargoSequence /\ k.stage = "read" => k = l
      BY <1>2, <1>t DEF RouteLoads
    <3> QED BY <3>1 DEF Awaited
  <2>5. CargoTold'
    BY <1>2, <1>t, <2>2, <2>3, <2>4 DEF CargoTold, OwnMore, OwnOperation
  <2> QED BY <1>1, <2>1, <2>2, <2>5, <1>t, WithinRoute
<1>3. CASE UNCHANGED <<cargoView, cargoPast>> /\ (l.seq # cargoSequence \/ l.stage = "animate")
  <2>1. Awaited' <=> Awaited
    BY <1>3 DEF Awaited
  <2>2. CargoTold'
    BY <1>3, <1>t, <2>1, SameTold
  <2> QED BY <1>1, <1>3, <2>2, <1>t, WithinRoute
<1> QED BY <1>2, <1>3

LEMMA LoadEndsKeeps == ASSUME CargoInv, NEW l \in cargoLoads, LoadFails(l) \/ Animated(l) PROVE CargoInv'
<1>t. cargoBusy \in BOOLEAN
  BY CargoFacts
<1>1. CASE LoadFails(l)
  <2>1. /\ cargoLoads' = cargoLoads \ {l}
        /\ UNCHANGED <<cargoRoute, cargoSequence, cargoRepository, cargoDetails, cargoList, cargoPage,
                       cargoMores, cargoOps, cargoLeft>>
        /\ l.stage = "read"
        /\ \/ /\ cargoView' = Shown("error", Hidden, {}) /\ cargoPast' = "failed" /\ cargoBusy' = FALSE
              /\ l.seq = cargoSequence
           \/ l.seq # cargoSequence /\ UNCHANGED <<cargoView, cargoBusy, cargoPast>>
    BY <1>1, Zenon DEF LoadFails, CurrentCargo
  <2>2. cargoBusy' \in BOOLEAN
    BY <2>1, <1>t, Zenon
  <2>3. \/ /\ cargoView' = Shown("error", Hidden, {}) /\ cargoPast' = "failed"
           /\ l.seq = cargoSequence /\ l.stage = "read"
        \/ UNCHANGED <<cargoView, cargoPast>> /\ l.seq # cargoSequence
    BY <2>1, Zenon
  <2> QED BY <2>1, <2>2, <2>3, LoadGoneKeeps
<1>2. CASE Animated(l)
  <2>1. cargoBusy' \in BOOLEAN
    BY <1>2, Zenon DEF Animated
  <2> QED BY <1>2, <2>1, LoadGoneKeeps DEF Animated
<1> QED BY <1>1, <1>2

LEMMA CargoLanguageKeeps == ASSUME CargoInv, CargoLanguageChanged PROVE CargoInv'
<1>t. /\ cargoDetails \in PackageRoutes \union {Hidden}
      /\ cargoList \subseteq CargoRepositories \X (1..CatalogPages)
      /\ cargoPage \in 1..CatalogPages /\ cargoLeft \in 0..MaxCargoOps
      /\ cargoBusy \in BOOLEAN /\ cargoPast \in Pasts
      /\ cargoLoads \subseteq RouteLoads /\ cargoMores \subseteq FurtherPages /\ cargoOps \subseteq Operations
      /\ \A o \in cargoOps : o.stage = "refresh" => o.path \in PackageRoutes
      /\ cargoRoute \in CargoRoutes
      /\ CargoTold
  BY CargoFacts
<1>1. /\ cargoRoute # Hidden
      /\ UNCHANGED <<cargoRoute, cargoSequence, cargoRepository, cargoList, cargoPage, cargoBusy,
                     cargoLoads, cargoMores, cargoOps, cargoLeft, cargoPast>>
  BY DEF CargoLanguageChanged
<1>b. cargoBusy' \in BOOLEAN /\ (Awaited' <=> Awaited)
  <2>1. cargoBusy' \in BOOLEAN
    BY <1>1, <1>t, Zenon
  <2> QED BY <2>1, <1>1 DEF Awaited
<1>k. cargoRoute.kind \in {"overview", "package", "invalid"}
  BY <1>1, <1>t, RouteShapes
<1>2. CASE /\ cargoView.kind = "package" /\ cargoDetails # Hidden
           /\ RenderCargoPackagePage(cargoDetails) /\ UNCHANGED cargoDetails
  <2>1. cargoView' = Shown("package", cargoDetails, {}) /\ cargoDetails' = cargoDetails
        /\ cargoDetails \in PackageRoutes
    BY <1>2, <1>t DEF RenderCargoPackagePage
  <2>2. cargoView' \in CargoViews /\ cargoView'.kind = "package" /\ cargoView'.details = cargoDetails
    BY <2>1, ShownTypes
  <2>3. CargoShown => CargoShown'
    BY <1>1, <1>2, <1>k, <2>1, <2>2 DEF CargoShown
  <2>4. CargoTold'
    BY <2>3, <1>1, <1>b, <1>t, <1>2 DEF CargoTold, OwnMore, OwnOperation
  <2> QED BY <1>1, <1>b, <2>1, <2>2, <2>4, <1>t, WithinRoute
<1>3. CASE cargoView.kind = "overview" /\ RenderCargoOverview(cargoList)
  <2>1. cargoView' = Shown("overview", Hidden, cargoList) /\ cargoDetails' = Hidden
    BY <1>3 DEF RenderCargoOverview
  <2>2. cargoView' \in CargoViews /\ cargoView'.kind = "overview" /\ cargoView'.rows = cargoList
    BY <2>1, <1>t, ShownTypes
  <2>3. CargoShown => CargoShown'
    BY <1>1, <1>3, <1>k, <2>1, <2>2 DEF CargoShown
  <2>4. CargoTold'
    BY <2>3, <1>1, <1>b, <1>t, <1>3 DEF CargoTold, OwnMore, OwnOperation
  <2> QED BY <1>1, <1>b, <2>1, <2>2, <2>4, <1>t, WithinRoute
<1> QED BY <1>2, <1>3 DEF CargoLanguageChanged

\* The view with its button on or off.
LEMMA ButtonTypes ==
    ASSUME NEW v \in CargoViews, NEW b \in BOOLEAN
    PROVE  LET w == [v EXCEPT !.more = b]
           IN  w \in CargoViews /\ w.kind = v.kind /\ w.details = v.details /\ w.rows = v.rows
BY DEF CargoViews

\* What the kind of the view says of the route, when its own answer is shown.
LEMMA ViewTellsRoute ==
    ASSUME CargoInv, cargoPast = "own", ~Awaited
    PROVE  /\ CargoShown
           /\ cargoView.kind = "overview" => cargoRoute.kind = "overview"
           /\ cargoView.kind = "package" => cargoRoute.kind = "package"
<1>1. CargoShown
  BY DEF CargoInv, CargoTold
<1>2. Empty.kind = "empty"
  BY PlainViews DEF Empty
<1>3. cargoRoute.kind \in {"hidden", "overview", "package", "invalid"}
  BY CargoFacts, RouteShapes
<1> QED BY <1>1, <1>2, <1>3 DEF CargoShown

LEMMA LoadMoreKeeps == ASSUME CargoInv, LoadMoreCargoPackages PROVE CargoInv'
<1>t. /\ cargoDetails \in PackageRoutes \union {Hidden} /\ cargoView \in CargoViews
      /\ cargoList \subseteq CargoRepositories \X (1..CatalogPages) /\ cargoSequence \in 0..MaxCargoRoutes
      /\ cargoPage \in 1..CatalogPages /\ cargoLeft \in 0..MaxCargoOps /\ CatalogPages \in Nat
      /\ cargoRepository \in CargoRepositories \union {NoCrate} /\ cargoRepository = cargoRoute.repository
      /\ cargoLoads \subseteq RouteLoads /\ cargoMores \subseteq FurtherPages /\ cargoOps \subseteq Operations
      /\ \A o \in cargoOps : o.stage = "refresh" => o.path \in PackageRoutes
      /\ CargoTold /\ cargoPast \in Pasts
      /\ cargoView.kind = "package" => cargoView.details \in PackageRoutes
  BY CargoFacts
<1> DEFINE m == [seq |-> cargoSequence, repository |-> cargoRepository, page |-> cargoPage + 1, id |-> cargoLeft,
              early |-> Awaited]
<1>1. /\ cargoView.kind = "overview" /\ cargoLeft > 0 /\ cargoPage < CatalogPages
      /\ cargoRepository # NoCrate
      /\ cargoMores' = cargoMores \union {m} /\ cargoLeft' = cargoLeft - 1
      /\ UNCHANGED <<cargoRoute, cargoSequence, cargoRepository, cargoDetails, cargoList, cargoPage,
                     cargoLoads, cargoOps, cargoPast>>
  BY DEF LoadMoreCargoPackages
<1>2. cargoView' = [cargoView EXCEPT !.more = FALSE] /\ cargoBusy' = TRUE
  BY DEF LoadMoreCargoPackages
<1>3. cargoBusy' \in BOOLEAN
  BY <1>2, Zenon
<1>4. /\ m \in FurtherPages /\ m.seq = cargoSequence /\ m.repository = cargoRepository
      /\ m.page = cargoPage + 1 /\ (~m.early => ~Awaited)
  <2>1. Awaited \in BOOLEAN
    BY Zenon DEF Awaited
  <2>2. m.early = Awaited
    BY Zenon
  <2>3. ~m.early => ~Awaited
    BY <2>2, Zenon
  <2> HIDE DEF Awaited
  <2> QED BY <1>1, <1>t, <2>1, <2>3, OpsAssumption DEF FurtherPages
<1>5. /\ cargoView' \in CargoViews /\ cargoView'.kind = cargoView.kind
      /\ cargoView'.details = cargoView.details /\ cargoView'.rows = cargoView.rows
  <2>1. FALSE \in BOOLEAN
    OBVIOUS
  <2> QED BY <2>1, <1>2, <1>t, ButtonTypes, Zenon
<1> HIDE DEF m
<1>6. CargoTold'
  <2>1. (Awaited' <=> Awaited) /\ (CargoShown => CargoShown')
    BY <1>1, <1>5 DEF Awaited, CargoShown, Empty, Shown
  <2>2. ASSUME ~Awaited PROVE OwnMore(m)
    <3>1. cargoPast # "failed"
      BY <1>1, <1>t DEF CargoTold
    <3>2. ASSUME cargoPast = "own"
          PROVE  cargoRoute.kind = "overview" /\ <<m.repository, m.page - 1>> \in cargoList
      <4>1. CargoShown /\ cargoRoute.kind = "overview"
        BY <1>1, <2>2, <3>2, ViewTellsRoute
      <4>2. PICK last \in cargoPage..CatalogPages : cargoList = PagesUpTo(cargoRoute.repository, last)
        BY <4>1 DEF CargoShown
      <4>3. m.page - 1 = cargoPage /\ cargoPage \in 1..last
        BY <4>2, <1>4, <1>t
      <4> QED BY <4>1, <4>2, <4>3, <1>4, <1>t DEF PagesUpTo
    <3> QED BY <2>2, <3>1, <3>2, <1>4 DEF OwnMore
  <2>3. m.seq <= cargoSequence /\ (m.seq = cargoSequence /\ ~m.early => OwnMore(m))
    BY <2>2, <1>4, <1>t
  <2>4. \A j \in cargoMores' : j.seq <= cargoSequence /\ (j.seq = cargoSequence /\ ~j.early => OwnMore(j))
    BY <2>3, <1>1, <1>t DEF CargoTold
  <2> QED BY <2>1, <2>4, <1>1, <1>5, <1>t DEF CargoTold, OwnMore, OwnOperation
<1>7. cargoMores' \subseteq FurtherPages /\ cargoLeft' \in 0..MaxCargoOps
  BY <1>1, <1>4, <1>t, OpsAssumption
<1> QED BY <1>1, <1>3, <1>5, <1>6, <1>7, <1>t, WithinRoute

LEMMA MoreArrivesKeeps == ASSUME CargoInv, NEW m \in cargoMores, MoreArrives(m) PROVE CargoInv'
<1>t. /\ cargoDetails \in PackageRoutes \union {Hidden} /\ cargoView \in CargoViews
      /\ cargoView.kind = "package" => cargoView.details \in PackageRoutes
      /\ cargoList \subseteq CargoRepositories \X (1..CatalogPages) /\ cargoBusy \in BOOLEAN
      /\ cargoPage \in 1..CatalogPages /\ cargoLeft \in 0..MaxCargoOps /\ CatalogPages \in Nat
      /\ cargoLoads \subseteq RouteLoads /\ cargoMores \subseteq FurtherPages /\ cargoOps \subseteq Operations
      /\ \A o \in cargoOps : o.stage = "refresh" => o.path \in PackageRoutes
      /\ cargoPast \in Pasts /\ cargoRepository = cargoRoute.repository
      /\ CargoTold
  BY CargoFacts
<1>1. /\ cargoMores' = cargoMores \ {m}
      /\ UNCHANGED <<cargoRoute, cargoSequence, cargoRepository, cargoLoads, cargoOps, cargoLeft>>
  BY DEF MoreArrives
<1>a. Awaited' <=> Awaited
  BY <1>1 DEF Awaited
<1>2. CASE m.seq # cargoSequence
  <2>1. UNCHANGED <<cargoBusy, cargoPage, cargoList, cargoView, cargoDetails, cargoPast>>
    BY <1>2 DEF MoreArrives, CurrentCargo
  <2>2. CargoTold'
    BY <1>1, <1>a, <1>t, <2>1, SameTold
  <2>3. cargoBusy' \in BOOLEAN
    BY <2>1, <1>t, Zenon
  <2> QED BY <1>1, <2>1, <2>2, <2>3, <1>t, WithinRoute
<1>3. CASE m.seq = cargoSequence
  <2>b. cargoBusy' \in BOOLEAN
    BY <1>3, Zenon DEF MoreArrives, CurrentCargo
  <2>1. CASE /\ cargoPage' = m.page /\ cargoList' = cargoList \union {<<m.repository, m.page>>}
             /\ RenderCargoOverview(cargoList')
             /\ cargoPast' = IF m.early THEN "crossed" ELSE cargoPast
    <3>1. /\ m.page \in 2..CatalogPages /\ m.repository \in CargoRepositories
      BY <1>t DEF FurtherPages
    <3>2. cargoView' = Shown("overview", Hidden, cargoList') /\ cargoDetails' = Hidden
      BY <2>1 DEF RenderCargoOverview
    <3>3. /\ cargoList' \subseteq CargoRepositories \X (1..CatalogPages) /\ cargoPage' \in 1..CatalogPages
          /\ cargoPast' \in Pasts
      BY <2>1, <3>1, <1>t DEF Pasts
    <3>4. cargoView' \in CargoViews /\ cargoView'.kind = "overview" /\ cargoView'.rows = cargoList'
      BY <3>2, <3>3, ShownTypes
    <3>5. CASE m.early
      <4>1. cargoPast' = "crossed"
        BY <2>1, <3>5
      <4> QED BY <1>1, <1>a, <1>t, <2>b, <3>2, <3>3, <3>4, <4>1, WithinRoute DEF CargoTold, OwnMore, OwnOperation
    <3>6. CASE ~m.early
      <4>p. cargoPast' = cargoPast
        BY <2>1, <3>6
      <4>o. OwnMore(m)
        BY <1>3, <1>t, <3>6 DEF CargoTold
      <4>1. ASSUME cargoPast = "own"
            PROVE  /\ CargoShown' /\ cargoRoute.kind = "overview"
        <5>1. /\ m.repository = cargoRepository /\ cargoRoute.kind = "overview"
              /\ <<m.repository, m.page - 1>> \in cargoList
          BY <4>1, <4>o DEF OwnMore
        <5>2. CargoShown
          BY <4>1, <4>o, <1>t DEF OwnMore, CargoTold
        <5>3. PICK last \in cargoPage..CatalogPages : cargoList = PagesUpTo(m.repository, last)
          BY <5>1, <5>2, <1>t DEF CargoShown
        <5>4. last \in Nat /\ m.page - 1 \in 1..last
          BY <5>1, <5>3, <1>t DEF PagesUpTo
        <5> DEFINE top == IF m.page <= last THEN last ELSE m.page
        <5>5. top \in m.page..CatalogPages /\ \A n \in Int : n \in 1..top <=> (n \in 1..last \/ n = m.page)
          BY <5>3, <5>4, <3>1, <1>t
        <5> HIDE DEF top
        <5>6. cargoList' = PagesUpTo(m.repository, top)
          <6>1. 1..top = (1..last) \union {m.page}
            BY <5>5, <3>1
          <6> QED BY <2>1, <5>3, <6>1 DEF PagesUpTo
        <5> QED BY <1>1, <2>1, <3>4, <5>1, <5>5, <5>6, <1>t DEF CargoShown
      <4>2. CargoTold'
        <5>1. cargoPast # "failed"
          BY <4>o DEF OwnMore
        <5>2. \A j \in cargoMores : j.seq <= cargoSequence /\ (j.seq = cargoSequence /\ ~j.early => OwnMore(j)')
          BY <1>1, <1>a, <1>t, <2>1, <4>p DEF CargoTold, OwnMore
        <5>3. \A o \in cargoOps : o.seq <= cargoSequence /\ (o.seq = cargoSequence => OwnOperation(o)')
          BY <1>1, <1>a, <1>t, <4>p DEF CargoTold, OwnOperation
        <5> QED BY <1>1, <4>1, <4>p, <5>1, <5>2, <5>3 DEF CargoTold
      <4> QED BY <1>1, <1>t, <2>b, <3>2, <3>3, <3>4, <4>2, WithinRoute
    <3> QED BY <3>5, <3>6
  <2>2. CASE /\ cargoView' = [cargoView EXCEPT !.more = @ \/ cargoView.kind = "overview"]
             /\ UNCHANGED <<cargoPage, cargoList, cargoDetails, cargoPast>>
    <3>1. (cargoView.more \/ cargoView.kind = "overview") \in BOOLEAN
      BY Zenon
    <3>2. /\ cargoView' \in CargoViews /\ cargoView'.kind = cargoView.kind
          /\ cargoView'.details = cargoView.details /\ cargoView'.rows = cargoView.rows
      BY <2>2, <3>1, <1>t, ButtonTypes, Zenon
    <3>3. ASSUME cargoView = Empty PROVE cargoView' = Empty
      <4>1. Empty.kind = "empty" /\ ~Empty.more
        BY DEF Empty, Shown
      <4>2. (cargoView.more \/ cargoView.kind = "overview") = Empty.more
        <5>1. Empty.more \in BOOLEAN
          BY Zenon DEF Empty, Shown
        <5> QED BY <3>1, <3>3, <4>1, <5>1
      <4>3. cargoView' = [Empty EXCEPT !.more = Empty.more]
        BY <2>2, <3>3, <4>2, Zenon
      <4> QED BY <4>3 DEF Empty, Shown
    <3>4. CargoShown => CargoShown'
      BY <1>1, <2>2, <3>2, <3>3 DEF CargoShown
    <3>5. CargoTold'
      BY <1>1, <1>a, <1>t, <2>2, <3>2, <3>4 DEF CargoTold, OwnMore, OwnOperation
    <3> QED BY <1>1, <2>b, <2>2, <3>2, <3>5, <1>t, WithinRoute
  <2> QED BY <1>3, <2>1, <2>2 DEF MoreArrives, CurrentCargo
<1> QED BY <1>2, <1>3

\* An operation begins, goes on or ends.
LEMMA OperationMoves ==
    ASSUME CargoInv, NEW o, NEW k \in Operations,
           k.stage = "refresh" => k.path \in PackageRoutes,
           k.stage = "refresh" => k.path = Package(cargoRepository, cargoDetails.crate),
           UNCHANGED <<cargoRoute, cargoSequence, cargoRepository, cargoDetails, cargoList, cargoPage,
                       cargoView, cargoBusy, cargoLoads, cargoMores, cargoPast>>,
           cargoLeft' \in 0..MaxCargoOps,
           \/ /\ o \in cargoOps /\ k.seq = o.seq
              /\ cargoOps' \in {cargoOps \ {o}, (cargoOps \ {o}) \union {k}}
           \/ /\ cargoOps' = cargoOps \union {k} /\ cargoView.kind = "package"
              /\ k.seq <= cargoSequence /\ (k.seq = cargoSequence => ~Awaited)
    PROVE  CargoInv'
<1>t. /\ cargoDetails \in PackageRoutes \union {Hidden} /\ cargoView \in CargoViews
      /\ cargoView.kind = "package" => cargoView.details \in PackageRoutes
      /\ cargoList \subseteq CargoRepositories \X (1..CatalogPages) /\ cargoBusy \in BOOLEAN
      /\ cargoPage \in 1..CatalogPages /\ cargoPast \in Pasts
      /\ cargoLoads \subseteq RouteLoads /\ cargoMores \subseteq FurtherPages /\ cargoOps \subseteq Operations
      /\ \A j \in cargoOps : j.stage = "refresh" => j.path \in PackageRoutes
      /\ cargoRepository = cargoRoute.repository /\ cargoRoute \in CargoRoutes
      /\ CargoTold
  BY CargoFacts
<1>1. cargoBusy' \in BOOLEAN
  BY <1>t, Zenon
<1>2. \A j \in cargoOps' : j \in cargoOps \/ j = k
  OBVIOUS
<1>3. cargoOps' \subseteq Operations /\ \A j \in cargoOps' : j.stage = "refresh" => j.path \in PackageRoutes
  BY <1>2, <1>t
<1>a. Awaited' <=> Awaited
  BY DEF Awaited
<1>4. ASSUME k \in cargoOps' PROVE k.seq <= cargoSequence /\ (k.seq = cargoSequence => OwnOperation(k))
  <2>1. k \notin cargoOps \/ k \in cargoOps
    OBVIOUS
  <2>2. CASE k \in cargoOps
    BY <2>2, <1>t DEF CargoTold
  <2>3. CASE k \notin cargoOps
    <3>1. k.seq <= cargoSequence
      BY <1>4, <2>3, <1>t DEF CargoTold
    <3>2. ASSUME k.seq = cargoSequence PROVE OwnOperation(k)
      <4>1. \/ o \in cargoOps /\ OwnOperation(o)
            \/ cargoView.kind = "package" /\ ~Awaited
        BY <1>4, <2>3, <3>2, <1>t DEF CargoTold
      <4>2. ~Awaited /\ cargoPast # "failed"
        BY <4>1, <1>t DEF OwnOperation, CargoTold
      <4>3. ASSUME cargoPast = "own"
            PROVE  cargoRoute.kind = "package" /\ (k.stage = "refresh" => k.path = cargoRoute)
        <5>1. CargoShown /\ cargoRoute.kind = "package"
          BY <4>1, <4>2, <4>3, ViewTellsRoute DEF OwnOperation
        <5>2. Package(cargoRepository, cargoDetails.crate) = cargoRoute
          BY <5>1, <1>t, RouteShapes DEF CargoShown
        <5> QED BY <5>1, <5>2
      <4> QED BY <4>2, <4>3 DEF OwnOperation
    <3> QED BY <3>1, <3>2
  <2> QED BY <2>2, <2>3
<1>5. \A j \in cargoOps' : j.seq <= cargoSequence /\ (j.seq = cargoSequence => OwnOperation(j))
  BY <1>2, <1>4, <1>t DEF CargoTold
<1>6. CargoTold'
  <2>1. CargoShown => CargoShown'
    BY DEF CargoShown
  <2> QED BY <2>1, <1>5, <1>a, <1>t DEF CargoTold, OwnMore, OwnOperation
<1> QED BY <1>1, <1>3, <1>6, <1>t, WithinRoute

LEMMA ClickKeeps == ASSUME CargoInv, NEW kind \in OpKinds, ClickOperation(kind) PROVE CargoInv'
<1>t. /\ cargoDetails \in PackageRoutes \union {Hidden}
      /\ cargoView.kind = "package" => cargoView.details \in PackageRoutes
      /\ cargoRepository \in CargoRepositories \union {NoCrate} /\ cargoLeft \in 0..MaxCargoOps
      /\ cargoPast \in Pasts
  BY CargoFacts
<1> DEFINE k == [kind |-> kind, id |-> cargoLeft, target |-> cargoView.details,
                 path |-> IF kind = "mutate" THEN Package(cargoRepository, cargoDetails.crate) ELSE Hidden,
                 seq |-> IF Awaited THEN cargoSequence - 1 ELSE cargoSequence,
                 stage |-> IF kind = "mutate" THEN "request" ELSE "dialog"]
<1>1. /\ cargoView.kind = "package" /\ cargoDetails # Hidden /\ cargoLeft > 0 /\ cargoRepository # NoCrate
      /\ cargoOps' = cargoOps \union {k} /\ cargoLeft' = cargoLeft - 1
      /\ UNCHANGED <<cargoRoute, cargoSequence, cargoRepository, cargoDetails, cargoList, cargoPage,
                     cargoView, cargoBusy, cargoLoads, cargoMores, cargoPast>>
  BY DEF ClickOperation
<1>2. /\ cargoSequence \in 0..MaxCargoRoutes /\ MaxCargoRoutes \in Nat
      /\ Awaited => cargoSequence > 0
  <2>1. cargoSequence \in 0..MaxCargoRoutes /\ cargoLoads \subseteq RouteLoads
    BY CargoFacts
  <2> QED BY <2>1, RoutesAssumption DEF Awaited, RouteLoads
<1>3. cargoLeft \in 1..MaxCargoOps /\ cargoLeft' \in 0..MaxCargoOps
  BY <1>1, <1>t, OpsAssumption
<1>4. Package(cargoRepository, cargoDetails.crate) \in PackageRoutes
  <2>1. cargoDetails.crate \in Crates
    BY <1>1, <1>t, RouteShapes DEF PackageRoutes
  <2> QED BY <2>1, <1>1, <1>t, RouteMakes
<1>5. k \in Operations /\ k.stage # "refresh"
  <2>1. k.seq \in 0..MaxCargoRoutes
    BY <1>2
  <2> QED BY <1>1, <1>3, <1>4, <1>t, <2>1 DEF Operations
<1>6. k.seq <= cargoSequence /\ (k.seq = cargoSequence => ~Awaited)
  BY <1>2
<1> HIDE DEF k
<1> QED BY <1>1, <1>3, <1>5, <1>6, OperationMoves

LEMMA OperationKeeps ==
    ASSUME CargoInv, NEW o \in cargoOps, AnswerQuestion(o) \/ OperationEnds(o) \/ RefreshCargoPackage(o)
    PROVE  CargoInv'
<1>t. /\ cargoDetails \in PackageRoutes \union {Hidden}
      /\ cargoRepository \in CargoRepositories \union {NoCrate} /\ cargoLeft \in 0..MaxCargoOps
      /\ cargoPast \in Pasts /\ o \in Operations
  BY CargoFacts
<1>1. /\ UNCHANGED <<cargoRoute, cargoSequence, cargoRepository, cargoDetails, cargoList, cargoPage,
                     cargoView, cargoBusy, cargoLoads, cargoMores, cargoPast>>
      /\ cargoLeft' \in 0..MaxCargoOps
  BY <1>t DEF AnswerQuestion, OperationEnds, RefreshCargoPackage
<1>3. CASE cargoOps' = cargoOps \ {o}
  <2> DEFINE k == [o EXCEPT !.stage = "request"]
  <2>1. k \in Operations /\ k.stage # "refresh" /\ k.seq = o.seq
    BY <1>t DEF Operations
  <2> HIDE DEF k
  <2> QED BY <1>1, <1>3, <2>1, OperationMoves
<1>4. CASE AnswerQuestion(o) /\ cargoOps' # cargoOps \ {o}
  <2> DEFINE crate == IF o.kind = "transfer" THEN cargoDetails.crate ELSE o.target.crate
             k == [o EXCEPT !.stage = "request", !.path = Package(cargoRepository, crate)]
  <2>1. crate # NoCrate /\ cargoRepository # NoCrate /\ cargoOps' = (cargoOps \ {o}) \union {k}
    BY <1>4 DEF AnswerQuestion
  <2>2. crate \in Crates
    <3>1. o.target.crate \in Crates
      BY <1>t, RouteShapes DEF Operations, PackageRoutes
    <3>2. cargoDetails.crate \in Crates \union {NoCrate}
      BY <1>t, RouteShapes DEF PackageRoutes, Hidden
    <3> QED BY <2>1, <3>1, <3>2
  <2> HIDE DEF crate
  <2>3. Package(cargoRepository, crate) \in PackageRoutes
    BY <2>1, <2>2, <1>t, RouteMakes
  <2>4. k \in Operations /\ k.stage # "refresh" /\ k.seq = o.seq
    BY <2>3, <1>t DEF Operations
  <2> HIDE DEF k
  <2> QED BY <1>1, <2>1, <2>4, OperationMoves
<1>5. CASE RefreshCargoPackage(o)
  <2> DEFINE k == [o EXCEPT !.stage = "refresh", !.path = Package(cargoRepository, cargoDetails.crate)]
  <2>1. cargoDetails # Hidden /\ cargoRepository # NoCrate /\ cargoOps' = (cargoOps \ {o}) \union {k}
    BY <1>5 DEF RefreshCargoPackage
  <2>2. Package(cargoRepository, cargoDetails.crate) \in PackageRoutes
    <3>1. cargoDetails.crate \in Crates
      BY <2>1, <1>t, RouteShapes DEF PackageRoutes
    <3> QED BY <3>1, <2>1, <1>t, RouteMakes
  <2>3. k \in Operations /\ k.path = Package(cargoRepository, cargoDetails.crate) /\ k.seq = o.seq
    BY <2>2, <1>t DEF Operations
  <2> HIDE DEF k
  <2> QED BY <1>1, <2>1, <2>2, <2>3, OperationMoves
<1> QED BY <1>3, <1>4, <1>5 DEF OperationEnds

LEMMA RefreshArrivesKeeps == ASSUME CargoInv, NEW o \in cargoOps, RefreshArrives(o) PROVE CargoInv'
<1>t. /\ cargoDetails \in PackageRoutes \union {Hidden} /\ cargoView \in CargoViews
      /\ cargoView.kind = "package" => cargoView.details \in PackageRoutes
      /\ cargoList \subseteq CargoRepositories \X (1..CatalogPages) /\ cargoBusy \in BOOLEAN
      /\ cargoPage \in 1..CatalogPages /\ cargoLeft \in 0..MaxCargoOps
      /\ cargoLoads \subseteq RouteLoads /\ cargoMores \subseteq FurtherPages /\ cargoOps \subseteq Operations
      /\ \A j \in cargoOps : j.stage = "refresh" => j.path \in PackageRoutes
      /\ cargoPast \in Pasts
      /\ CargoTold
  BY CargoFacts
<1>1. /\ o.stage = "refresh" /\ cargoOps' = cargoOps \ {o}
      /\ UNCHANGED <<cargoRoute, cargoSequence, cargoRepository, cargoList, cargoPage, cargoBusy,
                     cargoLoads, cargoMores, cargoLeft>>
      /\ \/ /\ cargoDetails' = o.path /\ RenderCargoPackagePage(o.path)
            /\ cargoPast' = IF o.seq = cargoSequence THEN cargoPast ELSE "crossed"
         \/ UNCHANGED <<cargoDetails, cargoView, cargoPast>>
  BY DEF RefreshArrives
<1>b. cargoBusy' \in BOOLEAN
  BY <1>1, <1>t, Zenon
<1>a. Awaited' <=> Awaited
  BY <1>1 DEF Awaited
<1>2. CASE UNCHANGED <<cargoDetails, cargoView, cargoPast>>
  <2>1. CargoTold'
    BY <1>1, <1>2, <1>a, <1>t, SameTold
  <2> QED BY <1>1, <1>b, <1>2, <2>1, <1>t, WithinRoute
<1>3. CASE /\ cargoDetails' = o.path /\ RenderCargoPackagePage(o.path)
           /\ cargoPast' = IF o.seq = cargoSequence THEN cargoPast ELSE "crossed"
  <2>1. o.path \in PackageRoutes
    BY <1>1, <1>t
  <2>2. cargoView' = Shown("package", o.path, {}) /\ cargoPast' \in Pasts
    BY <1>3, <1>t DEF RenderCargoPackagePage, Pasts
  <2>3. cargoView' \in CargoViews /\ cargoView'.kind = "package" /\ cargoView'.details = o.path
    BY <2>1, <2>2, ShownTypes
  <2>4. CASE o.seq = cargoSequence
    <3>1. OwnOperation(o) /\ cargoPast' = cargoPast
      BY <1>3, <1>t, <2>4 DEF CargoTold
    <3>2. cargoPast = "own" => CargoShown'
      BY <1>1, <1>3, <2>3, <3>1 DEF CargoShown, OwnOperation
    <3>3. CargoTold'
      BY <1>1, <1>a, <1>t, <3>1, <3>2 DEF CargoTold, OwnMore, OwnOperation
    <3> QED BY <1>1, <1>3, <1>b, <2>1, <2>2, <2>3, <3>3, <1>t, WithinRoute
  <2>5. CASE o.seq # cargoSequence
    <3>1. cargoPast' = "crossed"
      BY <1>3, <2>5
    <3>2. CargoTold'
      BY <1>1, <1>a, <1>t, <3>1 DEF CargoTold, OwnMore, OwnOperation
    <3> QED BY <1>1, <1>3, <1>b, <2>1, <2>2, <2>3, <3>2, <1>t, WithinRoute
  <2> QED BY <2>4, <2>5
<1> QED BY <1>1, <1>2, <1>3

LEMMA CargoStays == ASSUME CargoInv, [CargoNext]_cargoVars PROVE CargoInv'
<1>1. CASE UNCHANGED cargoVars
  <2>1. cargoBusy' \in BOOLEAN
    BY <1>1, CargoFacts, Zenon DEF cargoVars
  <2>2. CargoTold'
    <3>1. Awaited' <=> Awaited
      BY <1>1 DEF cargoVars, Awaited
    <3> QED BY <1>1, <3>1, CargoFacts, SameTold DEF cargoVars
  <2> QED BY <1>1, <2>1, <2>2, CargoFacts, WithinRoute DEF cargoVars
<1> QED BY <1>1, GoToKeeps, LoadArrivesKeeps, LoadEndsKeeps, CargoLanguageKeeps, LoadMoreKeeps,
           MoreArrivesKeeps, ClickKeeps, OperationKeeps, DeletedPackageKeeps, RefreshArrivesKeeps
        DEF CargoNext

LEMMA CargoIsSafe == CargoInv => CargoTypeOK /\ CargoShowsRoute /\ CargoCatalogWhole
<1> SUFFICES ASSUME CargoInv PROVE CargoTypeOK /\ CargoShowsRoute /\ CargoCatalogWhole
  OBVIOUS
<1>1. CargoTypeOK
  BY DEF CargoInv, CargoTyped
<1>2. ASSUME cargoPast = "own", ~Awaited
      PROVE  /\ CargoShown
             /\ cargoView.kind = "overview" => cargoRoute.kind = "overview"
  BY <1>2, ViewTellsRoute
<1>3. cargoRoute.kind \in {"hidden", "overview", "package", "invalid"} /\ cargoPast \in Pasts
  BY CargoFacts, RouteShapes
<1>4. CargoShowsRoute
  BY <1>2, <1>3 DEF CargoShowsRoute, CargoShown, CargoInv, CargoTold, Pasts
<1>5. CargoCatalogWhole
  BY <1>2 DEF CargoCatalogWhole, CargoShown, PagesUpTo
<1> QED BY <1>1, <1>4, <1>5

-----------------------------------------------------------------------------
(* MessageCenter                                                           *)

\* The lists in which no message comes twice.
Lists == {s \in Seq(Messages) : \A i, j \in 1..Len(s) : i # j => s[i] # s[j]}
Counts == 0..MaxMessages

LEMMA ListIs ==
    ASSUME NEW s \in Lists
    PROVE  /\ s \in Seq(Messages) /\ Len(s) \in Nat /\ DOMAIN s = 1..Len(s)
           /\ \A i \in 1..Len(s) : s[i] \in Messages
           /\ ToSet(s) \subseteq Messages /\ \A i \in 1..Len(s) : s[i] \in ToSet(s)
BY DEF Lists, ToSet

LEMMA EmptyList == <<>> \in Lists
<1>1. <<>> \in Seq(Messages) /\ Len(<<>>) = 0
  BY EmptySeq
<1> QED BY <1>1 DEF Lists

\* A function on 1..n into the messages is a sequence of that length.
LEMMA ListMakes ==
    ASSUME NEW n \in Nat, NEW s \in [1..n -> Messages], \A i, j \in 1..n : i < j => s[i] # s[j]
    PROVE  s \in Lists /\ Len(s) = n
<1>1. s \in Seq(Messages) /\ Len(s) = n
  BY SeqDef
<1>2. \A i, j \in 1..n : i # j => s[i] # s[j]
  BY DEF Messages
<1> QED BY <1>1, <1>2 DEF Lists

LEMMA SomeCount ==
    ASSUME NEW found \in SUBSET Messages
    PROVE  IsFiniteSet(found) /\ Cardinality(found) \in Nat /\ Cardinality(found) \in Counts
<1>1. IsFiniteSet(Messages) /\ Cardinality(Messages) = MaxMessages
  BY FS_Interval, MessagesAssumption DEF Messages
<1>2. IsFiniteSet(found) /\ Cardinality(found) <= Cardinality(Messages)
  BY <1>1, FS_Subset
<1>3. Cardinality(found) \in Nat
  BY <1>2, FS_CardinalityType
<1> QED BY <1>1, <1>2, <1>3, MessagesAssumption DEF Counts

\* The server's page goes down, so no message is in it twice.
LEMMA NewestIsList ==
    ASSUME NEW found \in SUBSET Messages, NEW n \in Nat, NEW page \in Newest(found, n)
    PROVE  page \in Lists /\ Len(page) = n /\ \A i \in 1..n : page[i] \in found
<1>1. page \in [1..n -> found] /\ \A i, j \in 1..n : i < j => page[j] < page[i]
  BY DEF Newest
<1>2. page \in [1..n -> Messages]
  BY <1>1
<1>3. \A i, j \in 1..n : i < j => page[i] # page[j]
  BY <1>1, <1>2, MessagesAssumption DEF Messages
<1> QED BY <1>1, <1>2, <1>3, ListMakes

\* A filter takes places that go up, so it repeats nothing that its list does not.
LEMMA FilteredIsList ==
    ASSUME NEW list \in Lists, NEW kept, NEW s \in Filtered(list, kept)
    PROVE  s \in Lists /\ \A i \in 1..Len(s) : s[i] \in kept
<1>l. /\ list \in Seq(Messages) /\ Len(list) \in Nat /\ DOMAIN list = 1..Len(list)
      /\ \A i \in 1..Len(list) : list[i] \in Messages
      /\ \A i, j \in 1..Len(list) : i # j => list[i] # list[j]
  BY ListIs DEF Lists
<1> DEFINE places == {i \in DOMAIN list : list[i] \in kept}
           n == Cardinality(places)
<1>1. n \in Nat
  <2>1. IsFiniteSet(1..Len(list))
    BY <1>l, FS_Interval
  <2>2. places \subseteq 1..Len(list)
    BY <1>l
  <2> QED BY <2>1, <2>2, FS_Subset, FS_CardinalityType
<1>2. PICK at \in [1..n -> places] :
        /\ \A i, j \in DOMAIN at : i < j => at[i] < at[j]
        /\ s = [i \in DOMAIN at |-> list[at[i]]]
  BY DEF Filtered
<1>3. \A i \in 1..n : at[i] \in 1..Len(list) /\ list[at[i]] \in kept
  BY <1>2, <1>l
<1> HIDE DEF n, places
<1>4. DOMAIN at = 1..n
  BY <1>2
<1>5. s \in [1..n -> Messages] /\ \A i \in 1..n : s[i] = list[at[i]]
  BY <1>2, <1>3, <1>4, <1>l
<1>6. ASSUME NEW i \in 1..n, NEW j \in 1..n, i < j PROVE s[i] # s[j]
  <2>1. at[i] # at[j]
    BY <1>2, <1>3, <1>4, <1>6, <1>l
  <2> QED BY <2>1, <1>3, <1>5, <1>l
<1>7. s \in Lists /\ Len(s) = n
  BY <1>1, <1>5, <1>6, ListMakes
<1> QED BY <1>3, <1>5, <1>7

LEMMA AppendedIsList ==
    ASSUME messages \in Lists, NEW page \in Lists, NEW all \in Appended(page)
    PROVE  all \in Lists
<1>1. PICK new \in Filtered(page, Messages \ ToSet(messages)) : all = messages \o new
  BY DEF Appended
<1>2. new \in Lists /\ \A i \in 1..Len(new) : new[i] \in Messages \ ToSet(messages)
  BY <1>1, FilteredIsList
<1> DEFINE m == Len(messages)
           n == Len(new)
<1>3. /\ messages \in Seq(Messages) /\ new \in Seq(Messages) /\ m \in Nat /\ n \in Nat
      /\ \A i \in 1..m : messages[i] \in ToSet(messages)
      /\ \A i, j \in 1..m : i # j => messages[i] # messages[j]
      /\ \A i, j \in 1..n : i # j => new[i] # new[j]
  BY <1>2, ListIs DEF Lists
<1>4. /\ all \in Seq(Messages) /\ Len(all) = m + n
      /\ \A i \in 1..(m + n) : all[i] = IF i <= m THEN messages[i] ELSE new[i - m]
  BY <1>1, <1>3, ConcatProperties
<1>5. \A i \in 1..n : new[i] \notin ToSet(messages)
  BY <1>2
<1> HIDE DEF m, n
<1>6. ASSUME NEW i \in 1..(m + n), NEW j \in 1..(m + n), i < j PROVE all[i] # all[j]
  <2>1. CASE j <= m
    <3>1. i \in 1..m /\ j \in 1..m /\ i # j
      BY <2>1, <1>6, <1>3
    <3> QED BY <3>1, <2>1, <1>3, <1>4
  <2>2. CASE i <= m /\ j > m
    <3>1. i \in 1..m /\ j - m \in 1..n
      BY <2>2, <1>3
    <3>2. all[i] = messages[i] /\ all[j] = new[j - m]
      BY <2>2, <1>3, <1>4
    <3> QED BY <3>1, <3>2, <1>3, <1>5
  <2>3. CASE i > m
    <3>1. i - m \in 1..n /\ j - m \in 1..n /\ i - m # j - m
      BY <2>3, <1>6, <1>3
    <3>2. all[i] = new[i - m] /\ all[j] = new[j - m]
      BY <2>3, <1>3, <1>4, <1>6
    <3> QED BY <3>1, <3>2, <1>3
  <2> QED BY <2>1, <2>2, <2>3, <1>3
<1>7. \A i, j \in 1..Len(all) : i # j => all[i] # all[j]
  BY <1>3, <1>4, <1>6
<1> QED BY <1>4, <1>7 DEF Lists

\* The invariant, by what the steps move together.
MailTyped ==
    /\ mailbox \subseteq Messages /\ unreadMail \subseteq mailbox
    /\ pendingMail \subseteq mailbox /\ pendingMail \subseteq Actionable /\ arrived \in Counts
ListingTyped == messages \in Lists /\ readMarks \subseteq Messages /\ nextCursor \in Counts
SessionTyped == signedIn \in BOOLEAN /\ sessions \in 0..MaxSessions /\ OnePoller
BadgeTyped == unreadCount \in Counts /\ polls \subseteq Counts
FetchTyped == fetching.page \in Lists /\ fetching.more \in Counts /\ fetching.unread \in Counts
RemovalsTyped ==
    \A r \in removing : /\ r \in [message : Messages, fading : BOOLEAN, rest : Seq(Messages)]
                        /\ r.rest \in Lists
ClearingTyped ==
    clearing.step \in {"idle", "confirm", "sent", "fading", "refetch"} /\ clearing.rest \in Lists
RequestsTyped == marking \subseteq Counts /\ deciding \subseteq Messages

MessageInv ==
    MailTyped /\ ListingTyped /\ SessionTyped /\ BadgeTyped /\ FetchTyped /\ RemovalsTyped
    /\ ClearingTyped /\ RequestsTyped

LEMMA MessageIsSafe == MessageInv => MessageTypeOK /\ OnePoller /\ ListedOnce
<1> SUFFICES ASSUME MessageInv PROVE MessageTypeOK /\ OnePoller /\ ListedOnce
  OBVIOUS
<1>1. pollers \in Nat /\ OnePoller
  BY DEF MessageInv, SessionTyped, OnePoller
<1>2. /\ messages \in Seq(Messages) /\ fetching.page \in Seq(Messages) /\ clearing.rest \in Seq(Messages)
      /\ ListedOnce
  BY DEF MessageInv, ListingTyped, FetchTyped, ClearingTyped, Lists, ListedOnce
<1>3. MessageTypeOK
  BY <1>1, <1>2 DEF MessageInv, MailTyped, ListingTyped, SessionTyped, BadgeTyped, ClearingTyped,
                    RequestsTyped, MessageTypeOK, Counts
<1> QED BY <1>1, <1>2, <1>3

LEMMA FetchRests == FetchTyped /\ UNCHANGED fetching => FetchTyped'
BY DEF FetchTyped

LEMMA NoFetchTyped == fetching' = NoFetch => FetchTyped'
BY EmptyList, MessagesAssumption DEF FetchTyped, NoFetch, Counts

LEMMA ClearTypes ==
    ASSUME NEW step \in {"idle", "confirm", "sent", "fading", "refetch"}
    PROVE  clearing' = Clear(step) => ClearingTyped'
BY EmptyList DEF Clear, ClearingTyped

LEMMA MessageStarts == MessageInit => MessageInv
<1> SUFFICES ASSUME MessageInit PROVE MessageInv
  OBVIOUS
<1>1. FetchTyped /\ ClearingTyped /\ ListingTyped /\ BadgeTyped
  BY EmptyList, MessagesAssumption
     DEF MessageInit, FetchTyped, NoFetch, ClearingTyped, Clear, ListingTyped, BadgeTyped, Counts
<1>2. SessionTyped
  <2>1. signedIn \in BOOLEAN /\ ~signedIn
    BY Zenon DEF MessageInit
  <2>2. pollers = 0 /\ sessions \in 0..MaxSessions
    BY SessionsAssumption DEF MessageInit
  <2> QED BY <2>1, <2>2 DEF SessionTyped, OnePoller
<1>3. MailTyped /\ RemovalsTyped /\ RequestsTyped
  BY MessagesAssumption DEF MessageInit, MailTyped, RemovalsTyped, RequestsTyped, Counts
<1> QED BY <1>1, <1>2, <1>3 DEF MessageInv

LEMMA AskTypes ==
    ASSUME MailTyped, NEW reset, NEW cursor, Ask(reset, cursor)
    PROVE  FetchTyped'
<1> DEFINE left == {m \in mailbox : cursor = 0 \/ m < cursor}
           size == IF Cardinality(left) < PageSize THEN Cardinality(left) ELSE PageSize
<1>1. left \in SUBSET Messages
  BY DEF MailTyped
<1> HIDE DEF left
<1>2. Cardinality(left) \in Nat /\ Cardinality(unreadMail) \in Counts
  BY <1>1, SomeCount DEF MailTyped
<1>3. PICK page \in Newest(left, size) :
        fetching' = [reset |-> reset, page |-> page,
                     more |-> IF Cardinality(left) > PageSize THEN page[size] ELSE 0,
                     unread |-> Cardinality(unreadMail), read |-> mailbox \ unreadMail,
                     under |-> TRUE]
  BY DEF Ask, left
<1>4. size \in Nat
  BY <1>2, PageAssumption
<1>5. Cardinality(left) > PageSize => size \in 1..size
  BY <1>2, PageAssumption
<1> HIDE DEF size
<1>6. page \in Lists /\ \A i \in 1..size : page[i] \in left
  BY <1>1, <1>4, NewestIsList
<1>7. fetching'.page = page /\ fetching'.unread = Cardinality(unreadMail)
      /\ fetching'.more = IF Cardinality(left) > PageSize THEN page[size] ELSE 0
  BY <1>3
<1>8. fetching'.more \in Counts
  BY <1>1, <1>5, <1>6, <1>7, MessagesAssumption DEF Messages, Counts
<1> QED BY <1>2, <1>6, <1>7, <1>8 DEF FetchTyped

\* What a sign-out drops.
LEMMA ForgetKeeps ==
    ASSUME MessageInv, Forget, UNCHANGED sessions \/ (sessions < MaxSessions /\ sessions' = sessions + 1)
    PROVE  /\ ListingTyped' /\ SessionTyped' /\ unreadCount' \in Counts
<1>1. signedIn' \in BOOLEAN /\ ~signedIn'
  BY Zenon DEF Forget
<1>2. pollers' = 0 /\ messages' = <<>> /\ nextCursor' = 0 /\ unreadCount' = 0 /\ UNCHANGED readMarks
  BY DEF Forget
<1>3. sessions' \in 0..MaxSessions
  BY SessionsAssumption DEF MessageInv, SessionTyped
<1>4. SessionTyped'
  BY <1>1, <1>2, <1>3 DEF SessionTyped, OnePoller
<1>5. ListingTyped' /\ unreadCount' \in Counts
  BY <1>2, EmptyList, MessagesAssumption DEF MessageInv, ListingTyped, Counts
<1> QED BY <1>4, <1>5

LEMMA SessionRests == SessionTyped /\ UNCHANGED session => SessionTyped'
<1> SUFFICES ASSUME SessionTyped, UNCHANGED session PROVE SessionTyped'
  OBVIOUS
<1>1. UNCHANGED <<signedIn, sessions, pollers>>
  BY DEF session
<1>2. (signedIn' <=> signedIn) /\ signedIn' \in BOOLEAN
  BY <1>1, Zenon DEF SessionTyped
<1> QED BY <1>1, <1>2 DEF SessionTyped, OnePoller

LEMMA ListingRests == ListingTyped /\ UNCHANGED listing => ListingTyped'
BY DEF ListingTyped, listing

LEMMA MailRests == MailTyped /\ UNCHANGED mailVars => MailTyped'
BY DEF MailTyped, mailVars

LEMMA RequestsRest == RequestsTyped /\ UNCHANGED <<marking, deciding>> => RequestsTyped'
BY DEF RequestsTyped

LEMMA RemovalsRest == RemovalsTyped /\ UNCHANGED removing => RemovalsTyped'
BY DEF RemovalsTyped

LEMMA ClearingRests == ClearingTyped /\ UNCHANGED clearing => ClearingTyped'
BY DEF ClearingTyped

LEMMA BadgeRests == BadgeTyped /\ UNCHANGED <<unreadCount, polls>> => BadgeTyped'
BY DEF BadgeTyped

LEMMA CountsCount == 0 \in Counts /\ Messages \subseteq Counts
BY MessagesAssumption DEF Counts, Messages

LEMMA OneReadCounts == ASSUME unreadCount \in Counts PROVE OneRead \in Counts
BY MessagesAssumption DEF OneRead, Counts

\* The session, the badge and what reaches the mailbox.
LEMMA BadgeKeeps ==
    ASSUME MessageInv, Arrives \/ SignedIn \/ SignedOut \/ PollTick \/ \E n \in polls : PollAnswered(n)
    PROVE  MessageInv'
<1>t. /\ MailTyped /\ ListingTyped /\ SessionTyped /\ BadgeTyped /\ FetchTyped /\ RemovalsTyped
      /\ ClearingTyped /\ RequestsTyped
  BY DEF MessageInv
<1>1. UNCHANGED <<fetching, marking, removing, clearing, deciding>>
  BY DEF Arrives, SignedIn, SignedOut, PollTick, PollAnswered
<1>2. FetchTyped' /\ RemovalsTyped' /\ ClearingTyped' /\ RequestsTyped'
  BY <1>1, <1>t, FetchRests, RemovalsRest, ClearingRests, RequestsRest
<1>3. Cardinality(unreadMail) \in Counts
  BY <1>t, SomeCount DEF MailTyped
<1>4. CASE Arrives
  <2>1. /\ arrived < MaxMessages /\ arrived' = arrived + 1 /\ mailbox' = mailbox \union {arrived'}
        /\ unreadMail' = unreadMail \union {arrived'}
        /\ pendingMail' = pendingMail \union ({arrived'} \intersect Actionable)
        /\ UNCHANGED <<unreadCount, polls, listing, session>>
    BY <1>4 DEF Arrives
  <2>2. arrived' \in Messages /\ arrived' \in Counts
    BY <2>1, <1>t, MessagesAssumption DEF MailTyped, Counts, Messages
  <2>3. MailTyped'
    BY <2>1, <2>2, <1>t DEF MailTyped
  <2> QED BY <2>1, <2>3, <1>2, <1>t, ListingRests, SessionRests, BadgeRests DEF MessageInv
<1>5. CASE SignedIn
  <2>1. /\ sessions < MaxSessions /\ sessions' = sessions + 1 /\ pollers' = 1
        /\ polls' = polls \union {Cardinality(unreadMail)}
        /\ UNCHANGED <<unreadCount, listing, mailVars>>
    BY <1>5 DEF SignedIn
  <2>2. signedIn' \in BOOLEAN /\ signedIn'
    BY <1>5, Zenon DEF SignedIn
  <2>3. SessionTyped'
    BY <2>1, <2>2, <1>t, SessionsAssumption DEF SessionTyped, OnePoller
  <2>4. BadgeTyped'
    BY <2>1, <1>3, <1>t DEF BadgeTyped
  <2> QED BY <2>1, <2>3, <2>4, <1>2, <1>t, ListingRests, MailRests DEF MessageInv
<1>6. CASE SignedOut
  <2>1. Forget /\ sessions < MaxSessions /\ sessions' = sessions + 1 /\ UNCHANGED <<polls, mailVars>>
    BY <1>6 DEF SignedOut
  <2>2. ListingTyped' /\ SessionTyped' /\ unreadCount' \in Counts
    BY <2>1, ForgetKeeps
  <2> QED BY <2>1, <2>2, <1>2, <1>t, MailRests DEF MessageInv, BadgeTyped
<1>7. CASE PollTick
  <2>1. polls' = polls \union {Cardinality(unreadMail)} /\ UNCHANGED <<unreadCount, listing, session, mailVars>>
    BY <1>7 DEF PollTick
  <2>2. BadgeTyped'
    BY <2>1, <1>3, <1>t DEF BadgeTyped
  <2> QED BY <2>1, <2>2, <1>2, <1>t, ListingRests, SessionRests, MailRests DEF MessageInv
<1>8. ASSUME NEW n \in polls, PollAnswered(n) PROVE MessageInv'
  <2>1. /\ polls' = polls \ {n} /\ UNCHANGED mailVars /\ n \in Counts
        /\ \/ unreadCount' = n /\ UNCHANGED <<listing, session>>
           \/ UNCHANGED <<unreadCount, listing, session>>
           \/ Forget /\ UNCHANGED sessions
    BY <1>8, <1>t DEF PollAnswered, BadgeTyped
  <2>2. ListingTyped' /\ SessionTyped' /\ unreadCount' \in Counts
    <3>1. CASE UNCHANGED <<listing, session>> /\ unreadCount' \in {n, unreadCount}
      BY <3>1, <2>1, <1>t, ListingRests, SessionRests DEF BadgeTyped
    <3>2. CASE Forget /\ UNCHANGED sessions
      BY <3>2, ForgetKeeps
    <3> QED BY <2>1, <3>1, <3>2
  <2> QED BY <2>1, <2>2, <1>2, <1>t, MailRests DEF MessageInv, BadgeTyped
<1> QED BY <1>4, <1>5, <1>6, <1>7, <1>8

\* Pages that are asked for and come.
LEMMA FetchKeeps ==
    ASSUME MessageInv, OpenCenter \/ LoadMoreMessages \/ MessagesArrive
    PROVE  MessageInv'
<1>t. /\ MailTyped /\ ListingTyped /\ SessionTyped /\ BadgeTyped /\ FetchTyped /\ RemovalsTyped
      /\ ClearingTyped /\ RequestsTyped
  BY DEF MessageInv
<1>1. UNCHANGED <<polls, marking, removing, deciding>> /\ UNCHANGED mailVars
  BY DEF OpenCenter, LoadMoreMessages, MessagesArrive
<1>2. MailTyped' /\ RemovalsTyped' /\ RequestsTyped'
  BY <1>1, <1>t, MailRests, RemovalsRest, RequestsRest
<1>3. CASE OpenCenter \/ LoadMoreMessages
  <2>1. /\ \E reset, cursor : Ask(reset, cursor)
        /\ UNCHANGED <<unreadCount, clearing, listing, session>>
    BY <1>3 DEF OpenCenter, LoadMoreMessages
  <2>2. FetchTyped'
    BY <2>1, <1>t, AskTypes
  <2> QED BY <1>1, <1>2, <2>1, <2>2, <1>t, ListingRests, SessionRests, BadgeRests, ClearingRests DEF MessageInv
<1>4. CASE MessagesArrive
  <2>1. /\ fetching' = NoFetch
        /\ clearing' = IF clearing.step = "refetch" THEN Clear("idle") ELSE clearing
    BY <1>4 DEF MessagesArrive
  <2>2. FetchTyped' /\ ClearingTyped'
    BY <2>1, <1>t, NoFetchTyped, ClearTypes, ClearingRests
  <2>3. ListingTyped' /\ SessionTyped' /\ unreadCount' \in Counts
    <3>1. CASE /\ messages' \in IF fetching.reset THEN {fetching.page} ELSE Appended(fetching.page)
               /\ readMarks' = (readMarks \ ToSet(fetching.page))
                                  \union (fetching.read \intersect ToSet(fetching.page))
               /\ nextCursor' = fetching.more /\ unreadCount' = fetching.unread
               /\ UNCHANGED session
      <4>1. messages' \in Lists
        BY <3>1, <1>t, AppendedIsList DEF ListingTyped, FetchTyped
      <4>2. ToSet(fetching.page) \subseteq Messages
        BY <1>t, ListIs DEF FetchTyped
      <4> QED BY <3>1, <4>1, <4>2, <1>t, SessionRests DEF ListingTyped, FetchTyped
    <3>2. CASE UNCHANGED <<unreadCount, listing, session>>
      BY <3>2, <1>t, ListingRests, SessionRests DEF BadgeTyped
    <3>3. CASE Forget /\ UNCHANGED sessions
      BY <3>3, ForgetKeeps
    <3> QED BY <1>4, <3>1, <3>2, <3>3 DEF MessagesArrive
  <2> QED BY <1>1, <1>2, <2>2, <2>3, <1>t DEF MessageInv, BadgeTyped
<1> QED BY <1>3, <1>4

\* Reading and deciding.
LEMMA ReadingKeeps ==
    ASSUME MessageInv,
           \/ \E m \in 0..MaxMessages : MarkRead(m) \/ ReadAnswered(m)
           \/ \E m \in Messages : Decide(m)
           \/ \E m \in deciding : Decided(m)
    PROVE  MessageInv'
<1>t. /\ MailTyped /\ ListingTyped /\ SessionTyped /\ BadgeTyped /\ FetchTyped /\ RemovalsTyped
      /\ ClearingTyped /\ RequestsTyped
  BY DEF MessageInv
<1>1. UNCHANGED <<messages, nextCursor, polls, fetching, removing, clearing, mailbox, arrived>> /\ UNCHANGED session
  BY DEF MarkRead, ReadAnswered, Decide, Decided, listing, mailVars
<1>2. SessionTyped' /\ FetchTyped' /\ RemovalsTyped' /\ ClearingTyped'
  BY <1>1, <1>t, SessionRests, FetchRests, RemovalsRest, ClearingRests
<1>3. unreadMail' \subseteq unreadMail /\ pendingMail' \subseteq pendingMail
  BY DEF MarkRead, ReadAnswered, Decide, Decided, mailVars
<1>4. marking' \subseteq Counts /\ deciding' \subseteq Messages
  BY <1>t DEF MarkRead, ReadAnswered, Decide, Decided, RequestsTyped, Counts
<1>5. readMarks' \subseteq Messages
  <2>1. ToSet(messages) \subseteq Messages
    BY <1>t, ListIs DEF ListingTyped
  <2>2. ASSUME NEW m \in 0..MaxMessages, ReadAnswered(m) PROVE readMarks' \subseteq Messages
    <3>1. m # 0 => m \in Messages
      BY MessagesAssumption DEF Messages
    <3> QED BY <2>1, <2>2, <3>1, <1>t DEF ReadAnswered, ListingTyped
  <2>3. ASSUME NEW m \in deciding, Decided(m) PROVE readMarks' \subseteq Messages
    BY <2>3, <1>t DEF Decided, ListingTyped, RequestsTyped
  <2>4. UNCHANGED listing => readMarks' \subseteq Messages
    BY <1>t DEF ListingTyped, listing
  <2> QED BY <2>2, <2>3, <2>4 DEF MarkRead, Decide
<1>6. unreadCount' \in Counts
  <2>1. unreadCount' \in {unreadCount, 0, OneRead}
    BY DEF MarkRead, ReadAnswered, Decide, Decided
  <2> QED BY <2>1, <1>t, CountsCount, OneReadCounts DEF BadgeTyped
<1> QED BY <1>1, <1>2, <1>3, <1>4, <1>5, <1>6, <1>t DEF MessageInv, MailTyped, ListingTyped, BadgeTyped, RequestsTyped

\* A deletion as it is asked for and as its card fades.
LEMMA RemovalTypes ==
    ASSUME NEW m \in Messages, NEW rest \in Lists, NEW b \in BOOLEAN
    PROVE  LET r == [message |-> m, fading |-> b, rest |-> rest]
           IN  r \in [message : Messages, fading : BOOLEAN, rest : Seq(Messages)] /\ r.rest \in Lists
BY ListIs

LEMMA RemovalFades ==
    ASSUME NEW r \in [message : Messages, fading : BOOLEAN, rest : Seq(Messages)],
           NEW rest \in Lists, NEW b \in BOOLEAN
    PROVE  LET k == [r EXCEPT !.fading = b, !.rest = rest]
           IN  k \in [message : Messages, fading : BOOLEAN, rest : Seq(Messages)] /\ k.rest \in Lists
BY ListIs

\* Deleting a message.
LEMMA DeletingKeeps ==
    ASSUME MessageInv,
           \/ \E m \in Messages : Delete(m)
           \/ \E r \in removing : DeleteAnswered(r) \/ Faded(r)
    PROVE  MessageInv'
<1>t. /\ MailTyped /\ ListingTyped /\ SessionTyped /\ BadgeTyped /\ FetchTyped /\ RemovalsTyped
      /\ ClearingTyped /\ RequestsTyped
  BY DEF MessageInv
<1>1. UNCHANGED <<polls, marking, clearing, deciding>> /\ UNCHANGED session
  BY DEF Delete, DeleteAnswered, Faded
<1>2. SessionTyped' /\ ClearingTyped' /\ RequestsTyped'
  BY <1>1, <1>t, SessionRests, ClearingRests, RequestsRest
<1>3. ASSUME NEW m \in Messages, Delete(m) PROVE MessageInv'
  <2>1. /\ m \notin Actionable /\ mailbox' = mailbox \ {m} /\ unreadMail' = unreadMail \ {m}
        /\ UNCHANGED <<pendingMail, arrived, unreadCount, fetching, listing>>
        /\ removing' = removing \union {[message |-> m, fading |-> FALSE, rest |-> <<>>]}
    BY <1>3 DEF Delete
  <2>2. MailTyped'
    BY <2>1, <1>t DEF MailTyped
  <2>3. RemovalsTyped'
    <3>1. FALSE \in BOOLEAN
      OBVIOUS
    <3>2. PICK k \in [message : Messages, fading : BOOLEAN, rest : Seq(Messages)] :
            k = [message |-> m, fading |-> FALSE, rest |-> <<>>] /\ k.rest \in Lists
      BY <3>1, EmptyList, RemovalTypes, Zenon
    <3> QED BY <2>1, <3>2, <1>t DEF RemovalsTyped
  <2> QED BY <1>1, <1>2, <2>1, <2>2, <2>3, <1>t, ListingRests, BadgeRests, FetchRests DEF MessageInv
<1>4. ASSUME NEW r \in removing, DeleteAnswered(r) PROVE MessageInv'
  <2>1. /\ UNCHANGED <<unreadCount, fetching, listing, mailVars>>
        /\ \/ \E rest \in Filtered(messages, Messages \ {r.message}) :
                 removing' = (removing \ {r}) \union {[r EXCEPT !.fading = TRUE, !.rest = rest]}
           \/ removing' = removing \ {r}
    BY <1>4 DEF DeleteAnswered
  <2>2. RemovalsTyped'
    <3>1. ASSUME NEW rest \in Filtered(messages, Messages \ {r.message}),
                 removing' = (removing \ {r}) \union {[r EXCEPT !.fading = TRUE, !.rest = rest]}
          PROVE  RemovalsTyped'
      <4>1. rest \in Lists
        BY <1>t, FilteredIsList DEF ListingTyped
      <4>2. r \in [message : Messages, fading : BOOLEAN, rest : Seq(Messages)] /\ TRUE \in BOOLEAN
        BY <1>t DEF RemovalsTyped
      <4>3. PICK k \in [message : Messages, fading : BOOLEAN, rest : Seq(Messages)] :
              k = [r EXCEPT !.fading = TRUE, !.rest = rest] /\ k.rest \in Lists
        BY <4>1, <4>2, RemovalFades, Zenon
      <4> QED BY <3>1, <4>3, <1>t DEF RemovalsTyped
    <3>2. CASE removing' = removing \ {r}
      BY <3>2, <1>t DEF RemovalsTyped
    <3> QED BY <2>1, <3>1, <3>2
  <2> QED BY <1>1, <1>2, <2>1, <2>2, <1>t, ListingRests, BadgeRests, FetchRests, MailRests DEF MessageInv
<1>5. ASSUME NEW r \in removing, Faded(r) PROVE MessageInv'
  <2>1. /\ removing' = removing \ {r} /\ messages' = r.rest /\ UNCHANGED <<readMarks, nextCursor, mailVars>>
        /\ unreadCount' \in {unreadCount, OneRead}
        /\ UNCHANGED fetching \/ Ask(TRUE, 0)
    BY <1>5 DEF Faded
  <2>2. RemovalsTyped' /\ ListingTyped'
    BY <2>1, <1>t DEF RemovalsTyped, ListingTyped
  <2>3. FetchTyped'
    BY <2>1, <1>t, FetchRests, AskTypes
  <2>4. BadgeTyped'
    BY <2>1, <1>1, <1>t, OneReadCounts DEF BadgeTyped
  <2> QED BY <1>2, <2>1, <2>2, <2>3, <2>4, <1>t, MailRests DEF MessageInv
<1> QED BY <1>3, <1>4, <1>5

\* Clearing the list.
LEMMA ClearingKeeps ==
    ASSUME MessageInv, ClearAll \/ ClearConfirmed \/ ClearAnswered \/ Cleared
    PROVE  MessageInv'
<1>t. /\ MailTyped /\ ListingTyped /\ SessionTyped /\ BadgeTyped /\ FetchTyped /\ RemovalsTyped
      /\ ClearingTyped /\ RequestsTyped
  BY DEF MessageInv
<1>1. UNCHANGED <<unreadCount, polls, marking, removing, deciding>> /\ UNCHANGED session
  BY DEF ClearAll, ClearConfirmed, ClearAnswered, Cleared
<1>2. SessionTyped' /\ BadgeTyped' /\ RemovalsTyped' /\ RequestsTyped'
  BY <1>1, <1>t, SessionRests, BadgeRests, RemovalsRest, RequestsRest
<1>3. CASE ClearAll
  BY <1>2, <1>3, <1>t, ClearTypes, MailRests, ListingRests, FetchRests DEF ClearAll, MessageInv
<1>4. CASE ClearConfirmed
  <2>1. /\ clearing' = Clear("sent") \/ clearing' = Clear("idle")
        /\ UNCHANGED <<pendingMail, arrived, fetching, listing>>
        /\ \/ mailbox' = pendingMail /\ unreadMail' = unreadMail \intersect pendingMail
           \/ UNCHANGED <<mailbox, unreadMail>>
    BY <1>4 DEF ClearConfirmed
  <2>2. MailTyped'
    BY <2>1, <1>t DEF MailTyped
  <2> QED BY <1>2, <2>1, <2>2, <1>t, ClearTypes, ListingRests, FetchRests DEF MessageInv
<1>5. CASE ClearAnswered
  <2>1. ASSUME NEW rest \in Filtered(messages, pendingMail), clearing' = [step |-> "fading", rest |-> rest]
        PROVE  ClearingTyped'
    BY <2>1, <1>t, FilteredIsList DEF ListingTyped, ClearingTyped
  <2>2. ClearingTyped'
    BY <1>5, <2>1, ClearTypes DEF ClearAnswered
  <2> QED BY <1>2, <1>5, <2>2, <1>t, MailRests, ListingRests, FetchRests DEF ClearAnswered, MessageInv
<1>6. CASE Cleared
  <2>1. /\ messages' = clearing.rest /\ nextCursor' = 0 /\ UNCHANGED <<readMarks, mailVars>>
        /\ clearing' = Clear("idle") \/ clearing' = Clear("refetch")
        /\ UNCHANGED fetching \/ Ask(TRUE, 0)
    BY <1>6 DEF Cleared
  <2>2. ListingTyped'
    BY <2>1, <1>t, CountsCount DEF ListingTyped, ClearingTyped
  <2>3. FetchTyped' /\ ClearingTyped'
    BY <2>1, <1>t, FetchRests, AskTypes, ClearTypes
  <2> QED BY <1>2, <2>1, <2>2, <2>3, <1>t, MailRests DEF MessageInv
<1> QED BY <1>3, <1>4, <1>5, <1>6

LEMMA MessageStays == ASSUME MessageInv, [MessageNext]_messageVars PROVE MessageInv'
<1>1. CASE UNCHANGED messageVars
  BY <1>1, MailRests, ListingRests, SessionRests, BadgeRests, FetchRests, RemovalsRest, ClearingRests,
     RequestsRest DEF MessageInv, messageVars, mailVars, listing, session
<1> QED BY <1>1, BadgeKeeps, FetchKeeps, ReadingKeeps, DeletingKeeps, ClearingKeeps DEF MessageNext

-----------------------------------------------------------------------------
(* The pages                                                               *)

PagesInv == DirectoryInv /\ MessageInv /\ TicketInv /\ CargoInv

LEMMA PagesStay == ASSUME PagesInv, [Next]_vars PROVE PagesInv'
<1>1. [DirectoryNext]_directoryVars /\ [MessageNext]_messageVars /\ [TicketNext]_ticketVars /\ [CargoNext]_cargoVars
  BY DEF Next, vars
<1> QED BY <1>1, DirectoryStays, MessageStays, TicketStays, CargoStays DEF PagesInv

\* Whatever the order in which answers come, and whatever the person does meanwhile, a
\* directory or ticket page shows what belongs to its newest load, its account and its filters
\* (browser.js, tickets.js), and the list of messages holds none twice and has one poller
\* (messages.js).  A Cargo page shows its route after the route's own answer; the exception,
\* until the next route's answer, is a refresh or a further page begun under an earlier route
\* (browser/cargo.js:1470-1505).
THEOREM ClientPagesAreSafe == Spec => []PagesSafe
<1>1. Init => PagesInv
  BY DirectoryStarts, MessageStarts, TicketStarts, CargoStarts DEF Init, PagesInv
<1>2. PagesInv /\ [Next]_vars => PagesInv'
  BY PagesStay
<1>3. PagesInv => PagesSafe
  <2>1. DirectoryInv => DirectoryTypeOK /\ ViewIsLatest /\ NoCardAtHome
    BY DEF DirectoryInv
  <2> QED BY <2>1, MessageIsSafe, TicketIsSafe, CargoIsSafe DEF PagesInv, PagesSafe
<1> QED BY <1>1, <1>2, <1>3, PTL DEF Spec
=============================================================================
