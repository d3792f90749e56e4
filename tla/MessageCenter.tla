--------------------------- MODULE MessageCenter ---------------------------
(***************************************************************************)
(* The message center of the web client (js/messages.js): the pages of the *)
(* mailbox it holds, the unread badge and its polling, reading, deleting   *)
(* and clearing messages, and the decisions on messages that ask for one.  *)
(* The server acts on a request when it is sent; answers come in any order *)
(* and any request may fail.  An id stands for its message object.         *)
(***************************************************************************)
EXTENDS Naturals, FiniteSets, Sequences, SequencesExt

CONSTANTS
    MaxMessages,    \* bound of the model on messages that arrive
    PageSize,       \* of GET /api/messages
    Actionable,     \* the messages that ask for a decision
    MaxPolls,       \* bound of the model on unread-count requests under way
    MaxRequests,    \* bound of the model on the user's other requests under way
    MaxSessions     \* bound of the model on changes of the session

\* A page holds a message at least; the bounds are counts.
ASSUME MessagesAssumption == MaxMessages \in Nat
ASSUME PageAssumption == PageSize \in Nat \ {0}
ASSUME SessionsAssumption == MaxSessions \in Nat

Messages == 1..MaxMessages
NoFetch == [reset |-> FALSE, page |-> <<>>, more |-> 0, unread |-> 0, read |-> {}, under |-> FALSE]
Clear(step) == [step |-> step, rest |-> <<>>]

VARIABLES
    mailbox,        \* the messages the server has
    unreadMail,     \* ... the unread ones
    pendingMail,    \* ... and those whose decision is open
    arrived,        \* how many have arrived
    signedIn,       \* cachedIsLoggedIn
    sessions,       \* changes of signedIn
    messages,       \* the list, newest first
    readMarks,      \* the messages with read_at
    nextCursor,     \* the message after which the next page begins, 0 for ''
    unreadCount,
    pollers,        \* intervals that run
    polls,          \* counts under way to refreshMessageUnreadCount
    fetching,       \* loading, and the answer under way to fetchMessages
    marking,        \* messages whose POST .../read is under way, 0 for read-all
    removing,       \* calls of deleteMessage: asked for, then fading out
    clearing,       \* how far clearAllMessages is, and the list it keeps
    deciding        \* calls of executeMessageAction

messageVars == <<mailbox, unreadMail, pendingMail, arrived, signedIn, sessions, messages, readMarks,
                 nextCursor, unreadCount, pollers, polls, fetching, marking, removing, clearing,
                 deciding>>
mailVars == <<mailbox, unreadMail, pendingMail, arrived>>
listing == <<messages, readMarks, nextCursor>>
session == <<signedIn, sessions, pollers>>

loading == fetching.under

\* The model's bound: another of the user's requests may start.
Room == Cardinality(marking) + Cardinality(removing) + Cardinality(deciding)
            + Cardinality({c \in {"fetch"} : loading} \union {c \in {clearing.step} : c # "idle"})
        < MaxRequests

MessageTypeOK ==
    /\ {unreadMail, pendingMail} \subseteq SUBSET mailbox /\ mailbox \subseteq Messages
    /\ arrived \in 0..MaxMessages /\ sessions \in 0..MaxSessions
    /\ signedIn \in BOOLEAN
    /\ messages \in Seq(Messages) /\ readMarks \subseteq Messages
    /\ nextCursor \in 0..MaxMessages
    /\ unreadCount \in 0..MaxMessages
    /\ pollers \in Nat
    /\ polls \subseteq 0..MaxMessages
    /\ fetching.page \in Seq(Messages)
    /\ marking \subseteq 0..MaxMessages /\ deciding \subseteq Messages
    /\ clearing.step \in {"idle", "confirm", "sent", "fading", "refetch"}
    /\ clearing.rest \in Seq(Messages)

MessageInit ==
    /\ mailbox = {} /\ unreadMail = {} /\ pendingMail = {} /\ arrived = 0
    /\ signedIn = FALSE /\ sessions = 0
    /\ messages = <<>> /\ readMarks = {} /\ nextCursor = 0
    /\ unreadCount = 0 /\ pollers = 0 /\ polls = {}
    /\ fetching = NoFetch /\ marking = {} /\ removing = {} /\ clearing = Clear("idle") /\ deciding = {}

\* The server saves a message for the account (SaveMessageIfAbsent).
Arrives ==
    /\ arrived < MaxMessages
    /\ arrived' = arrived + 1
    /\ mailbox' = mailbox \union {arrived'}
    /\ unreadMail' = unreadMail \union {arrived'}
    /\ pendingMail' = pendingMail \union ({arrived'} \intersect Actionable)
    /\ UNCHANGED <<unreadCount, polls, fetching, marking, removing, clearing, deciding>>
    /\ UNCHANGED listing /\ UNCHANGED session

\* One less on the badge, never below zero (setUnreadCount).
OneRead == IF unreadCount = 0 THEN 0 ELSE unreadCount - 1

(***************************************************************************)
(* The session and the badge                                               *)
(***************************************************************************)

\* authChanged after a sign-in, which may find the session signed in already.
SignedIn ==
    /\ sessions < MaxSessions /\ sessions' = sessions + 1
    /\ signedIn' = TRUE
    /\ pollers' = 1
    /\ polls' = polls \union {Cardinality(unreadMail)}
    /\ UNCHANGED <<unreadCount, fetching, marking, removing, clearing, deciding>>
    /\ UNCHANGED listing /\ UNCHANGED mailVars

\* What authChanged does after a sign-out: the list is dropped and the polling stops.
Forget ==
    /\ signedIn' = FALSE /\ pollers' = 0
    /\ messages' = <<>> /\ nextCursor' = 0 /\ unreadCount' = 0
    /\ UNCHANGED readMarks

SignedOut ==
    /\ signedIn /\ sessions < MaxSessions /\ sessions' = sessions + 1
    /\ Forget
    /\ UNCHANGED <<polls, fetching, marking, removing, clearing, deciding>>
    /\ UNCHANGED mailVars

\* The interval asks for the count again.
PollTick ==
    /\ pollers > 0 /\ signedIn
    /\ Cardinality(polls) < MaxPolls
    /\ polls' = polls \union {Cardinality(unreadMail)}
    /\ UNCHANGED <<unreadCount, fetching, marking, removing, clearing, deciding>>
    /\ UNCHANGED listing /\ UNCHANGED session /\ UNCHANGED mailVars

\* Mutant of PollAnswered: the badge only counts up.
PollAnsweredUp(n) ==
    /\ polls' = polls \ {n}
    /\ unreadCount' = IF n > unreadCount THEN n ELSE unreadCount
    /\ UNCHANGED <<fetching, marking, removing, clearing, deciding>>
    /\ UNCHANGED listing /\ UNCHANGED session /\ UNCHANGED mailVars

\* The answer sets the badge, whatever has happened since it was asked for; a failed or
\* refused one leaves it.  An expired session is signed out.
PollAnswered(n) ==
    /\ polls' = polls \ {n}
    /\ \/ unreadCount' = n /\ UNCHANGED <<listing, session>>
       \/ UNCHANGED <<unreadCount, listing, session>>
       \/ Forget /\ UNCHANGED sessions
    /\ UNCHANGED <<fetching, marking, removing, clearing, deciding>>
    /\ UNCHANGED mailVars

(***************************************************************************)
(* Pages                                                                   *)
(***************************************************************************)

\* The n newest of some messages, newest first; there is one such list.
Newest(found, n) ==
    {page \in [1..n -> found] :
        /\ \A i, j \in 1..n : i < j => page[j] < page[i]
        /\ \A m \in found \ ToSet(page) : \A i \in 1..n : m < page[i]}

\* fetchMessages up to its request, a second one being dropped.  GET /api/messages answers
\* with the newest messages older than cursor, 0 for none, and the next cursor.
Ask(reset, cursor) ==
    LET left == {m \in mailbox : cursor = 0 \/ m < cursor}
        size == IF Cardinality(left) < PageSize THEN Cardinality(left) ELSE PageSize
    IN  \E page \in Newest(left, size) :
            fetching' = [reset |-> reset, page |-> page,
                         more |-> IF Cardinality(left) > PageSize THEN page[size] ELSE 0,
                         unread |-> Cardinality(unreadMail), read |-> mailbox \ unreadMail,
                         under |-> TRUE]

\* openMessageCenter: the first page replaces the list.
OpenCenter ==
    /\ signedIn /\ ~loading /\ Room
    /\ Ask(TRUE, 0)
    /\ UNCHANGED <<unreadCount, polls, marking, removing, clearing, deciding>>
    /\ UNCHANGED listing /\ UNCHANGED session /\ UNCHANGED mailVars

\* The load-more button, hidden without messages or cursor and disabled while loading.
LoadMoreMessages ==
    /\ messages # <<>> /\ nextCursor # 0 /\ ~loading /\ Room
    /\ Ask(FALSE, nextCursor)
    /\ UNCHANGED <<unreadCount, polls, marking, removing, clearing, deciding>>
    /\ UNCHANGED listing /\ UNCHANGED session /\ UNCHANGED mailVars

\* filter: the entries of a list that are in kept, in their order; there is one such list.
Filtered(list, kept) ==
    LET places == {i \in DOMAIN list : list[i] \in kept}
    IN  {[i \in DOMAIN at |-> list[at[i]]] : at \in
            {at \in [1..Cardinality(places) -> places] :
                \A i, j \in DOMAIN at : i < j => at[i] < at[j]}}

\* Mutant of Appended: a page is appended as it comes.
AppendedAsIs(page) == {messages \o page}

\* appendUniqueMessagePage.
Appended(page) == {messages \o new : new \in Filtered(page, Messages \ ToSet(messages))}

\* The answer to fetchMessages: a page, a failure, or a session that has expired.  Each
\* way out releases loading, and ends a clearAllMessages that waited for the list.
MessagesArrive ==
    /\ loading
    /\ fetching' = NoFetch
    /\ clearing' = IF clearing.step = "refetch" THEN Clear("idle") ELSE clearing
    /\ \/ /\ messages' \in IF fetching.reset THEN {fetching.page} ELSE Appended(fetching.page)
          /\ readMarks' = (readMarks \ ToSet(fetching.page))
                             \union (fetching.read \intersect ToSet(fetching.page))
          /\ nextCursor' = fetching.more
          /\ unreadCount' = fetching.unread
          /\ UNCHANGED session
       \/ UNCHANGED <<unreadCount, listing, session>>
       \/ Forget /\ UNCHANGED sessions
    /\ UNCHANGED <<polls, marking, removing, deciding>> /\ UNCHANGED mailVars

(***************************************************************************)
(* Reading, deleting, deciding, clearing                                   *)
(***************************************************************************)

\* A click on an unread message, or on mark-all-read (0).
MarkRead(m) ==
    /\ m \notin marking /\ Room
    /\ IF m = 0 THEN ~loading /\ unreadCount > 0
       ELSE m \in ToSet(messages) \ readMarks
    /\ marking' = marking \union {m}
    /\ unreadMail' = IF m = 0 THEN {} ELSE unreadMail \ {m}
    /\ UNCHANGED <<mailbox, pendingMail, arrived, unreadCount, polls, fetching, removing, clearing,
                   deciding>>
    /\ UNCHANGED listing /\ UNCHANGED session

ReadAnswered(m) ==
    /\ m \in marking /\ marking' = marking \ {m}
    /\ \/ /\ readMarks' = readMarks \union (IF m = 0 THEN ToSet(messages) ELSE {m})
          /\ unreadCount' = IF m = 0 THEN 0 ELSE OneRead
       \/ UNCHANGED <<readMarks, unreadCount>>
    /\ UNCHANGED <<messages, nextCursor, polls, fetching, removing, clearing, deciding>>
    /\ UNCHANGED session /\ UNCHANGED mailVars

\* deleteMessage; the server keeps a message whose decision is open.
Delete(m) ==
    /\ m \in ToSet(messages) /\ m \notin Actionable /\ Room
    /\ \A r \in removing : r.message # m
    /\ removing' = removing \union {[message |-> m, fading |-> FALSE, rest |-> <<>>]}
    /\ mailbox' = mailbox \ {m} /\ unreadMail' = unreadMail \ {m}
    /\ UNCHANGED <<pendingMail, arrived, unreadCount, polls, fetching, marking, clearing, deciding>>
    /\ UNCHANGED listing /\ UNCHANGED session

\* The answer: the list without the message is computed, and the card fades.
DeleteAnswered(r) ==
    /\ ~r.fading
    /\ \/ \E rest \in Filtered(messages, Messages \ {r.message}) :
             removing' = (removing \ {r}) \union {[r EXCEPT !.fading = TRUE, !.rest = rest]}
       \/ removing' = removing \ {r}
    /\ UNCHANGED <<unreadCount, polls, fetching, marking, clearing, deciding>>
    /\ UNCHANGED listing /\ UNCHANGED session /\ UNCHANGED mailVars

\* The card is gone: the list computed before it faded is put in place, and an empty
\* list with more pages is asked for again.
Faded(r) ==
    /\ r.fading
    /\ removing' = removing \ {r}
    /\ messages' = r.rest
    /\ unreadCount' = IF r.message \in readMarks THEN unreadCount ELSE OneRead
    /\ IF r.rest = <<>> /\ nextCursor # 0 /\ ~loading THEN Ask(TRUE, 0) ELSE UNCHANGED fetching
    /\ UNCHANGED <<readMarks, nextCursor, polls, marking, clearing, deciding>>
    /\ UNCHANGED session /\ UNCHANGED mailVars

\* executeMessageAction hands the decision to the feature that owns the message.
Decide(m) ==
    /\ m \in ToSet(messages) \intersect pendingMail /\ Room
    /\ deciding' = deciding \union {m}
    /\ pendingMail' = pendingMail \ {m} /\ unreadMail' = unreadMail \ {m}
    /\ UNCHANGED <<mailbox, arrived, unreadCount, polls, fetching, marking, removing, clearing>>
    /\ UNCHANGED listing /\ UNCHANGED session

Decided(m) ==
    /\ deciding' = deciding \ {m}
    /\ \/ /\ unreadCount' = IF m \in readMarks THEN unreadCount ELSE OneRead
          /\ readMarks' = readMarks \union {m}
       \/ UNCHANGED <<unreadCount, readMarks>>
    /\ UNCHANGED <<messages, nextCursor, polls, fetching, marking, removing, clearing>>
    /\ UNCHANGED session /\ UNCHANGED mailVars

\* clearAllMessages, dropped while another runs or a page is loading, asks first.
ClearAll ==
    /\ clearing.step = "idle" /\ ~loading /\ Room
    /\ messages # <<>> \/ nextCursor # 0
    /\ clearing' = Clear("confirm")
    /\ UNCHANGED <<unreadCount, polls, fetching, marking, removing, deciding>>
    /\ UNCHANGED listing /\ UNCHANGED session /\ UNCHANGED mailVars

ClearConfirmed ==
    /\ clearing.step = "confirm"
    /\ \/ /\ clearing' = Clear("sent")
          /\ mailbox' = pendingMail /\ unreadMail' = unreadMail \intersect pendingMail
       \/ clearing' = Clear("idle") /\ UNCHANGED <<mailbox, unreadMail>>
    /\ UNCHANGED <<pendingMail, arrived, unreadCount, polls, fetching, marking, removing, deciding>>
    /\ UNCHANGED listing /\ UNCHANGED session

\* The answer, or a failure: the messages that stay are picked and the others fade
\* (animateDismissibleMessagesOut).
ClearAnswered ==
    /\ clearing.step = "sent"
    /\ \/ \E rest \in Filtered(messages, pendingMail) :
             clearing' = [step |-> "fading", rest |-> rest]
       \/ clearing' = Clear("idle")
    /\ UNCHANGED <<unreadCount, polls, fetching, marking, removing, deciding>>
    /\ UNCHANGED listing /\ UNCHANGED session /\ UNCHANGED mailVars

\* The cards are gone: the messages picked before are put in place, then the list is asked
\* for again unless a page is loading already.
Cleared ==
    /\ clearing.step = "fading"
    /\ messages' = clearing.rest
    /\ nextCursor' = 0
    /\ IF loading THEN clearing' = Clear("idle") /\ UNCHANGED fetching
       ELSE clearing' = Clear("refetch") /\ Ask(TRUE, 0)
    /\ UNCHANGED <<readMarks, unreadCount, polls, marking, removing, deciding>>
    /\ UNCHANGED session /\ UNCHANGED mailVars

MessageNext ==
    \/ Arrives \/ SignedIn \/ SignedOut
    \/ PollTick \/ \E n \in polls : PollAnswered(n)
    \/ OpenCenter \/ LoadMoreMessages \/ MessagesArrive
    \/ \E m \in 0..MaxMessages : MarkRead(m) \/ ReadAnswered(m)
    \/ \E m \in Messages : Delete(m) \/ Decide(m)
    \/ \E r \in removing : DeleteAnswered(r) \/ Faded(r)
    \/ \E m \in deciding : Decided(m)
    \/ ClearAll \/ ClearConfirmed \/ ClearAnswered \/ Cleared

\* The interval fires, and requests are answered in the end; an answer to a poll is not
\* refused for ever.
MessageFairness ==
    /\ WF_messageVars(PollTick)
    /\ SF_messageVars(\E n \in polls : PollAnswered(n) /\ unreadCount' = n)
    /\ WF_messageVars(MessagesArrive)
    /\ WF_messageVars(ClearAnswered \/ Cleared)

(***************************************************************************)
(* Properties                                                              *)
(***************************************************************************)

\* Exactly one interval polls while the session is signed in, none otherwise
\* (startPolling stops the one that runs).
OnePoller == pollers = IF signedIn THEN 1 ELSE 0

\* No message is listed twice, whichever of deletions, pages and refreshes overlap
\* (appendUniqueMessagePage).
ListedOnce == \A i, j \in DOMAIN messages : i # j => messages[i] # messages[j]

\* The badge does not stay wrong: however the local counting went astray, the polling
\* brings it back to the server's count.
BadgeRecovers == []<>(~signedIn \/ unreadCount = Cardinality(unreadMail))

\* No way out of fetchMessages leaves the list loading.
FetchEnds == []<>~loading

\* clearAllMessages, once sent, ends and gives its button back.
ClearEnds == []<>(clearing.step \in {"idle", "confirm"})

MessageSpec == MessageInit /\ [][MessageNext]_messageVars /\ MessageFairness
=============================================================================
