---------------------------- MODULE LegalConsent ----------------------------
(***************************************************************************)
(* Agreement to the policies in the web client: the revision descriptor    *)
(* and the agreement boxes of the login and registration forms             *)
(* (js/legal-consent.js) and the choice about third-party services         *)
(* (js/cookie-consent.js, js/cookie-preferences.js).  The descriptor is    *)
(* read from the server by whoever needs it, one read at a time; when it   *)
(* arrives the boxes, the waiting forms and the notice react in one turn   *)
(* of the event loop.                                                      *)
(***************************************************************************)
EXTENDS Naturals, Sequences

CONSTANTS
    Kinds,         \* the forms with a box: login, registration
    MaxRevision,   \* bound of the model on policy revisions
    MaxEpoch       \* bound of the model on changes of the boxes

\* There are policies from the start, and the bounds are counts.
ASSUME RevisionAssumption == MaxRevision \in Nat \ {0}
ASSUME EpochAssumption == MaxEpoch \in Nat

VARIABLES
    policy,        \* revision of the policies on the server
    metadata,      \* let metadata of legal-consent.js, 0 before the first read
    read,          \* let pending: the read under way and what the server answered
    box,           \* the agreement boxes: checked, data-revision and, as a history,
                   \* the revision that was shown when the user set the box
    cookie,        \* the revision in the consent cookie, 0 without one
    consentEpoch,  \* let consentEpoch
    flow,          \* ensureLegalConsent of each form
    steady,        \* history: forms whose box stayed checked since their flow began
    choice,        \* let choice of cookie-consent.js, revision 0 without one
    dialogs,       \* policyRevision of the preference dialogs on show
    openings,      \* calls of openCookiePreferences that wait for the descriptor
    accepted       \* history: revisions for which the user allowed the services

legalVars == <<policy, metadata, read, box, cookie, consentEpoch, flow, steady,
               choice, dialogs, openings, accepted>>

Revisions == 1..MaxRevision
NoRead == [active |-> FALSE, revision |-> 0]

LegalTypeOK ==
    /\ policy \in Revisions
    /\ metadata \in 0..MaxRevision
    /\ read \in [active : BOOLEAN, revision : 0..MaxRevision]
    /\ box \in [Kinds -> [checked : BOOLEAN, revision : 0..MaxRevision,
                          setFor : 0..MaxRevision]]
    /\ cookie \in 0..MaxRevision
    /\ consentEpoch \in 0..MaxEpoch
    /\ flow \in [Kinds -> [pc : {"idle", "loading", "passed", "refused"},
                           epoch : 0..MaxEpoch]]
    /\ steady \subseteq Kinds
    /\ choice \in [revision : 0..MaxRevision, optional : BOOLEAN]
    /\ dialogs \in Seq(Revisions)
    /\ openings \in 0..2
    /\ accepted \subseteq Revisions

LegalInit ==
    /\ policy = 1
    /\ metadata = 0
    /\ read = [active |-> TRUE, revision |-> 0]
    /\ box = [k \in Kinds |-> [checked |-> FALSE, revision |-> 0, setFor |-> 0]]
    /\ cookie = 0
    /\ consentEpoch = 0
    /\ flow = [k \in Kinds |-> [pc |-> "idle", epoch |-> 0]]
    /\ steady = {}
    /\ choice = [revision |-> 0, optional |-> FALSE]
    /\ dialogs = <<>>
    /\ openings = 0
    /\ accepted = {}

\* readChoice: a choice counts for the revision it was made for.
HasChoice == metadata # 0 /\ choice.revision = metadata

-----------------------------------------------------------------------------
(* The descriptor.                                                         *)

\* loadLegalMetadata(true): join the read under way or start one.
Join == read' = [read EXCEPT !.active = TRUE]

\* An administrator changes the policies.
PublishPolicy ==
    /\ policy < MaxRevision
    /\ policy' = policy + 1
    /\ UNCHANGED <<metadata, read, box, cookie, consentEpoch, flow, steady, choice,
                   dialogs, openings, accepted>>

\* legalSettingsChanged, the legal pages and the first load ask for it.
Refresh ==
    /\ ~read.active
    /\ Join
    /\ UNCHANGED <<policy, metadata, box, cookie, consentEpoch, flow, steady, choice,
                   dialogs, openings, accepted>>

\* The server answers /api/legal.
ServerReads ==
    /\ read.active /\ read.revision = 0
    /\ read' = [read EXCEPT !.revision = policy]
    /\ UNCHANGED <<policy, metadata, box, cookie, consentEpoch, flow, steady, choice,
                   dialogs, openings, accepted>>

\* Mutant of Controls: the box follows the revision and stays checked.
ControlsKept(revision) == [k \in Kinds |-> [box[k] EXCEPT !.revision = revision]]

\* updateConsentControls: a box for another revision, or one whose cookie is
\* gone, is cleared.
Controls(revision) ==
    [k \in Kinds |->
        [box[k] EXCEPT
            !.checked = @ /\ box[k].revision = revision /\ cookie = revision,
            !.revision = revision]]

\* Mutant of Agrees: the form does not notice that the boxes were changed.
AgreesNow(k, boxes, revision) ==
    boxes[k].checked /\ boxes[k].revision = revision /\ cookie = revision

\* What ensureLegalConsent looks at when the descriptor is there.
Agrees(k, boxes, revision) ==
    /\ flow[k].epoch = consentEpoch
    /\ boxes[k].checked /\ boxes[k].revision = revision /\ cookie = revision

\* The descriptor arrives: the controls follow it, the forms that wait decide
\* and the preference dialogs that wait open.
Deliver ==
    /\ read.active /\ read.revision # 0
    /\ LET boxes == Controls(read.revision)
       IN  /\ metadata' = read.revision
           /\ box' = boxes
           /\ flow' = [k \in Kinds |->
                 IF flow[k].pc = "loading"
                 THEN [flow[k] EXCEPT !.pc = IF Agrees(k, boxes, read.revision)
                                             THEN "passed" ELSE "refused"]
                 ELSE flow[k]]
           /\ steady' = {k \in steady : boxes[k].checked}
    /\ dialogs' = dialogs \o [i \in 1..openings |-> read.revision]
    /\ openings' = 0
    /\ read' = NoRead
    /\ UNCHANGED <<policy, cookie, consentEpoch, choice, accepted>>

\* Mutant of ReadFails: the error is swallowed.
ReadFailsSilently ==
    /\ read.active
    /\ read' = NoRead
    /\ UNCHANGED <<policy, metadata, box, cookie, consentEpoch, flow, steady, choice,
                   dialogs, openings, accepted>>

\* The read fails or times out after 15 s: the forms are refused and the dialogs
\* do not open.
ReadFails ==
    /\ read.active
    /\ flow' = [k \in Kinds |-> IF flow[k].pc = "loading"
                                THEN [flow[k] EXCEPT !.pc = "refused"] ELSE flow[k]]
    /\ openings' = 0
    /\ read' = NoRead
    /\ UNCHANGED <<policy, metadata, box, cookie, consentEpoch, steady, choice, dialogs,
                   accepted>>

-----------------------------------------------------------------------------
(* The agreement boxes.                                                    *)

\* The change handler of a box; the box is disabled until the descriptor is
\* known.  The browser may refuse the cookie.
Toggle(k) ==
    /\ metadata # 0 /\ consentEpoch < MaxEpoch
    /\ box' = [box EXCEPT ![k].checked = ~@, ![k].setFor = metadata]
    /\ consentEpoch' = consentEpoch + 1
    /\ \/ cookie' = IF box[k].checked THEN 0 ELSE metadata
       \/ ~box[k].checked /\ cookie' = cookie
    /\ steady' = IF box[k].checked THEN steady \ {k} ELSE steady
    /\ UNCHANGED <<policy, metadata, read, flow, choice, dialogs, openings, accepted>>

\* resetLegalConsent: the page of the form is left.
LeaveForm(k) ==
    /\ box[k].checked /\ consentEpoch < MaxEpoch
    /\ box' = [box EXCEPT ![k].checked = FALSE]
    /\ consentEpoch' = consentEpoch + 1
    /\ steady' = steady \ {k}
    /\ UNCHANGED <<policy, metadata, read, cookie, flow, choice, dialogs, openings, accepted>>

\* The cookie runs out after 900 s, or another tab writes it.
CookieChanges ==
    /\ \E revision \in 0..policy : cookie' = revision
    /\ UNCHANGED <<policy, metadata, read, box, consentEpoch, flow, steady, choice,
                   dialogs, openings, accepted>>

\* ensureLegalConsent: remember the boxes and read the descriptor afresh.
EnsureLegalConsent(k) ==
    /\ flow[k].pc # "loading"
    /\ flow' = [flow EXCEPT ![k] = [pc |-> "loading", epoch |-> consentEpoch]]
    /\ Join
    /\ steady' = IF box[k].checked THEN steady \cup {k} ELSE steady \ {k}
    /\ UNCHANGED <<policy, metadata, box, cookie, consentEpoch, choice, dialogs,
                   openings, accepted>>

-----------------------------------------------------------------------------
(* The choice about third-party services.                                  *)

\* openCookiePreferences reads the descriptor before it shows the dialog; it
\* looks for a dialog only before that.
OpenPreferences ==
    /\ dialogs = <<>> /\ openings < 2
    /\ openings' = openings + 1
    /\ Join
    /\ UNCHANGED <<policy, metadata, box, cookie, consentEpoch, flow, steady, choice,
                   dialogs, accepted>>

\* saveChoice
SaveChoice(optional, shown) ==
    /\ choice' = [revision |-> metadata, optional |-> optional]
    /\ accepted' = IF optional THEN accepted \cup {shown} ELSE accepted

\* A button of the dialog: the choice is saved if the policies are still the
\* ones the dialog was opened for, and the dialog closes.
SaveDialog(i) ==
    /\ \/ /\ dialogs[i] = metadata
          /\ \E optional \in BOOLEAN : SaveChoice(optional, dialogs[i])
       \/ /\ dialogs[i] # metadata
          /\ UNCHANGED <<choice, accepted>>
    /\ dialogs' = SubSeq(dialogs, 1, i - 1) \o SubSeq(dialogs, i + 1, Len(dialogs))
    /\ UNCHANGED <<policy, metadata, read, box, cookie, consentEpoch, flow, steady, openings>>

\* The dialog is closed without a choice.
CloseDialog(i) ==
    /\ dialogs' = SubSeq(dialogs, 1, i - 1) \o SubSeq(dialogs, i + 1, Len(dialogs))
    /\ UNCHANGED <<policy, metadata, read, box, cookie, consentEpoch, flow, steady, choice,
                   openings, accepted>>

\* The notice, shown while no choice for the policies exists.
NoticeChoice ==
    /\ metadata # 0 /\ ~HasChoice
    /\ \E optional \in BOOLEAN : SaveChoice(optional, metadata)
    /\ UNCHANGED <<policy, metadata, read, box, cookie, consentEpoch, flow, steady,
                   dialogs, openings>>

-----------------------------------------------------------------------------
LegalNext ==
    \/ PublishPolicy
    \/ Refresh
    \/ ServerReads
    \/ Deliver
    \/ ReadFails
    \/ \E k \in Kinds : Toggle(k) \/ LeaveForm(k) \/ EnsureLegalConsent(k)
    \/ CookieChanges
    \/ OpenPreferences
    \/ \E i \in DOMAIN dialogs : SaveDialog(i) \/ CloseDialog(i)
    \/ NoticeChoice

\* A read of the descriptor that a form waits for has a timeout.
LegalFairness ==
    WF_legalVars((\E k \in Kinds : flow[k].pc = "loading") /\ (Deliver \/ ReadFails))

-----------------------------------------------------------------------------
(* Properties.                                                             *)

\* A form goes on only when its box was checked when the button was pressed,
\* stayed checked while the descriptor was read, and is checked for the
\* revision that arrived: clearing and setting the box, or leaving the page and
\* coming back, while the answer is on its way takes the agreement back
\* (consentEpoch in legal-consent.js).
PassedOnSteadyConsent ==
    [][\A k \in Kinds :
         flow[k].pc = "loading" /\ flow'[k].pc = "passed"
             => k \in steady' /\ box'[k].revision = metadata']_legalVars

\* A box that is checked was checked for the policies the client knows, and
\* not for older ones, however reads, changes of the policies and the other form
\* interleave (updateConsentControls).
CheckedIsCurrent ==
    \A k \in Kinds : box[k].checked => box[k].setFor = metadata

\* Third-party services count as allowed only if the user allowed them in a
\* notice or dialog for these very policies: a dialog that was open while the
\* policies changed gives no consent to the new ones.
OptionalWasAccepted ==
    HasChoice /\ choice.optional => metadata \in accepted

\* A form that waits for the descriptor gets an answer.
FormsAnswered ==
    \A k \in Kinds : []<>(flow[k].pc # "loading")

=============================================================================
