---------------------------- MODULE Availability ----------------------------
(***************************************************************************)
(* The monitor of the backend's availability (js/backend-availability.js). *)
(* Every same-origin fetch reports to it; a failure is confirmed by two    *)
(* probes before the page is covered by the offline notice, and nothing is *)
(* decided while the page is hidden.                                       *)
(***************************************************************************)
EXTENDS Naturals

VARIABLES
    pendingFailure, \* this.pendingFailure
    offline,        \* this.offline, and the notice on show
    confirmation,   \* where this.confirmation is; none is null
    visible,        \* document.visibilityState
    failedProbes    \* history: probes this confirmation saw fail

availabilityVars == <<pendingFailure, offline, confirmation, visible, failedProbes>>

AvailabilityInit ==
    /\ pendingFailure = FALSE
    /\ offline = FALSE
    /\ confirmation = "none"
    /\ visible \in BOOLEAN
    /\ failedProbes = 0

\* confirm: one confirmation at a time; its first test runs at once.
Confirm(shown) ==
    IF confirmation # "none" THEN UNCHANGED <<confirmation, failedProbes>>
    ELSE /\ confirmation' = IF shown THEN "probe" ELSE "settled"
         /\ failedProbes' = 0

\* A same-origin request throws a TypeError.
NoteFailure ==
    /\ pendingFailure' = TRUE
    /\ IF visible THEN Confirm(TRUE) ELSE UNCHANGED <<confirmation, failedProbes>>
    /\ UNCHANGED <<offline, visible>>

\* A same-origin request is answered.
NoteSuccess ==
    /\ pendingFailure' = FALSE
    /\ offline' = FALSE
    /\ UNCHANGED <<confirmation, visible, failedProbes>>

\* visibilitychange, pageshow and online.
Resume(shown) ==
    IF ~shown \/ (~pendingFailure /\ ~offline)
    THEN UNCHANGED <<pendingFailure, confirmation, failedProbes>>
    ELSE pendingFailure' = TRUE /\ Confirm(shown)

VisibilityChange ==
    /\ visible' = ~visible
    /\ Resume(visible')
    /\ UNCHANGED offline

Online ==
    /\ Resume(visible)
    /\ UNCHANGED <<offline, visible>>

\* The button of the notice.
RetryConnection ==
    /\ offline
    /\ pendingFailure' = TRUE
    /\ Confirm(visible)
    /\ UNCHANGED <<offline, visible>>

-----------------------------------------------------------------------------
(* The confirmation.                                                       *)

\* A probe succeeds: noteSuccess.
ProbeSucceeds ==
    /\ confirmation \in {"probe", "again"}
    /\ pendingFailure' = FALSE
    /\ offline' = FALSE
    /\ confirmation' = "settled"
    /\ UNCHANGED <<visible, failedProbes>>

\* The first probe fails or takes more than four seconds.
FirstProbeFails ==
    /\ confirmation = "probe"
    /\ confirmation' = "delay"
    /\ failedProbes' = failedProbes + 1
    /\ UNCHANGED <<pendingFailure, offline, visible>>

\* After the delay a failure that was cleared meanwhile, or a hidden page, ends it.
DelayEnds ==
    /\ confirmation = "delay"
    /\ confirmation' = IF pendingFailure /\ visible THEN "again" ELSE "settled"
    /\ UNCHANGED <<pendingFailure, offline, visible, failedProbes>>

\* Mutant of SecondProbeFails: the failure stays pending.
SecondProbeFailsPending ==
    /\ confirmation = "again"
    /\ confirmation' = "settled"
    /\ failedProbes' = failedProbes + 1
    /\ offline' = (offline \/ visible)
    /\ UNCHANGED <<pendingFailure, visible>>

SecondProbeFails ==
    /\ confirmation = "again"
    /\ confirmation' = "settled"
    /\ failedProbes' = failedProbes + 1
    /\ IF visible THEN pendingFailure' = FALSE /\ offline' = TRUE
       ELSE UNCHANGED <<pendingFailure, offline>>
    /\ UNCHANGED visible

\* Mutant of ConfirmationSettles: a failure noted since is not looked at again.
ConfirmationSettlesForGood ==
    /\ confirmation = "settled"
    /\ confirmation' = "none"
    /\ failedProbes' = 0
    /\ UNCHANGED <<pendingFailure, offline, visible>>

\* The finally callback, a few microtasks after the verdict; the queued confirm
\* asks for visibility and pending probes again.
ConfirmationSettles ==
    /\ confirmation = "settled"
    /\ confirmation' = IF pendingFailure /\ visible THEN "probe" ELSE "none"
    /\ failedProbes' = 0
    /\ UNCHANGED <<pendingFailure, offline, visible>>

ConfirmationNext ==
    ProbeSucceeds \/ FirstProbeFails \/ DelayEnds \/ SecondProbeFails \/ ConfirmationSettles

AvailabilityNext ==
    NoteFailure \/ NoteSuccess \/ VisibilityChange \/ Online \/ RetryConnection
    \/ ConfirmationNext

\* Probes are bounded by a timer, and timers and promises run.
AvailabilityFairness == WF_availabilityVars(ConfirmationNext)

-----------------------------------------------------------------------------
(* Properties.                                                             *)

AvailabilityTypeOK ==
    /\ pendingFailure \in BOOLEAN /\ offline \in BOOLEAN /\ visible \in BOOLEAN
    /\ confirmation \in {"none", "probe", "delay", "again", "settled"}
    /\ failedProbes \in 0..2

\* No failure is forgotten: while the page is visible a pending one is being
\* confirmed, also one noted between a verdict and its finally callback
\* (noteFailure, resume, confirm).
FailureUnderConfirmation == pendingFailure /\ visible => confirmation # "none"

\* The notice appears only on a visible page, after two probes of one confirmation
\* have failed.
OfflineConfirmed ==
    [][~offline /\ offline' => visible /\ failedProbes' = 2]_availabilityVars

\* A pending failure gets a verdict unless the page is hidden.
VerdictReached == []<>(~pendingFailure \/ ~visible)
=============================================================================
