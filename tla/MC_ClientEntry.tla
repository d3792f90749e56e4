--------------------------- MODULE MC_ClientEntry ---------------------------
(***************************************************************************)
(* What the web client puts before its requests, for TLC: challenges,      *)
(* agreements and the notice that the server is gone.  The components      *)
(* share no state, so a behaviour exercises one of them, chosen at the     *)
(* start, and the others rest in their initial states.                     *)
(***************************************************************************)
EXTENDS Captcha, LegalConsent, Availability

CONSTANTS r1, r2, r3, k1, k2

VARIABLE component

vars == <<component, captchaVars, legalVars, availabilityVars>>

\* One initial state of the components that rest is enough.
Init ==
    /\ component \in {"captcha", "legal", "availability"}
    /\ CaptchaInit /\ LegalInit /\ AvailabilityInit
    /\ allowed \/ component = "captcha"
    /\ visible \/ component = "availability"

Next ==
    /\ UNCHANGED component
    /\ \/ /\ component = "captcha" /\ CaptchaNext
          /\ UNCHANGED <<legalVars, availabilityVars>>
       \/ /\ component = "legal" /\ LegalNext
          /\ UNCHANGED <<captchaVars, availabilityVars>>
       \/ /\ component = "availability" /\ AvailabilityNext
          /\ UNCHANGED <<captchaVars, legalVars>>

\* Nothing that a component is to do in the end is possible in its initial state, so the
\* fairness of one that rests asks for nothing.
Spec ==
    /\ Init /\ [][Next]_vars
    /\ CaptchaFairness /\ LegalFairness /\ AvailabilityFairness

-----------------------------------------------------------------------------
(* Properties *)

\* One challenge is open at a time, the count of waiting ones is exact, no dialog outlives its
\* context and no frame of the provider the permission to show it (captcha.js); a box is checked
\* for the policies the client knows, and third-party services count as allowed only for the
\* policies they were accepted with (legal-consent.js); no failure is forgotten while the page
\* is visible (backend-availability.js).
EntrySafe ==
    /\ CaptchaTypeOK /\ OneChallenge /\ PendingExact /\ NoStaleDialog /\ ConsentKept
    /\ LegalTypeOK /\ CheckedIsCurrent /\ OptionalWasAccepted
    /\ AvailabilityTypeOK /\ FailureUnderConfirmation

\* A challenge that waits settles in the end (captcha.js); a form goes on only with an agreement
\* that stood while the policies were read, and always gets an answer (legal-consent.js); the
\* server is announced as gone only after two failed probes of a visible page, and a failure
\* gets its verdict (backend-availability.js).
EntryProgress ==
    /\ ChallengesSettle
    /\ PassedOnSteadyConsent /\ FormsAnswered
    /\ OfflineConfirmed /\ VerdictReached
=============================================================================
