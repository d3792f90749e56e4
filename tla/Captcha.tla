------------------------------ MODULE Captcha ------------------------------
(***************************************************************************)
(* The human check of the web client (js/captcha.js and the provider frame *)
(* js/captcha-widget.js).  A request the server refuses with 428 waits for *)
(* its turn in a chain of promises, one dialog at a time asks the provider *)
(* for a proof, and the request is sent once more with it.  Leaving the    *)
(* page, a change of the session or of the settings (cancelChallenges)     *)
(* cancels everything that was asked for before.  An event handler of the  *)
(* browser and the promise reactions it triggers run without interruption, *)
(* so an action reaches from one external event to the next wait.          *)
(***************************************************************************)
EXTENDS Naturals, Sequences, FiniteSets

CONSTANTS
    Requests,        \* calls of captchaFetch and uploadFileSinglePut
    NoRequest,
    MaxQueued,       \* the limit of 8 on pending
    MaxGeneration,   \* bound of the model on cancellations
    MaxFrames        \* bound of the model on provider frames

\* The limits are counts, and no controller is no request.
ASSUME QueuedAssumption == MaxQueued \in Nat
ASSUME GenerationAssumption == MaxGeneration \in Nat
ASSUME FramesAssumption == MaxFrames \in Nat
ASSUME NoRequestAssumption == NoRequest \notin Requests

VARIABLES
    generation,        \* let generation
    queue,             \* let queue: the challenges that have not settled, in order
    pending,           \* let pending
    activeController,  \* the request whose dialog holds let activeController
    caller,            \* where the call of each request is
    epoch,             \* const epoch of captchaHeaders
    aborted,           \* requests whose AbortSignal has fired
    allowed,           \* what optionalServicesAllowed answers
    dialog             \* the dialog of activeController

captchaVars == <<generation, queue, pending, activeController, caller, epoch,
                 aborted, allowed, dialog>>

\* asking: calls of render that wait for optionalServicesAllowed; frame: the
\* nonce of the frame on show, 0 when there is none; verifying: the flag;
\* checks: requests to /api/captcha/verify under way.
Closed == [asking |-> 0, frame |-> 0, issued |-> 0, verifying |-> FALSE,
           checks |-> 0, retry |-> FALSE]

\* The dialog right after openModalWithAnim and the first call of render.
Opened == [Closed EXCEPT !.asking = 1]

\* failed(): the frame is gone and the retry button is shown.
Failed(d) == [d EXCEPT !.frame = 0, !.verifying = FALSE, !.retry = TRUE]

CaptchaTypeOK ==
    /\ generation \in 0..MaxGeneration
    /\ queue \in Seq(Requests)
    /\ pending \in 0..MaxQueued
    /\ activeController \in Requests \cup {NoRequest}
    /\ caller \in [Requests -> {"idle", "sent", "queued", "metadata", "dialog",
                                "approved", "resent", "done", "failed"}]
    /\ epoch \in [Requests -> 0..MaxGeneration]
    /\ aborted \subseteq Requests
    /\ allowed \in BOOLEAN
    /\ dialog \in [asking : 0..2, frame : 0..MaxFrames, issued : 0..MaxFrames,
                   verifying : BOOLEAN, checks : 0..MaxFrames, retry : BOOLEAN]

CaptchaInit ==
    /\ generation = 0
    /\ queue = <<>>
    /\ pending = 0
    /\ activeController = NoRequest
    /\ caller = [r \in Requests |-> "idle"]
    /\ epoch = [r \in Requests |-> 0]
    /\ aborted = {}
    /\ allowed \in BOOLEAN
    /\ dialog = Closed

-----------------------------------------------------------------------------
(* The caller.                                                             *)

\* fetch(url, options)
Fetch(r) ==
    /\ caller[r] = "idle"
    /\ caller' = [caller EXCEPT ![r] = "sent"]
    /\ UNCHANGED <<generation, queue, pending, activeController, epoch, aborted,
                   allowed, dialog>>

\* Any answer but the refusal of the human check goes back to the caller.
Answer(r) ==
    /\ caller[r] \in {"sent", "resent"}
    /\ caller' = [caller EXCEPT ![r] = "done"]
    /\ UNCHANGED <<generation, queue, pending, activeController, epoch, aborted,
                   allowed, dialog>>

\* A challenge joins the chain, unless too many wait or the scope is none the
\* client knows.
Enqueue(r) ==
    /\ \/ /\ pending < MaxQueued
          /\ caller' = [caller EXCEPT ![r] = "queued"]
          /\ epoch' = [epoch EXCEPT ![r] = generation]
          /\ pending' = pending + 1
          /\ queue' = Append(queue, r)
       \/ /\ caller' = [caller EXCEPT ![r] = "failed"]
          /\ UNCHANGED <<epoch, pending, queue>>
    /\ UNCHANGED <<generation, activeController, aborted, allowed, dialog>>

\* The refusal of a request that was sent.
Deny(r) == caller[r] = "sent" /\ Enqueue(r)

\* acquireCaptchaProof: a caller that asks before it sends anything.
Acquire(r) == caller[r] = "idle" /\ Enqueue(r)

\* The context in which r was asked for still stands.
Live(r) == epoch[r] = generation /\ r \notin aborted

\* The challenge of r, the first of the chain, ends: its finally blocks give up
\* the controller and the dialog, and the chain moves on.
End(r, outcome) ==
    /\ queue' = Tail(queue)
    /\ pending' = pending - 1
    /\ caller' = [caller EXCEPT ![r] = outcome]
    /\ activeController' = NoRequest
    /\ dialog' = Closed

\* captchaHeaders hands the proof to a caller whose context still stands.
Settle(r, outcome) == End(r, IF Live(r) THEN outcome ELSE "failed")

\* The first challenge of the chain starts: it asks for /api/captcha unless its
\* context was left while it waited.
Begin(r) ==
    /\ caller[r] = "queued"
    /\ queue # <<>> /\ r = Head(queue)
    /\ \/ /\ ~Live(r)
          /\ Settle(r, "failed")
       \/ /\ Live(r)
          /\ caller' = [caller EXCEPT ![r] = "metadata"]
          /\ UNCHANGED <<queue, pending, activeController, dialog>>
    /\ UNCHANGED <<generation, epoch, aborted, allowed>>

\* The answer of /api/captcha says that no proof is needed, or it is no use (an
\* error, the timeout of 15 s, an unknown provider).
MetadataEnds(r) ==
    /\ caller[r] = "metadata"
    /\ \E outcome \in {"approved", "failed"} : Settle(r, outcome)
    /\ UNCHANGED <<generation, epoch, aborted, allowed>>

\* Mutant: the context is not looked at again after the metadata.
OpenDialogUnchecked(r) ==
    /\ caller[r] = "metadata"
    /\ caller' = [caller EXCEPT ![r] = "dialog"]
    /\ activeController' = r
    /\ dialog' = Opened
    /\ UNCHANGED <<queue, pending, generation, epoch, aborted, allowed>>

\* A provider is configured: the dialog opens, in a context that still stands.
OpenDialog(r) ==
    /\ caller[r] = "metadata"
    /\ \/ /\ ~Live(r)
          /\ Settle(r, "failed")
       \/ /\ Live(r)
          /\ caller' = [caller EXCEPT ![r] = "dialog"]
          /\ activeController' = r
          /\ dialog' = Opened
          /\ UNCHANGED <<queue, pending>>
    /\ UNCHANGED <<generation, epoch, aborted, allowed>>

-----------------------------------------------------------------------------
(* The dialog of the active challenge.                                     *)

InDialog == activeController # NoRequest

SetDialog(d) ==
    /\ dialog' = d
    /\ UNCHANGED <<generation, queue, pending, activeController, caller, epoch,
                   aborted, allowed>>

\* A call of render learns whether third-party services are allowed.  It makes a
\* frame only if no other call made one and no answer is being verified; when
\* the question itself fails the frame on show is given up.
Render ==
    /\ InDialog /\ dialog.asking > 0
    /\ LET d == [dialog EXCEPT !.asking = @ - 1]
           idle == d.frame = 0 /\ ~d.verifying
       IN  \/ /\ allowed /\ idle /\ d.issued < MaxFrames
              /\ SetDialog([d EXCEPT !.frame = d.issued + 1, !.issued = @ + 1,
                                     !.retry = FALSE])
           \/ /\ ~(allowed /\ idle)
              /\ SetDialog(d)
           \/ SetDialog(Failed(d))

\* The frame reports an error or that its answer expired, or says nothing for
\* 25 s (frameTimer).
FrameFails ==
    /\ InDialog /\ dialog.frame # 0
    /\ SetDialog(Failed(dialog))

\* The frame reports the answer of the provider: it is removed and the answer is
\* sent to /api/captcha/verify.
FrameCompletes ==
    /\ InDialog /\ dialog.frame # 0 /\ ~dialog.verifying
    /\ SetDialog([dialog EXCEPT !.frame = 0, !.verifying = TRUE, !.checks = @ + 1])

\* /api/captcha/verify refuses the answer, fails or returns nothing usable.
VerifyFails ==
    /\ InDialog /\ dialog.checks > 0
    /\ SetDialog(Failed([dialog EXCEPT !.checks = @ - 1]))

\* The settings changed meanwhile (409), or the proof is good: it is used only
\* if third-party services are still allowed.
VerifyEnds ==
    /\ InDialog /\ dialog.checks > 0
    /\ \/ Settle(activeController, "failed")
       \/ Settle(activeController, IF allowed THEN "approved" ELSE "failed")
    /\ UNCHANGED <<generation, epoch, aborted, allowed>>

\* The retry button calls render again.
Retry ==
    /\ InDialog /\ dialog.retry /\ dialog.asking < 2
    /\ SetDialog([dialog EXCEPT !.asking = @ + 1])

\* Escape, the backdrop and the buttons abort the controller.
CancelDialog ==
    /\ InDialog
    /\ Settle(activeController, "failed")
    /\ UNCHANGED <<generation, epoch, aborted, allowed>>

\* Mutant: the timeout of the dialog only shows the retry button.
TimeoutShowsRetry == InDialog /\ SetDialog(Failed(dialog))

\* The dialog gives up after 300 s.
DialogTimeout ==
    /\ InDialog
    /\ Settle(activeController, "failed")
    /\ UNCHANGED <<generation, epoch, aborted, allowed>>

-----------------------------------------------------------------------------
(* Events of the page.                                                     *)

\* cancelChallenges: nothing that was asked for before survives.
CancelChallenges ==
    /\ generation < MaxGeneration
    /\ generation' = generation + 1
    /\ IF InDialog
       THEN End(activeController, "failed")
       ELSE UNCHANGED <<queue, pending, caller, activeController, dialog>>

\* popstate, pagehide, appNavigation, authChanged, captchaSettingsChanged.
LeaveContext ==
    /\ CancelChallenges
    /\ UNCHANGED <<epoch, aborted, allowed>>

\* cookiePreferencesChanged: a dialog goes away when the services are no longer
\* allowed, and tries again when they are.
PreferencesChange ==
    /\ \E optional \in BOOLEAN :
         /\ allowed' = optional
         /\ \/ /\ ~optional /\ InDialog
               /\ CancelChallenges
            \/ /\ optional /\ InDialog /\ dialog.asking < 2
               /\ dialog' = [dialog EXCEPT !.asking = @ + 1]
               /\ UNCHANGED <<generation, queue, pending, activeController, caller>>
            \/ /\ ~InDialog
               /\ UNCHANGED <<generation, queue, pending, activeController, caller,
                              dialog>>
    /\ UNCHANGED <<epoch, aborted>>

\* The AbortSignal of the caller fires: the dialog, and a fetch that it covers,
\* end at once; a challenge that waits finds out when its turn comes.
AbortSignal(r) ==
    /\ r \notin aborted
    /\ caller[r] \in {"queued", "metadata", "dialog"}
    /\ aborted' = aborted \cup {r}
    /\ IF caller[r] = "queued"
       THEN UNCHANGED <<queue, pending, caller, activeController, dialog>>
       ELSE End(r, "failed")
    /\ UNCHANGED <<generation, epoch, allowed>>

\* captchaFetch has cancelled the body of the refusal and sends the request
\* again, once; who asked for a proof first sends its request with it.
Resend(r) ==
    /\ caller[r] = "approved"
    /\ caller' = [caller EXCEPT ![r] = "resent"]
    /\ UNCHANGED <<generation, queue, pending, activeController, epoch, aborted,
                   allowed, dialog>>

-----------------------------------------------------------------------------
CaptchaNext ==
    \/ \E r \in Requests :
         \/ Fetch(r)
         \/ Answer(r)
         \/ Deny(r)
         \/ Acquire(r)
         \/ Begin(r)
         \/ MetadataEnds(r)
         \/ OpenDialog(r)
         \/ AbortSignal(r)
         \/ Resend(r)
    \/ Render
    \/ FrameFails
    \/ FrameCompletes
    \/ VerifyFails
    \/ VerifyEnds
    \/ Retry
    \/ CancelDialog
    \/ DialogTimeout
    \/ LeaveContext
    \/ PreferencesChange

\* Promise reactions run, the fetch of /api/captcha has a timeout and the dialog
\* has one.
CaptchaFairness ==
    /\ \A r \in Requests : WF_captchaVars(Begin(r)) /\ WF_captchaVars(MetadataEnds(r))
    /\ WF_captchaVars(DialogTimeout)

-----------------------------------------------------------------------------
(* Properties.                                                             *)

\* However the answers interleave, one challenge at a time talks to the server
\* or shows a dialog, it is the oldest one, and the controller that the events
\* of the page abort is the one of the dialog on show (queue.then and
\* activeController in captcha.js).
OneChallenge ==
    /\ \A r \in Requests :
         caller[r] \in {"metadata", "dialog"} => queue # <<>> /\ r = Head(queue)
    /\ \A r \in Requests : caller[r] = "dialog" <=> activeController = r

\* The counter that limits the chain counts exactly the challenges that have not
\* settled: no way out of challenge() leaks a place or gives one back twice.
PendingExact ==
    pending = Cardinality({r \in Requests : caller[r] \in {"queued", "metadata", "dialog"}})

\* No dialog outlives the context that asked for it: a dialog on show belongs to
\* the current generation and to a caller that has not aborted, although both
\* may change while the challenge waits for its turn and for the metadata.
NoStaleDialog == InDialog => Live(activeController)

\* The provider's frame, and with it third-party code, is on show only while
\* the user allows such services, although render asks and acts in two steps.
ConsentKept == dialog.frame # 0 => allowed

\* A challenge that waits is settled in the end, whatever the dialogs before it
\* do.
ChallengesSettle ==
    \A r \in Requests : []<>(caller[r] \notin {"queued", "metadata", "dialog"})
=============================================================================
