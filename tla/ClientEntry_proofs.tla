------------------------- MODULE ClientEntry_proofs -------------------------
(***************************************************************************)
(* What the web client puts before its requests, for any number of         *)
(* requests, forms and every bound: the invariants of the challenges, of   *)
(* the agreements and of the notice that the server is gone.               *)
(***************************************************************************)
EXTENDS MC_ClientEntry, FiniteSetTheorems, SequenceTheorems, TLAPS

-----------------------------------------------------------------------------
(* Availability                                                            *)

\* How many probes a confirmation has seen fail follows from where it is.
ProbesCounted ==
    /\ confirmation \in {"none", "probe"} => failedProbes = 0
    /\ confirmation \in {"delay", "again"} => failedProbes = 1

AvailabilityInv == AvailabilityTypeOK /\ FailureUnderConfirmation /\ ProbesCounted

LEMMA AvailabilityStarts == AvailabilityInit => AvailabilityInv
<1> SUFFICES ASSUME AvailabilityInit PROVE AvailabilityInv
  OBVIOUS
<1>1. pendingFailure \in BOOLEAN /\ offline \in BOOLEAN /\ visible \in BOOLEAN
  BY Zenon DEF AvailabilityInit
<1>2. confirmation = "none" /\ failedProbes = 0
  BY DEF AvailabilityInit
<1>3. ~pendingFailure
  BY Zenon DEF AvailabilityInit
<1> QED BY <1>1, <1>2, <1>3 DEF AvailabilityInv, AvailabilityTypeOK, FailureUnderConfirmation, ProbesCounted

LEMMA AvailabilityStays == AvailabilityInv /\ AvailabilityNext => AvailabilityInv'
<1> SUFFICES ASSUME AvailabilityInv, AvailabilityNext PROVE AvailabilityInv'
  OBVIOUS
<1> USE DEF AvailabilityInv, AvailabilityTypeOK, FailureUnderConfirmation, ProbesCounted
<1>1. CASE NoteFailure
  BY <1>1 DEF NoteFailure, Confirm
<1>2. CASE NoteSuccess
  BY <1>2 DEF NoteSuccess
<1>3. CASE VisibilityChange
  BY <1>3 DEF VisibilityChange, Resume, Confirm
<1>4. CASE Online
  BY <1>4 DEF Online, Resume, Confirm
<1>5. CASE RetryConnection
  BY <1>5 DEF RetryConnection, Confirm
<1>6. CASE ConfirmationNext
  <2>1. /\ pendingFailure' \in BOOLEAN /\ offline' \in BOOLEAN /\ visible' \in BOOLEAN
        /\ confirmation' = "none" => ~pendingFailure \/ ~visible
        /\ pendingFailure' => pendingFailure
        /\ visible' = visible
    <3>1. CASE ProbeSucceeds
      BY <3>1, Zenon DEF ProbeSucceeds
    <3>2. CASE FirstProbeFails
      BY <3>2, Zenon DEF FirstProbeFails
    <3>3. CASE DelayEnds
      BY <3>3, Zenon DEF DelayEnds
    <3>4. CASE SecondProbeFails
      BY <3>4, Zenon DEF SecondProbeFails
    <3>5. CASE ConfirmationSettles
      BY <3>5, Zenon DEF ConfirmationSettles
    <3> QED BY <1>6, <3>1, <3>2, <3>3, <3>4, <3>5 DEF ConfirmationNext
  <2>2. /\ confirmation' \in {"none", "probe", "delay", "again", "settled"}
        /\ failedProbes' \in 0..2
        /\ ProbesCounted'
    BY <1>6 DEF ConfirmationNext, ProbeSucceeds, FirstProbeFails, DelayEnds, SecondProbeFails,
                ConfirmationSettles
  <2> QED BY <2>1, <2>2
<1> QED BY <1>1, <1>2, <1>3, <1>4, <1>5, <1>6 DEF AvailabilityNext

\* The notice appears only in the one step that follows the second failed probe.
LEMMA NoticeStep == AvailabilityInv /\ AvailabilityNext /\ ~offline /\ offline'
                        => visible /\ failedProbes' = 2
<1> SUFFICES ASSUME AvailabilityInv, AvailabilityNext, ~offline, offline'
             PROVE  visible /\ failedProbes' = 2
  OBVIOUS
<1>1. SecondProbeFails /\ visible
  BY Zenon DEF AvailabilityNext, ConfirmationNext, NoteFailure, NoteSuccess, VisibilityChange, Online,
       RetryConnection, ProbeSucceeds, FirstProbeFails, DelayEnds, SecondProbeFails, ConfirmationSettles
<1> QED BY <1>1 DEF SecondProbeFails, AvailabilityInv, ProbesCounted

-----------------------------------------------------------------------------
(* LegalConsent                                                            *)

\* Every box carries the revision the client knows.
BoxesFollow == \A k \in Kinds : box[k].revision = metadata

\* A form whose flow saw no change of the boxes has had its box checked all along.
FlowsSteady == \A k \in Kinds :
    /\ flow[k].epoch <= consentEpoch
    /\ flow[k].pc = "loading" /\ flow[k].epoch = consentEpoch /\ box[k].checked => k \in steady

\* A choice for the services was made for policies they were accepted with.
ChoiceAccepted == choice.optional /\ choice.revision # 0 => choice.revision \in accepted

LegalInv == LegalTypeOK /\ CheckedIsCurrent /\ BoxesFollow /\ FlowsSteady /\ ChoiceAccepted

ReadStates == [active : BOOLEAN, revision : 0..MaxRevision]
BoxStates == [checked : BOOLEAN, revision : 0..MaxRevision, setFor : 0..MaxRevision]
FlowStates == [pc : {"idle", "loading", "passed", "refused"}, epoch : 0..MaxEpoch]
ChoiceStates == [revision : 0..MaxRevision, optional : BOOLEAN]

LegalTyped ==
    /\ policy \in Revisions /\ metadata \in 0..MaxRevision /\ read \in ReadStates
    /\ box \in [Kinds -> BoxStates] /\ cookie \in 0..MaxRevision /\ consentEpoch \in 0..MaxEpoch
    /\ flow \in [Kinds -> FlowStates] /\ steady \subseteq Kinds /\ choice \in ChoiceStates
    /\ dialogs \in Seq(Revisions) /\ openings \in 0..2 /\ accepted \subseteq Revisions

LEMMA LegalTypes == (LegalTypeOK <=> LegalTyped) /\ (LegalTypeOK' <=> LegalTyped')
BY Zenon DEF LegalTypeOK, LegalTyped, ReadStates, BoxStates, FlowStates, ChoiceStates

\* A sequence that repeats a member of a set is a sequence over the set.
LEMMA ConstantSeq == ASSUME NEW S, NEW v \in S, NEW n \in Nat PROVE [i \in 1..n |-> v] \in Seq(S)
<1> DEFINE f == [i \in 1..n |-> v]
<1>1. f \in [1..n -> S]
  OBVIOUS
<1> HIDE DEF f
<1>2. f \in UNION {[1..m -> S] : m \in Nat}
  BY <1>1, Zenon
<1> QED BY <1>2, SeqDef, Zenon DEF f

\* Reads and boxes stay reads and boxes when a field is set.
LEMMA ReadSet ==
    ASSUME NEW r \in ReadStates, NEW p \in 0..MaxRevision
    PROVE  [r EXCEPT !.active = TRUE] \in ReadStates /\ [r EXCEPT !.revision = p] \in ReadStates
BY DEF ReadStates

LEMMA BoxToggled ==
    ASSUME NEW boxes \in [Kinds -> BoxStates], NEW k \in Kinds, NEW m \in 0..MaxRevision
    PROVE  [boxes EXCEPT ![k].checked = ~@, ![k].setFor = m] \in [Kinds -> BoxStates]
<1> DEFINE b == [boxes[k] EXCEPT !.checked = ~@, !.setFor = m]
<1>1. b \in BoxStates
  BY DEF BoxStates
<1>2. [boxes EXCEPT ![k].checked = ~@, ![k].setFor = m] = [boxes EXCEPT ![k] = b]
  OBVIOUS
<1> HIDE DEF b
<1> QED BY <1>1, <1>2

LEMMA BoxCleared ==
    ASSUME NEW boxes \in [Kinds -> BoxStates], NEW k \in Kinds
    PROVE  [boxes EXCEPT ![k].checked = FALSE] \in [Kinds -> BoxStates]
<1>1. [boxes[k] EXCEPT !.checked = FALSE] \in BoxStates
  BY DEF BoxStates
<1> QED BY <1>1

\* A box that is controlled carries the revision, and is checked only if it was.
LEMMA ControlledBoxes ==
    ASSUME box \in [Kinds -> BoxStates], NEW m \in 0..MaxRevision
    PROVE  /\ Controls(m) \in [Kinds -> BoxStates]
           /\ \A k \in Kinds :
                LET c == Controls(m)[k]
                IN  /\ c.revision = m /\ c.setFor = box[k].setFor
                    /\ c.checked => box[k].checked /\ box[k].revision = m
<1>1. \A k \in Kinds :
         Controls(m)[k] = [box[k] EXCEPT !.checked = @ /\ (box[k].revision = m) /\ (cookie = m), !.revision = m]
  BY DEF Controls
<1>2. ASSUME NEW k \in Kinds
      PROVE  LET c == Controls(m)[k]
             IN  /\ c \in BoxStates /\ c.revision = m /\ c.setFor = box[k].setFor
                 /\ c.checked => box[k].checked /\ box[k].revision = m
  <2>1. box[k] \in BoxStates
    OBVIOUS
  <2> DEFINE p == box[k].revision = m
             q == cookie = m
  <2>2. p \in BOOLEAN /\ q \in BOOLEAN
    OBVIOUS
  <2>3. Controls(m)[k] = [box[k] EXCEPT !.checked = @ /\ p /\ q, !.revision = m]
    BY <1>1
  <2>4. p => box[k].revision = m
    OBVIOUS
  <2> HIDE DEF p, q
  <2> DEFINE c == [box[k] EXCEPT !.checked = @ /\ p /\ q, !.revision = m]
  <2>5. c \in BoxStates /\ c.revision = m /\ c.setFor = box[k].setFor /\ (c.checked <=> box[k].checked /\ p /\ q)
    BY <2>1, <2>2 DEF BoxStates
  <2> HIDE DEF c
  <2> QED BY <2>3, <2>4, <2>5 DEF c
<1>3. Controls(m) = [k \in Kinds |-> Controls(m)[k]]
  BY DEF Controls
<1> QED BY <1>2, <1>3

\* A form that does not wait any more keeps its epoch.
LEMMA FlowEnds ==
    ASSUME NEW f \in FlowStates, NEW place \in {"passed", "refused"}
    PROVE  LET g == [f EXCEPT !.pc = place]
           IN  g \in FlowStates /\ g.pc = place /\ g.epoch = f.epoch
BY DEF FlowStates

LEMMA FlowsEnd ==
    ASSUME LegalTyped, NEW decided \in [Kinds -> {"passed", "refused"}],
           flow' = [k \in Kinds |-> IF flow[k].pc = "loading"
                                    THEN [flow[k] EXCEPT !.pc = decided[k]] ELSE flow[k]]
    PROVE  /\ flow' \in [Kinds -> FlowStates]
           /\ \A k \in Kinds : flow'[k].pc # "loading" /\ flow'[k].epoch = flow[k].epoch
<1>1. ASSUME NEW k \in Kinds
      PROVE  flow'[k] \in FlowStates /\ flow'[k].pc # "loading" /\ flow'[k].epoch = flow[k].epoch
  <2>1. flow[k] \in FlowStates /\ decided[k] \in {"passed", "refused"}
    BY DEF LegalTyped
  <2>2. flow'[k] = IF flow[k].pc = "loading" THEN [flow[k] EXCEPT !.pc = decided[k]] ELSE flow[k]
    OBVIOUS
  <2> QED BY <2>1, <2>2, FlowEnds
<1> QED BY <1>1

LEMMA ChoiceCounts == LegalInv => OptionalWasAccepted
BY DEF LegalInv, ChoiceAccepted, OptionalWasAccepted, HasChoice

LEMMA LegalStarts == LegalInit => LegalInv
BY RevisionAssumption, EpochAssumption
   DEF LegalInit, LegalInv, LegalTypeOK, CheckedIsCurrent, BoxesFollow, FlowsSteady,
       ChoiceAccepted, Revisions, NoRead

\* What a step does to the boxes, the flows and the choice, seen from one form.
BoxesKept == UNCHANGED <<metadata, box, consentEpoch, flow, steady>>
ChoiceKept == UNCHANGED <<choice, accepted>>

\* What the descriptor does to the boxes and the forms when it arrives.
LEMMA Delivered ==
    ASSUME LegalTyped, Deliver
    PROVE  /\ read.revision \in Revisions /\ metadata' = read.revision
           /\ box' \in [Kinds -> BoxStates]
           /\ \A k \in Kinds : /\ box'[k].revision = read.revision /\ box'[k].setFor = box[k].setFor
                               /\ box'[k].checked => box[k].checked /\ box[k].revision = read.revision
           /\ flow' \in [Kinds -> FlowStates]
           /\ \A k \in Kinds : flow'[k].pc # "loading" /\ flow'[k].epoch = flow[k].epoch
           /\ steady' = {k \in steady : box'[k].checked}
<1>1. read.revision \in 0..MaxRevision /\ read.revision # 0
  BY DEF LegalTyped, Deliver, ReadStates
<1>2. /\ metadata' = read.revision /\ box' = Controls(read.revision)
      /\ steady' = {k \in steady : box'[k].checked}
  BY DEF Deliver
<1>3. read.revision \in Revisions
  BY <1>1, RevisionAssumption DEF Revisions
<1> DEFINE decided == [k \in Kinds |-> IF Agrees(k, Controls(read.revision), read.revision)
                                      THEN "passed" ELSE "refused"]
<1>4. decided \in [Kinds -> {"passed", "refused"}]
  OBVIOUS
<1>5. flow' = [k \in Kinds |-> IF flow[k].pc = "loading"
                               THEN [flow[k] EXCEPT !.pc = decided[k]] ELSE flow[k]]
  BY DEF Deliver
<1> HIDE DEF decided
<1>6. /\ flow' \in [Kinds -> FlowStates]
      /\ \A k \in Kinds : flow'[k].pc # "loading" /\ flow'[k].epoch = flow[k].epoch
  BY <1>4, <1>5, FlowsEnd
<1>7. box \in [Kinds -> BoxStates]
  BY DEF LegalTyped
<1> QED BY <1>1, <1>2, <1>3, <1>6, <1>7, ControlledBoxes

LEMMA ReadFailed ==
    ASSUME LegalTyped, ReadFails
    PROVE  /\ flow' \in [Kinds -> FlowStates]
           /\ \A k \in Kinds : flow'[k].pc # "loading" /\ flow'[k].epoch = flow[k].epoch
<1> DEFINE decided == [k \in Kinds |-> "refused"]
<1>1. decided \in [Kinds -> {"passed", "refused"}]
  OBVIOUS
<1>2. flow' = [k \in Kinds |-> IF flow[k].pc = "loading"
                               THEN [flow[k] EXCEPT !.pc = decided[k]] ELSE flow[k]]
  BY DEF ReadFails
<1> HIDE DEF decided
<1> QED BY <1>1, <1>2, FlowsEnd

\* A button of a dialog, or its being closed, leaves the other dialogs.
LEMMA DialogLeaves ==
    ASSUME LegalTyped, NEW i \in DOMAIN dialogs
    PROVE  /\ dialogs[i] \in Revisions
           /\ SubSeq(dialogs, 1, i - 1) \o SubSeq(dialogs, i + 1, Len(dialogs)) \in Seq(Revisions)
<1>1. dialogs \in Seq(Revisions) /\ i \in 1..Len(dialogs) /\ Len(dialogs) \in Nat
  BY DEF LegalTyped
<1>2. SubSeq(dialogs, 1, i - 1) \in Seq(Revisions) /\ dialogs[i] \in Revisions
  BY <1>1
<1>3. SubSeq(dialogs, i + 1, Len(dialogs)) \in Seq(Revisions)
  BY <1>1
<1> QED BY <1>1, <1>2, <1>3

LEMMA LegalTypesStay == ASSUME LegalTyped, LegalNext PROVE LegalTyped'
<1>t. /\ policy \in Revisions /\ metadata \in 0..MaxRevision /\ read \in ReadStates
      /\ box \in [Kinds -> BoxStates] /\ cookie \in 0..MaxRevision /\ consentEpoch \in 0..MaxEpoch
      /\ flow \in [Kinds -> FlowStates] /\ steady \subseteq Kinds /\ choice \in ChoiceStates
      /\ dialogs \in Seq(Revisions) /\ openings \in 0..2 /\ accepted \subseteq Revisions
  BY DEF LegalTyped
<1>r. \A r \in Revisions : r \in 0..MaxRevision
  BY RevisionAssumption DEF Revisions
<1>j. Join => read' \in ReadStates
  <2>1. 0 \in 0..MaxRevision
    BY RevisionAssumption
  <2> QED BY <1>t, <2>1, ReadSet DEF Join
<1>n. NoRead \in ReadStates
  BY RevisionAssumption DEF NoRead, ReadStates
<1>e. consentEpoch < MaxEpoch => consentEpoch + 1 \in 0..MaxEpoch
  BY <1>t, EpochAssumption
<1>c. ASSUME NEW optional \in BOOLEAN, NEW m \in Revisions, SaveChoice(optional, m), metadata = m
      PROVE  choice' \in ChoiceStates /\ accepted' \subseteq Revisions
  <2>1. [revision |-> metadata, optional |-> optional] \in ChoiceStates
    BY <1>c, <1>t DEF ChoiceStates
  <2> QED BY <1>c, <1>t, <2>1 DEF SaveChoice
<1>1. CASE PublishPolicy
  <2>1. policy' \in Revisions
    BY <1>1, <1>t, RevisionAssumption DEF PublishPolicy, Revisions
  <2> QED BY <1>1, <1>t, <2>1, Zenon DEF PublishPolicy, LegalTyped
<1>2. CASE Refresh
  BY <1>2, <1>t, <1>j, Zenon DEF Refresh, LegalTyped
<1>3. CASE ServerReads
  <2>1. read' \in ReadStates
    BY <1>3, <1>t, <1>r, ReadSet DEF ServerReads
  <2> QED BY <1>3, <1>t, <2>1, Zenon DEF ServerReads, LegalTyped
<1>4. CASE OpenPreferences
  <2>1. openings' \in 0..2
    BY <1>4, <1>t DEF OpenPreferences
  <2> QED BY <1>4, <1>t, <1>j, <2>1, Zenon DEF OpenPreferences, LegalTyped
<1>5. CASE CookieChanges
  <2>1. cookie' \in 0..MaxRevision
    BY <1>5, <1>t, RevisionAssumption DEF CookieChanges, Revisions
  <2> QED BY <1>5, <1>t, <2>1, Zenon DEF CookieChanges, LegalTyped
<1>6. CASE Deliver
  <2>1. /\ dialogs' = dialogs \o [i \in 1..openings |-> read.revision]
        /\ openings' = 0 /\ read' = NoRead
        /\ UNCHANGED <<policy, cookie, consentEpoch, choice, accepted>>
    BY <1>6 DEF Deliver
  <2>2. /\ read.revision \in Revisions /\ metadata' = read.revision
        /\ box' \in [Kinds -> BoxStates] /\ flow' \in [Kinds -> FlowStates]
        /\ steady' = {k \in steady : box'[k].checked}
    BY <1>6, Delivered
  <2>3. [i \in 1..openings |-> read.revision] \in Seq(Revisions)
    <3>1. openings \in Nat
      BY <1>t
    <3> QED BY <2>2, <3>1, ConstantSeq, Zenon
  <2>4. dialogs' \in Seq(Revisions)
    BY <2>1, <2>3, <1>t
  <2>5. steady' \subseteq Kinds /\ openings' \in 0..2
    BY <2>1, <2>2, <1>t
  <2> QED BY <2>1, <2>2, <2>4, <2>5, <1>r, <1>n, <1>t, Zenon DEF LegalTyped
<1>7. CASE ReadFails
  <2>1. /\ openings' = 0 /\ read' = NoRead
        /\ UNCHANGED <<policy, metadata, box, cookie, consentEpoch, steady, choice, dialogs, accepted>>
    BY <1>7 DEF ReadFails
  <2>2. 0 \in 0..2
    OBVIOUS
  <2>3. flow' \in [Kinds -> FlowStates]
    BY <1>7, ReadFailed
  <2> QED BY <2>1, <2>2, <2>3, <1>n, <1>t, Zenon DEF LegalTyped
<1>8. ASSUME NEW k \in Kinds, Toggle(k) PROVE LegalTyped'
  <2>1. box' \in [Kinds -> BoxStates]
    BY <1>8, <1>t, BoxToggled DEF Toggle
  <2>2. consentEpoch' \in 0..MaxEpoch /\ cookie' \in 0..MaxRevision /\ steady' \subseteq Kinds
    BY <1>8, <1>t, <1>e, RevisionAssumption DEF Toggle
  <2> QED BY <1>8, <1>t, <2>1, <2>2, Zenon DEF Toggle, LegalTyped
<1>9. ASSUME NEW k \in Kinds, LeaveForm(k) PROVE LegalTyped'
  <2>1. box' \in [Kinds -> BoxStates]
    BY <1>9, <1>t, BoxCleared DEF LeaveForm
  <2>2. consentEpoch' \in 0..MaxEpoch /\ steady' \subseteq Kinds
    BY <1>9, <1>t, <1>e DEF LeaveForm
  <2> QED BY <1>9, <1>t, <2>1, <2>2, Zenon DEF LeaveForm, LegalTyped
<1>10. ASSUME NEW k \in Kinds, EnsureLegalConsent(k) PROVE LegalTyped'
  <2>1. [pc |-> "loading", epoch |-> consentEpoch] \in FlowStates
    BY <1>t DEF FlowStates
  <2>2. flow' \in [Kinds -> FlowStates] /\ steady' \subseteq Kinds
    BY <1>10, <1>t, <2>1 DEF EnsureLegalConsent
  <2> QED BY <1>10, <1>t, <1>j, <2>2, Zenon DEF EnsureLegalConsent, LegalTyped
<1>11. ASSUME NEW i \in DOMAIN dialogs, SaveDialog(i) PROVE LegalTyped'
  <2>1. dialogs[i] \in Revisions /\ dialogs' \in Seq(Revisions)
    BY <1>11, DialogLeaves DEF SaveDialog
  <2>2. choice' \in ChoiceStates /\ accepted' \subseteq Revisions
    BY <1>11, <1>t, <1>c, <2>1 DEF SaveDialog
  <2> QED BY <1>11, <1>t, <2>1, <2>2, Zenon DEF SaveDialog, LegalTyped
<1>12. ASSUME NEW i \in DOMAIN dialogs, CloseDialog(i) PROVE LegalTyped'
  <2>1. dialogs' \in Seq(Revisions)
    BY <1>12, DialogLeaves DEF CloseDialog
  <2> QED BY <1>12, <1>t, <2>1, Zenon DEF CloseDialog, LegalTyped
<1>13. CASE NoticeChoice
  <2>1. metadata \in Revisions
    BY <1>13, <1>t, RevisionAssumption DEF NoticeChoice, Revisions
  <2>2. choice' \in ChoiceStates /\ accepted' \subseteq Revisions
    BY <1>13, <1>c, <2>1 DEF NoticeChoice
  <2> QED BY <1>13, <1>t, <2>2, Zenon DEF NoticeChoice, LegalTyped
<1> QED BY <1>1, <1>2, <1>3, <1>4, <1>5, <1>6, <1>7, <1>8, <1>9, <1>10, <1>11, <1>12, <1>13 DEF LegalNext

LEMMA LegalStays == LegalInv /\ LegalNext => LegalInv'
<1> SUFFICES ASSUME LegalInv, LegalNext PROVE LegalInv'
  OBVIOUS
<1>t. LegalTyped /\ LegalTypeOK'
  BY LegalTypes, LegalTypesStay DEF LegalInv
<1>k. /\ flow \in [Kinds -> FlowStates] /\ consentEpoch \in Nat /\ \A k \in Kinds : flow[k].epoch \in Nat
      /\ box \in [Kinds -> BoxStates]
  BY <1>t, EpochAssumption DEF LegalTyped, FlowStates
<1>b. BoxesKept => CheckedIsCurrent' /\ BoxesFollow' /\ FlowsSteady'
  BY DEF LegalInv, BoxesKept, CheckedIsCurrent, BoxesFollow, FlowsSteady
<1>c. ChoiceKept => ChoiceAccepted'
  BY DEF LegalInv, ChoiceKept, ChoiceAccepted
<1>s. ASSUME NEW optional, SaveChoice(optional, metadata) PROVE ChoiceAccepted'
  BY <1>s, <1>t DEF SaveChoice, ChoiceAccepted, LegalTyped, ChoiceStates, LegalInv
<1>1. CASE PublishPolicy \/ Refresh \/ ServerReads \/ OpenPreferences \/ CookieChanges
  <2>1. BoxesKept /\ ChoiceKept
    BY <1>1 DEF PublishPolicy, Refresh, ServerReads, OpenPreferences, CookieChanges, BoxesKept, ChoiceKept
  <2> QED BY <2>1, <1>b, <1>c, <1>t DEF LegalInv
<1>2. CASE Deliver
  <2>1. /\ metadata' = read.revision
        /\ \A k \in Kinds : /\ box'[k].revision = read.revision /\ box'[k].setFor = box[k].setFor
                            /\ box'[k].checked => box[k].checked /\ box[k].revision = read.revision
        /\ \A k \in Kinds : flow'[k].pc # "loading" /\ flow'[k].epoch = flow[k].epoch
    BY <1>2, <1>t, Delivered
  <2>2. ChoiceKept
    BY <1>2 DEF Deliver, ChoiceKept
  <2>3. CheckedIsCurrent' /\ BoxesFollow'
    BY <2>1 DEF LegalInv, CheckedIsCurrent, BoxesFollow
  <2>4. FlowsSteady'
    <3>1. consentEpoch' = consentEpoch
      BY <1>2 DEF Deliver
    <3> QED BY <2>1, <3>1 DEF LegalInv, FlowsSteady
  <2> QED BY <2>2, <2>3, <2>4, <1>c, <1>t DEF LegalInv
<1>3. CASE ReadFails
  <2>1. \A k \in Kinds : flow'[k].pc # "loading" /\ flow'[k].epoch = flow[k].epoch
    BY <1>3, <1>t, ReadFailed
  <2>2. ChoiceKept /\ UNCHANGED <<metadata, box, consentEpoch, steady>>
    BY <1>3 DEF ReadFails, ChoiceKept
  <2>3. CheckedIsCurrent' /\ BoxesFollow' /\ FlowsSteady'
    BY <2>1, <2>2 DEF LegalInv, CheckedIsCurrent, BoxesFollow, FlowsSteady
  <2> QED BY <2>2, <2>3, <1>c, <1>t DEF LegalInv
<1>4. ASSUME NEW k \in Kinds, Toggle(k) \/ LeaveForm(k) PROVE LegalInv'
  <2>1. ChoiceKept /\ UNCHANGED <<metadata, flow>> /\ consentEpoch' = consentEpoch + 1
    BY <1>4 DEF Toggle, LeaveForm, ChoiceKept
  <2>2. \A j \in Kinds : /\ box'[j].revision = box[j].revision
                         /\ box'[j].checked => box'[j] = box[j] \/ box'[j].setFor = metadata
    BY <1>4, <1>k DEF Toggle, LeaveForm, BoxStates
  <2>3. CheckedIsCurrent' /\ BoxesFollow'
    BY <2>1, <2>2 DEF LegalInv, CheckedIsCurrent, BoxesFollow
  <2>4. FlowsSteady'
    BY <2>1, <1>k DEF LegalInv, FlowsSteady
  <2> QED BY <2>1, <2>3, <2>4, <1>c, <1>t DEF LegalInv
<1>5. ASSUME NEW k \in Kinds, EnsureLegalConsent(k) PROVE LegalInv'
  <2>1. /\ flow' = [flow EXCEPT ![k] = [pc |-> "loading", epoch |-> consentEpoch]]
        /\ steady' = IF box[k].checked THEN steady \cup {k} ELSE steady \ {k}
        /\ ChoiceKept /\ UNCHANGED <<metadata, box, consentEpoch>>
    BY <1>5 DEF EnsureLegalConsent, ChoiceKept
  <2>2. CheckedIsCurrent' /\ BoxesFollow'
    BY <2>1 DEF LegalInv, CheckedIsCurrent, BoxesFollow
  <2>3. FlowsSteady'
    BY <2>1, <1>k DEF LegalInv, FlowsSteady
  <2> QED BY <2>1, <2>2, <2>3, <1>c, <1>t DEF LegalInv
<1>6. ASSUME NEW i \in DOMAIN dialogs, SaveDialog(i) \/ CloseDialog(i) PROVE LegalInv'
  <2>1. /\ BoxesKept
        /\ ChoiceKept \/ \E optional \in BOOLEAN : SaveChoice(optional, metadata)
    BY <1>6 DEF SaveDialog, CloseDialog, BoxesKept, ChoiceKept
  <2> QED BY <2>1, <1>b, <1>c, <1>s, <1>t DEF LegalInv
<1>7. CASE NoticeChoice
  <2>1. BoxesKept /\ \E optional \in BOOLEAN : SaveChoice(optional, metadata)
    BY <1>7 DEF NoticeChoice, BoxesKept
  <2> QED BY <2>1, <1>b, <1>s, <1>t DEF LegalInv
<1> QED BY <1>1, <1>2, <1>3, <1>4, <1>5, <1>6, <1>7 DEF LegalNext

\* A form goes on only in the turn that delivers the descriptor.
LEMMA PassingStep ==
    ASSUME LegalInv, LegalNext, NEW k \in Kinds, flow[k].pc = "loading", flow'[k].pc = "passed"
    PROVE  k \in steady' /\ box'[k].revision = metadata'
<1>1. box'[k].revision = metadata'
  BY LegalStays DEF LegalInv, BoxesFollow
<1>t. flow \in [Kinds -> [pc : {"idle", "loading", "passed", "refused"}, epoch : 0..MaxEpoch]]
  BY DEF LegalInv, LegalTypeOK
<1>2. flow' # flow
  OBVIOUS
<1>3. ~ReadFails /\ \A j \in Kinds : ~EnsureLegalConsent(j)
  BY <1>t DEF ReadFails, EnsureLegalConsent
<1>4. Deliver
  BY <1>2, <1>3 DEF LegalNext, PublishPolicy, Refresh, ServerReads, Toggle, LeaveForm, CookieChanges,
                    OpenPreferences, SaveDialog, CloseDialog, NoticeChoice
<1> DEFINE boxes == Controls(read.revision)
<1>5. /\ flow'[k].pc = IF Agrees(k, boxes, read.revision) THEN "passed" ELSE "refused"
      /\ steady' = {j \in steady : boxes[j].checked}
  BY <1>4, <1>t DEF Deliver
<1>6. Agrees(k, boxes, read.revision)
  BY <1>5
<1>7. flow[k].epoch = consentEpoch /\ boxes[k].checked
  BY <1>6 DEF Agrees
<1>8. box[k].checked
  <2>1. box'[k].checked
    BY <1>4, <1>7 DEF Deliver
  <2>2. LegalTyped
    BY LegalTypes DEF LegalInv
  <2> QED BY <1>4, <2>1, <2>2, Delivered
<1>9. k \in steady
  BY <1>7, <1>8 DEF LegalInv, FlowsSteady
<1> QED BY <1>1, <1>5, <1>7, <1>9

-----------------------------------------------------------------------------
(* Captcha                                                                 *)

Waits(r) == caller[r] \in {"queued", "metadata", "dialog"}
Waiting == {r \in Requests : Waits(r)}

\* The chain holds exactly the challenges that have not settled, each once, and only its first
\* has begun.
ChainInv ==
    /\ \A i \in 1..Len(queue) : Waits(queue[i])
    /\ \A r \in Requests : Waits(r) => \E i \in 1..Len(queue) : queue[i] = r
    /\ \A i, j \in 1..Len(queue) : queue[i] = queue[j] => i = j
    /\ \A r \in Requests : caller[r] \in {"metadata", "dialog"} => r = queue[1]

CountInv == IsFiniteSet(Waiting) /\ PendingExact

\* The controller belongs to the challenge whose dialog is on show.
ControllerInv ==
    /\ \A r \in Requests : caller[r] = "dialog" <=> activeController = r
    /\ ~InDialog => dialog = Closed

\* Every answer under way came from a frame, and every frame has a nonce of its own.
FramesInv == dialog.checks + (IF dialog.frame # 0 THEN 1 ELSE 0) <= dialog.issued

CaptchaInv ==
    /\ CaptchaTypeOK /\ ChainInv /\ CountInv /\ ControllerInv
    /\ NoStaleDialog /\ ConsentKept /\ FramesInv

DialogStates == [asking : 0..2, frame : 0..MaxFrames, issued : 0..MaxFrames,
                 verifying : BOOLEAN, checks : 0..MaxFrames, retry : BOOLEAN]

Places == {"idle", "sent", "queued", "metadata", "dialog", "approved", "resent", "done", "failed"}

LEMMA CaptchaTypes ==
    CaptchaTypeOK <=>
        /\ generation \in 0..MaxGeneration /\ queue \in Seq(Requests) /\ pending \in 0..MaxQueued
        /\ activeController \in Requests \cup {NoRequest}
        /\ caller \in [Requests -> Places] /\ epoch \in [Requests -> 0..MaxGeneration]
        /\ aborted \subseteq Requests /\ allowed \in BOOLEAN /\ dialog \in DialogStates
BY DEF CaptchaTypeOK, Places, DialogStates

LEMMA FirstIsHead ==
    ASSUME CaptchaTypeOK, ChainInv, NEW r \in Requests, caller[r] \in {"metadata", "dialog"}
    PROVE  queue # <<>> /\ r = Head(queue)
<1>1. queue \in Seq(Requests)
  BY DEF CaptchaTypeOK
<1>2. PICK i \in 1..Len(queue) : queue[i] = r
  BY DEF ChainInv, Waits
<1>3. queue # <<>>
  BY <1>1, <1>2
<1>4. r = queue[1]
  BY DEF ChainInv
<1> QED BY <1>1, <1>3, <1>4

LEMMA CaptchaKept == CaptchaInv => OneChallenge /\ PendingExact /\ NoStaleDialog /\ ConsentKept
<1> SUFFICES ASSUME CaptchaInv PROVE OneChallenge
  BY DEF CaptchaInv, CountInv
<1> QED BY FirstIsHead DEF CaptchaInv, OneChallenge, ControllerInv

LEMMA CaptchaStarts == CaptchaInit => CaptchaInv
<1> SUFFICES ASSUME CaptchaInit PROVE CaptchaInv
  OBVIOUS
<1> USE QueuedAssumption, GenerationAssumption, FramesAssumption, NoRequestAssumption
<1>i. /\ generation = 0 /\ queue = <<>> /\ pending = 0 /\ activeController = NoRequest
      /\ caller = [r \in Requests |-> "idle"] /\ epoch = [r \in Requests |-> 0]
      /\ aborted = {} /\ allowed \in BOOLEAN /\ dialog = Closed
  BY DEF CaptchaInit
<1>1. Closed \in DialogStates /\ Closed.checks = 0 /\ Closed.frame = 0 /\ Closed.issued = 0
  BY DEF Closed, DialogStates
<1>2. CaptchaTypeOK
  BY <1>i, <1>1, CaptchaTypes DEF Places
<1>3. \A r \in Requests : ~Waits(r) /\ caller[r] = "idle"
  BY <1>i DEF Waits
<1>4. ChainInv
  BY <1>i, <1>3 DEF ChainInv
<1>5. CountInv
  <2>1. Waiting = {}
    BY <1>3 DEF Waiting
  <2> QED BY <2>1, <1>i, FS_EmptySet DEF CountInv, PendingExact, Waiting, Waits
<1>6. ControllerInv /\ NoStaleDialog /\ ConsentKept /\ FramesInv
  BY <1>i, <1>1, <1>3 DEF ControllerInv, NoStaleDialog, ConsentKept, FramesInv, InDialog
<1> QED BY <1>2, <1>4, <1>5, <1>6 DEF CaptchaInv

-----------------------------------------------------------------------------
(* The effects of the steps on the chain                                   *)

\* Only a caller that does not wait moves, to where it does not wait.
Moved == /\ \E r \in Requests : \E place \in Places \ {"queued", "metadata", "dialog"} :
              ~Waits(r) /\ caller' = [caller EXCEPT ![r] = place]
         /\ UNCHANGED <<generation, queue, pending, activeController, epoch, aborted, allowed, dialog>>

\* A challenge joins the chain.
Joined(r) == /\ ~Waits(r) /\ pending < MaxQueued
             /\ caller' = [caller EXCEPT ![r] = "queued"]
             /\ epoch' = [epoch EXCEPT ![r] = generation]
             /\ pending' = pending + 1 /\ queue' = Append(queue, r)
             /\ UNCHANGED <<generation, activeController, aborted, allowed, dialog>>

\* The first challenge leaves the chain, whatever happens to the context.
Left(r) == /\ Waits(r) /\ queue # <<>> /\ r = Head(queue)
           /\ \E outcome \in {"approved", "failed"} : End(r, outcome)
           /\ generation' \in 0..MaxGeneration /\ epoch' = epoch
           /\ aborted' \subseteq Requests /\ allowed' \in BOOLEAN

\* The first challenge asks for the metadata, or opens its dialog.
Asked(r) == /\ caller[r] = "queued" /\ queue # <<>> /\ r = Head(queue)
            /\ caller' = [caller EXCEPT ![r] = "metadata"]
            /\ UNCHANGED <<generation, queue, pending, activeController, epoch, aborted, allowed, dialog>>

Shown(r) == /\ caller[r] = "metadata" /\ Live(r)
            /\ caller' = [caller EXCEPT ![r] = "dialog"]
            /\ activeController' = r /\ dialog' = Opened
            /\ UNCHANGED <<queue, pending, generation, epoch, aborted, allowed>>

\* The dialog on show goes on.
Went == /\ InDialog
        /\ dialog' \in DialogStates /\ FramesInv'
        /\ dialog'.frame # 0 => allowed'
        /\ allowed' \in BOOLEAN
        /\ UNCHANGED <<generation, queue, pending, activeController, caller, epoch, aborted>>

\* The context changes and no dialog is on show for it.
Changed == /\ generation' \in 0..MaxGeneration /\ allowed' \in BOOLEAN
           /\ \/ ~InDialog /\ aborted' = aborted
              \/ /\ \E r \in Requests : caller[r] = "queued" /\ aborted' = aborted \cup {r}
                 /\ generation' = generation /\ allowed' = allowed
           /\ UNCHANGED <<queue, pending, activeController, caller, epoch, dialog>>

LEMMA DialogSets ==
    ASSUME NEW d \in DialogStates
    PROVE  /\ [d EXCEPT !.frame = 0, !.verifying = FALSE, !.retry = TRUE] \in DialogStates
           /\ d.asking > 0 => [d EXCEPT !.asking = @ - 1] \in DialogStates
           /\ d.asking < 2 => [d EXCEPT !.asking = @ + 1] \in DialogStates
           /\ d.checks > 0 => [d EXCEPT !.checks = @ - 1] \in DialogStates
           /\ d.issued < MaxFrames =>
                [d EXCEPT !.frame = d.issued + 1, !.issued = @ + 1, !.retry = FALSE] \in DialogStates
           /\ d.checks < MaxFrames =>
                [d EXCEPT !.frame = 0, !.verifying = TRUE, !.checks = @ + 1] \in DialogStates
<1> USE FramesAssumption
<1>a. ASSUME NEW f \in 0..MaxFrames, NEW v \in BOOLEAN, NEW b \in BOOLEAN
      PROVE  [d EXCEPT !.frame = f, !.verifying = v, !.retry = b] \in DialogStates
  BY DEF DialogStates
<1>b. ASSUME NEW f \in 0..MaxFrames, NEW n \in 0..MaxFrames, NEW b \in BOOLEAN
      PROVE  [d EXCEPT !.frame = f, !.issued = n, !.retry = b] \in DialogStates
  BY DEF DialogStates
<1>c. ASSUME NEW f \in 0..MaxFrames, NEW v \in BOOLEAN, NEW n \in 0..MaxFrames
      PROVE  [d EXCEPT !.frame = f, !.verifying = v, !.checks = n] \in DialogStates
  BY DEF DialogStates
<1>d. FALSE \in BOOLEAN /\ TRUE \in BOOLEAN /\ 0 \in 0..MaxFrames
  OBVIOUS
<1>e. /\ d.issued < MaxFrames => d.issued + 1 \in 0..MaxFrames
      /\ d.checks < MaxFrames => d.checks + 1 \in 0..MaxFrames
  BY DEF DialogStates
<1>1. [d EXCEPT !.frame = 0, !.verifying = FALSE, !.retry = TRUE] \in DialogStates
  BY <1>a, <1>d, Zenon
<1>2. d.asking > 0 => [d EXCEPT !.asking = @ - 1] \in DialogStates
  BY DEF DialogStates
<1>3. d.asking < 2 => [d EXCEPT !.asking = @ + 1] \in DialogStates
  BY DEF DialogStates
<1>4. d.checks > 0 => [d EXCEPT !.checks = @ - 1] \in DialogStates
  BY DEF DialogStates
<1>5. d.issued < MaxFrames =>
        [d EXCEPT !.frame = d.issued + 1, !.issued = @ + 1, !.retry = FALSE] \in DialogStates
  BY <1>b, <1>d, <1>e, Zenon
<1>6. d.checks < MaxFrames =>
        [d EXCEPT !.frame = 0, !.verifying = TRUE, !.checks = @ + 1] \in DialogStates
  BY <1>c, <1>d, <1>e, Zenon
<1> QED BY <1>1, <1>2, <1>3, <1>4, <1>5, <1>6

\* A dialog whose frames are counted, and whether they may be on show, are right.
Right(d, permitted) ==
    /\ d \in DialogStates
    /\ d.checks + (IF d.frame # 0 THEN 1 ELSE 0) <= d.issued
    /\ d.frame # 0 => permitted

LEMMA DialogSteps ==
    ASSUME CaptchaInv, Render \/ FrameFails \/ FrameCompletes \/ VerifyFails \/ Retry
    PROVE  Went
<1> USE FramesAssumption
<1>t. /\ dialog \in DialogStates /\ allowed \in BOOLEAN
      /\ dialog.checks + (IF dialog.frame # 0 THEN 1 ELSE 0) <= dialog.issued
      /\ dialog.frame # 0 => allowed
  BY DEF CaptchaInv, CaptchaTypeOK, DialogStates, FramesInv, ConsentKept
<1> DEFINE right(d) == Right(d, allowed)
<1>s. ASSUME NEW d, InDialog, SetDialog(d), right(d) PROVE Went
  BY <1>s, <1>t DEF SetDialog, Went, FramesInv, Right
<1>f. ASSUME NEW d \in DialogStates, d.checks <= d.issued PROVE right(Failed(d))
  <2>1. Failed(d) \in DialogStates
    BY DialogSets DEF Failed
  <2>2. Failed(d).frame = 0 /\ Failed(d).checks = d.checks /\ Failed(d).issued = d.issued
    BY DEF Failed, DialogStates
  <2>3. d.checks \in Nat
    BY DEF DialogStates
  <2> QED BY <1>f, <2>1, <2>2, <2>3 DEF Right
<1>n. dialog.checks \in Nat /\ dialog.issued \in 0..MaxFrames /\ dialog.checks <= dialog.issued
  BY <1>t DEF DialogStates
<1>1. CASE Render
  <2> DEFINE d == [dialog EXCEPT !.asking = @ - 1]
  <2>1. /\ InDialog /\ dialog.asking > 0
        /\ \/ /\ allowed /\ d.frame = 0 /\ d.issued < MaxFrames
              /\ SetDialog([d EXCEPT !.frame = d.issued + 1, !.issued = @ + 1, !.retry = FALSE])
           \/ SetDialog(d)
           \/ SetDialog(Failed(d))
    BY <1>1, Zenon DEF Render
  <2>2. /\ d \in DialogStates /\ d.frame = dialog.frame /\ d.checks = dialog.checks
        /\ d.issued = dialog.issued
    BY <2>1, <1>t, DialogSets DEF DialogStates
  <2> HIDE DEF d
  <2>3. right(d) /\ right(Failed(d))
    BY <1>t, <1>f, <1>n, <2>2 DEF Right
  <2>4. ASSUME allowed, d.frame = 0, d.issued < MaxFrames
        PROVE  right([d EXCEPT !.frame = d.issued + 1, !.issued = @ + 1, !.retry = FALSE])
    <3> DEFINE e == [d EXCEPT !.frame = d.issued + 1, !.issued = @ + 1, !.retry = FALSE]
    <3>1. e \in DialogStates
      BY <2>2, <2>4, DialogSets
    <3>2. e.checks = d.checks /\ e.issued = d.issued + 1
      BY <2>2 DEF DialogStates
    <3> HIDE DEF e
    <3>3. right(e)
      BY <3>1, <3>2, <2>2, <2>4, <1>n DEF Right
    <3> QED BY <3>3 DEF e
  <2> HIDE DEF right
  <2> QED BY <2>1, <2>3, <2>4, <1>s
<1>2. CASE FrameFails
  BY <1>2, <1>t, <1>n, <1>f, <1>s DEF FrameFails
<1>3. CASE FrameCompletes
  <2> DEFINE e == [dialog EXCEPT !.frame = 0, !.verifying = TRUE, !.checks = @ + 1]
  <2>1. InDialog /\ dialog.frame # 0 /\ SetDialog(e)
    BY <1>3 DEF FrameCompletes
  <2>2. dialog.checks < MaxFrames
    BY <2>1, <1>t, <1>n
  <2>3. e \in DialogStates
    BY <2>2, <1>t, DialogSets
  <2>4. e.frame = 0 /\ e.checks = dialog.checks + 1 /\ e.issued = dialog.issued
    BY <1>t DEF DialogStates
  <2> HIDE DEF e
  <2>5. right(e)
    BY <2>1, <2>3, <2>4, <1>t, <1>n DEF Right
  <2> HIDE DEF right
  <2> QED BY <2>1, <2>5, <1>s
<1>4. CASE VerifyFails
  <2> DEFINE d == [dialog EXCEPT !.checks = @ - 1]
  <2>1. InDialog /\ dialog.checks > 0 /\ SetDialog(Failed(d))
    BY <1>4 DEF VerifyFails
  <2>2. d \in DialogStates
    BY <2>1, <1>t, DialogSets
  <2>3. d.checks <= d.issued
    BY <1>t, <1>n DEF DialogStates
  <2> HIDE DEF d, right
  <2> QED BY <2>1, <2>2, <2>3, <1>f, <1>s
<1>5. CASE Retry
  <2> DEFINE d == [dialog EXCEPT !.asking = @ + 1]
  <2>1. InDialog /\ dialog.asking < 2 /\ SetDialog(d)
    BY <1>5 DEF Retry
  <2>2. /\ d \in DialogStates /\ d.frame = dialog.frame /\ d.checks = dialog.checks
        /\ d.issued = dialog.issued
    BY <2>1, <1>t, DialogSets DEF DialogStates
  <2> HIDE DEF d
  <2>3. right(d)
    BY <2>2, <1>t DEF Right
  <2> HIDE DEF right
  <2> QED BY <2>1, <2>3, <1>s
<1> QED BY <1>1, <1>2, <1>3, <1>4, <1>5

LEMMA CaptchaSteps ==
    ASSUME CaptchaInv, CaptchaNext
    PROVE  \/ Moved \/ Went \/ Changed
           \/ \E r \in Requests : Joined(r) \/ Left(r) \/ Asked(r) \/ Shown(r)
<1>t. /\ generation \in 0..MaxGeneration /\ activeController \in Requests \cup {NoRequest}
      /\ caller \in [Requests -> Places] /\ aborted \subseteq Requests /\ allowed \in BOOLEAN
      /\ dialog \in DialogStates /\ OneChallenge
  BY CaptchaKept, CaptchaTypes DEF CaptchaInv
<1>a. ASSUME InDialog
      PROVE  /\ activeController \in Requests /\ Waits(activeController)
             /\ queue # <<>> /\ activeController = Head(queue)
  <2>1. activeController \in Requests
    BY <1>a, <1>t DEF InDialog
  <2>2. caller[activeController] = "dialog"
    BY <2>1, <1>t DEF OneChallenge
  <2> QED BY <2>1, <2>2, <1>t DEF OneChallenge, Waits
<1>e. ASSUME NEW r \in Requests, Waits(r), queue # <<>>, r = Head(queue),
             NEW outcome \in {"approved", "failed"}, End(r, outcome),
             generation' \in 0..MaxGeneration, epoch' = epoch,
             aborted' \subseteq Requests, allowed' \in BOOLEAN
      PROVE  Left(r)
  BY <1>e DEF Left
<1>s. ASSUME NEW r \in Requests, Waits(r), queue # <<>>, r = Head(queue),
             NEW outcome \in {"approved", "failed"}, Settle(r, outcome),
             UNCHANGED <<generation, epoch, aborted, allowed>>
      PROVE  Left(r)
  <2>1. \E o \in {"approved", "failed"} : End(r, o)
    BY <1>s, Zenon DEF Settle
  <2>2. generation' \in 0..MaxGeneration /\ epoch' = epoch /\ aborted' \subseteq Requests
        /\ allowed' \in BOOLEAN
    BY <1>s, <1>t, Zenon
  <2> QED BY <1>s, <2>1, <2>2, Zenon DEF Left
<1>1. ASSUME NEW r \in Requests, Fetch(r) \/ Answer(r) \/ Resend(r) PROVE Moved
  <2>1. ~Waits(r)
    BY <1>1 DEF Fetch, Answer, Resend, Waits
  <2>2. PICK place \in {"sent", "done", "resent"} : caller' = [caller EXCEPT ![r] = place]
    BY <1>1, Zenon DEF Fetch, Answer, Resend
  <2>3. place \in Places \ {"queued", "metadata", "dialog"}
    BY <2>2 DEF Places
  <2>4. UNCHANGED <<generation, queue, pending, activeController, epoch, aborted, allowed, dialog>>
    BY <1>1, Zenon DEF Fetch, Answer, Resend
  <2> QED BY <2>1, <2>2, <2>3, <2>4, Zenon DEF Moved
<1>2. ASSUME NEW r \in Requests, Deny(r) \/ Acquire(r) PROVE Moved \/ Joined(r)
  <2>1. ~Waits(r) /\ Enqueue(r)
    BY <1>2 DEF Deny, Acquire, Waits
  <2>2. "failed" \in Places \ {"queued", "metadata", "dialog"}
    BY DEF Places
  <2> QED BY <2>1, <2>2, Zenon DEF Enqueue, Moved, Joined
<1>3. ASSUME NEW r \in Requests, Begin(r) PROVE Left(r) \/ Asked(r)
  BY <1>3, <1>s DEF Begin, Asked, Waits
<1>4. ASSUME NEW r \in Requests, MetadataEnds(r) PROVE Left(r)
  BY <1>4, <1>s, <1>t DEF MetadataEnds, Waits, OneChallenge
<1>5. ASSUME NEW r \in Requests, OpenDialog(r) PROVE Left(r) \/ Shown(r)
  BY <1>5, <1>s, <1>t DEF OpenDialog, Shown, Waits, OneChallenge
<1>6. ASSUME NEW r \in Requests, AbortSignal(r) PROVE Left(r) \/ Changed
  <2>1. CASE caller[r] = "queued"
    BY <1>6, <2>1, <1>t DEF AbortSignal, Changed
  <2>2. CASE caller[r] # "queued"
    <3>1. /\ caller[r] \in {"metadata", "dialog"} /\ End(r, "failed")
          /\ aborted' = aborted \cup {r} /\ UNCHANGED <<generation, epoch, allowed>>
      BY <1>6, <2>2 DEF AbortSignal
    <3>2. Waits(r) /\ queue # <<>> /\ r = Head(queue)
      BY <3>1, <1>t DEF Waits, OneChallenge
    <3> QED BY <3>1, <3>2, <1>e, <1>t
  <2> QED BY <2>1, <2>2
<1>7. CASE VerifyEnds \/ CancelDialog \/ DialogTimeout
  <2>1. /\ InDialog /\ \E outcome \in {"approved", "failed"} : Settle(activeController, outcome)
        /\ UNCHANGED <<generation, epoch, aborted, allowed>>
    BY <1>7, Zenon DEF VerifyEnds, CancelDialog, DialogTimeout
  <2> QED BY <2>1, <1>a, <1>s, Zenon
<1>c. ASSUME CancelChallenges, epoch' = epoch, aborted' = aborted, allowed' \in BOOLEAN
      PROVE  Changed \/ \E r \in Requests : Left(r)
  <2>1. generation' \in 0..MaxGeneration
    BY <1>c, <1>t, GenerationAssumption DEF CancelChallenges
  <2>2. CASE InDialog
    BY <1>c, <2>1, <2>2, <1>a, <1>e, <1>t DEF CancelChallenges
  <2>3. CASE ~InDialog
    BY <1>c, <2>1, <2>3 DEF CancelChallenges, Changed
  <2> QED BY <2>2, <2>3
<1>8. CASE LeaveContext
  BY <1>8, <1>c, <1>t DEF LeaveContext
<1>9. CASE PreferencesChange
  <2>1. PICK optional \in BOOLEAN :
         /\ allowed' = optional
         /\ \/ /\ ~optional /\ InDialog
               /\ CancelChallenges
            \/ /\ optional /\ InDialog /\ dialog.asking < 2
               /\ dialog' = [dialog EXCEPT !.asking = @ + 1]
               /\ UNCHANGED <<generation, queue, pending, activeController, caller>>
            \/ /\ ~InDialog
               /\ UNCHANGED <<generation, queue, pending, activeController, caller,
                              dialog>>
    BY <1>9, Zenon DEF PreferencesChange
  <2>2. epoch' = epoch /\ aborted' = aborted /\ allowed' \in BOOLEAN
    BY <1>9, Zenon DEF PreferencesChange
  <2>3. CASE CancelChallenges
    BY <2>2, <2>3, <1>c
  <2>4. CASE optional /\ InDialog /\ dialog.asking < 2
             /\ dialog' = [dialog EXCEPT !.asking = @ + 1]
             /\ UNCHANGED <<generation, queue, pending, activeController, caller>>
    <3>1. dialog' \in DialogStates
      BY <2>4, <1>t, DialogSets
    <3>2. dialog'.frame = dialog.frame /\ dialog'.checks = dialog.checks /\ dialog'.issued = dialog.issued
      BY <2>4, <1>t DEF DialogStates
    <3>3. FramesInv'
      BY <3>2 DEF CaptchaInv, FramesInv
    <3>4. allowed'
      BY <2>1, <2>4, Zenon
    <3> QED BY <2>2, <2>4, <3>1, <3>3, <3>4 DEF Went
  <2>5. CASE ~InDialog /\ UNCHANGED <<generation, queue, pending, activeController, caller, dialog>>
    BY <2>2, <2>5, <1>t DEF Changed
  <2> QED BY <2>1, <2>3, <2>4, <2>5, Zenon
<1>10. CASE Render \/ FrameFails \/ FrameCompletes \/ VerifyFails \/ Retry
  BY <1>10, DialogSteps
<1> QED BY <1>1, <1>2, <1>3, <1>4, <1>5, <1>6, <1>7, <1>8, <1>9, <1>10, Zenon DEF CaptchaNext

-----------------------------------------------------------------------------
(* Each effect keeps the invariant                                         *)

\* Who waits, and how many, when one caller starts or stops waiting.
LEMMA OneMore ==
    ASSUME CountInv, NEW r \in Requests, ~Waits(r), pending' = pending + 1,
           Waiting' = Waiting \cup {r}
    PROVE  CountInv'
<1>1. r \notin Waiting /\ IsFiniteSet(Waiting) /\ pending = Cardinality(Waiting)
  BY DEF CountInv, PendingExact, Waiting, Waits
<1>2. IsFiniteSet(Waiting') /\ Cardinality(Waiting') = Cardinality(Waiting) + 1
  BY <1>1, FS_AddElement
<1> QED BY <1>1, <1>2 DEF CountInv, PendingExact, Waiting, Waits

LEMMA OneLess ==
    ASSUME CountInv, NEW r \in Requests, Waits(r), pending' = pending - 1,
           Waiting' = Waiting \ {r}
    PROVE  CountInv' /\ pending \in Nat \ {0}
<1>1. r \in Waiting /\ IsFiniteSet(Waiting) /\ pending = Cardinality(Waiting)
  BY DEF CountInv, PendingExact, Waiting, Waits
<1>2. IsFiniteSet(Waiting') /\ Cardinality(Waiting') = Cardinality(Waiting) - 1
  BY <1>1, FS_RemoveElement
<1>3. pending \in Nat /\ pending # 0
  BY <1>1, FS_CardinalityType, FS_EmptySet
<1> QED BY <1>1, <1>2, <1>3 DEF CountInv, PendingExact, Waiting, Waits

LEMMA MovedKeeps == CaptchaInv /\ Moved => CaptchaInv'
<1> SUFFICES ASSUME CaptchaInv, Moved PROVE CaptchaInv'
  OBVIOUS
<1>t. caller \in [Requests -> Places] /\ queue \in Seq(Requests)
  BY CaptchaTypes DEF CaptchaInv
<1>1. PICK r \in Requests, place \in Places \ {"queued", "metadata", "dialog"} :
         ~Waits(r) /\ caller' = [caller EXCEPT ![r] = place]
  BY DEF Moved
<1>u. UNCHANGED <<generation, queue, pending, activeController, epoch, aborted, allowed, dialog>>
  BY DEF Moved
<1>2. \A q \in Requests : \/ caller'[q] = caller[q]
                          \/ ~Waits(q) /\ ~Waits(q)' /\ caller'[q] \notin {"queued", "metadata", "dialog"}
  BY <1>1, <1>t DEF Waits
<1>3. CaptchaTypeOK'
  BY <1>1, <1>u, <1>t, CaptchaTypes DEF CaptchaInv, CaptchaTypeOK, Places, DialogStates
<1>4. \A q \in Requests : Waits(q)' <=> Waits(q)
  BY <1>2 DEF Waits
<1>5. ChainInv'
  BY <1>2, <1>4, <1>u, <1>t DEF CaptchaInv, ChainInv, Waits
<1>6. Waiting' = Waiting
  BY <1>4 DEF Waiting
<1>7. CountInv'
  BY <1>6, <1>u DEF CaptchaInv, CountInv, PendingExact, Waiting, Waits
<1>8. ControllerInv'
  BY <1>2, <1>u DEF CaptchaInv, ControllerInv, InDialog, Waits
<1>9. NoStaleDialog' /\ ConsentKept' /\ FramesInv'
  BY <1>u DEF CaptchaInv, NoStaleDialog, ConsentKept, FramesInv, InDialog, Live
<1> QED BY <1>3, <1>5, <1>7, <1>8, <1>9 DEF CaptchaInv

LEMMA JoinedKeeps == ASSUME CaptchaInv, NEW r \in Requests, Joined(r) PROVE CaptchaInv'
<1>t. /\ generation \in 0..MaxGeneration /\ queue \in Seq(Requests) /\ pending \in 0..MaxQueued
      /\ activeController \in Requests \cup {NoRequest}
      /\ caller \in [Requests -> Places] /\ epoch \in [Requests -> 0..MaxGeneration]
  BY CaptchaTypes DEF CaptchaInv
<1>u. /\ ~Waits(r) /\ pending < MaxQueued
      /\ caller' = [caller EXCEPT ![r] = "queued"]
      /\ epoch' = [epoch EXCEPT ![r] = generation]
      /\ pending' = pending + 1 /\ queue' = Append(queue, r)
      /\ UNCHANGED <<generation, activeController, aborted, allowed, dialog>>
  BY DEF Joined
<1>1. caller'[r] = "queued" /\ \A q \in Requests \ {r} : caller'[q] = caller[q] /\ epoch'[q] = epoch[q]
  BY <1>u, <1>t
<1>2. \A q \in Requests : Waits(q)' <=> Waits(q) \/ q = r
  BY <1>1 DEF Waits
<1>3. CaptchaTypeOK'
  <2>1. caller' \in [Requests -> Places] /\ epoch' \in [Requests -> 0..MaxGeneration]
    BY <1>u, <1>t DEF Places
  <2>2. queue' \in Seq(Requests) /\ pending' \in 0..MaxQueued
    BY <1>u, <1>t, QueuedAssumption
  <2> QED BY <2>1, <2>2, <1>u, CaptchaTypes DEF CaptchaInv, CaptchaTypeOK, Places, DialogStates
<1>4. ChainInv'
  <2>1. /\ Len(queue') = Len(queue) + 1 /\ queue'[Len(queue) + 1] = r
        /\ \A i \in 1..Len(queue) : queue'[i] = queue[i] /\ queue[i] \in Requests
        /\ Len(queue) \in Nat
    BY <1>u, <1>t
  <2>2. \A i \in 1..Len(queue) : queue[i] # r
    BY <1>u DEF CaptchaInv, ChainInv
  <2>3. \A i \in 1..Len(queue') : caller'[queue'[i]] \in {"queued", "metadata", "dialog"}
    <3> SUFFICES ASSUME NEW i \in 1..Len(queue') PROVE caller'[queue'[i]] \in {"queued", "metadata", "dialog"}
      OBVIOUS
    <3>1. CASE i \in 1..Len(queue)
      <4>1. Waits(queue[i])
        BY <3>1 DEF CaptchaInv, ChainInv
      <4>2. queue'[i] = queue[i] /\ queue[i] # r /\ queue[i] \in Requests
        BY <2>1, <2>2, <3>1
      <4>3. caller'[queue[i]] = caller[queue[i]]
        BY <4>2, <1>1
      <4> QED BY <4>1, <4>2, <4>3 DEF Waits
    <3>2. CASE i = Len(queue) + 1
      BY <3>2, <2>1, <1>1 DEF Waits
    <3> QED BY <2>1, <3>1, <3>2
  <2>4. \A q \in Requests : Waits(q)' => \E i \in 1..Len(queue') : queue'[i] = q
    <3> SUFFICES ASSUME NEW q \in Requests, Waits(q)' PROVE \E i \in 1..Len(queue') : queue'[i] = q
      OBVIOUS
    <3>1. CASE q = r
      BY <3>1, <2>1
    <3>2. CASE q # r
      <4>1. PICK i \in 1..Len(queue) : queue[i] = q
        BY <1>2, <3>2 DEF CaptchaInv, ChainInv
      <4> QED BY <4>1, <2>1
    <3> QED BY <3>1, <3>2
  <2>5. \A i, j \in 1..Len(queue') : queue'[i] = queue'[j] => i = j
    BY <2>1, <2>2 DEF CaptchaInv, ChainInv
  <2>6. \A q \in Requests : caller'[q] \in {"metadata", "dialog"} => q = queue'[1]
    <3> SUFFICES ASSUME NEW q \in Requests, caller'[q] \in {"metadata", "dialog"} PROVE q = queue'[1]
      OBVIOUS
    <3>1. q # r /\ caller[q] \in {"metadata", "dialog"}
      BY <1>1
    <3>2. q = queue[1] /\ Waits(q)
      BY <3>1 DEF CaptchaInv, ChainInv, Waits
    <3>3. \E i \in 1..Len(queue) : queue[i] = q
      BY <3>2 DEF CaptchaInv, ChainInv
    <3> QED BY <3>2, <3>3, <2>1
  <2> QED BY <2>3, <2>4, <2>5, <2>6 DEF ChainInv, Waits
<1>5. CountInv'
  <2>1. Waiting' = Waiting \cup {r}
    BY <1>2 DEF Waiting
  <2> QED BY <2>1, <1>u, OneMore DEF CaptchaInv
<1>6. ControllerInv' /\ activeController # r
  BY <1>1, <1>u DEF CaptchaInv, ControllerInv, InDialog, Waits
<1>7. NoStaleDialog' /\ ConsentKept' /\ FramesInv'
  <2>1. InDialog => activeController \in Requests \ {r}
    BY <1>6, <1>t DEF InDialog
  <2> QED BY <2>1, <1>1, <1>u DEF CaptchaInv, NoStaleDialog, ConsentKept, FramesInv, InDialog, Live
<1> QED BY <1>3, <1>4, <1>5, <1>6, <1>7 DEF CaptchaInv

LEMMA LeftKeeps == ASSUME CaptchaInv, NEW r \in Requests, Left(r) PROVE CaptchaInv'
<1>t. /\ generation \in 0..MaxGeneration /\ queue \in Seq(Requests) /\ pending \in 0..MaxQueued
      /\ activeController \in Requests \cup {NoRequest}
      /\ caller \in [Requests -> Places] /\ epoch \in [Requests -> 0..MaxGeneration]
  BY CaptchaTypes DEF CaptchaInv
<1>u. /\ Waits(r) /\ queue # <<>> /\ r = Head(queue)
      /\ queue' = Tail(queue) /\ pending' = pending - 1
      /\ activeController' = NoRequest /\ dialog' = Closed
      /\ generation' \in 0..MaxGeneration /\ epoch' = epoch
      /\ aborted' \subseteq Requests /\ allowed' \in BOOLEAN
  BY DEF Left, End
<1>o. PICK outcome \in {"approved", "failed"} : caller' = [caller EXCEPT ![r] = outcome]
  BY DEF Left, End
<1>1. caller'[r] \in {"approved", "failed"} /\ \A q \in Requests \ {r} : caller'[q] = caller[q]
  BY <1>o, <1>t
<1>2. \A q \in Requests : Waits(q)' <=> Waits(q) /\ q # r
  BY <1>1 DEF Waits
<1>s. /\ Len(queue) \in Nat \ {0} /\ r = queue[1]
      /\ Len(queue') = Len(queue) - 1
      /\ \A i \in 1..Len(queue') : queue'[i] = queue[i + 1] /\ queue'[i] \in Requests
  BY <1>u, <1>t
<1>5. CountInv' /\ pending \in Nat \ {0}
  <2>1. Waiting' = Waiting \ {r}
    BY <1>2 DEF Waiting
  <2> QED BY <2>1, <1>u, OneLess DEF CaptchaInv
<1>c. Closed \in DialogStates /\ Closed.frame = 0 /\ Closed.checks = 0 /\ Closed.issued = 0
  BY FramesAssumption DEF Closed, DialogStates
<1>3. CaptchaTypeOK'
  <2>1. caller' \in [Requests -> Places]
    BY <1>o, <1>t DEF Places
  <2>2. queue' \in Seq(Requests)
    BY <1>u, <1>t
  <2>3. pending' = pending - 1 /\ pending \in 1..MaxQueued
    BY <1>u, <1>t, <1>5
  <2>4. pending' \in 0..MaxQueued
    BY <2>3, QueuedAssumption
  <2> QED BY <2>1, <2>2, <2>4, <1>t, <1>u, <1>c, CaptchaTypes DEF CaptchaInv, CaptchaTypeOK, Places, DialogStates
<1>4. ChainInv'
  <2>1. \A i \in 1..Len(queue') : queue'[i] # r
    BY <1>s DEF CaptchaInv, ChainInv
  <2>2. \A i \in 1..Len(queue') : caller'[queue'[i]] \in {"queued", "metadata", "dialog"}
    <3> SUFFICES ASSUME NEW i \in 1..Len(queue') PROVE caller'[queue'[i]] \in {"queued", "metadata", "dialog"}
      OBVIOUS
    <3>1. i + 1 \in 1..Len(queue) /\ queue'[i] = queue[i + 1] /\ queue'[i] \in Requests \ {r}
      BY <1>s, <2>1
    <3>2. Waits(queue[i + 1])
      BY <3>1 DEF CaptchaInv, ChainInv
    <3> QED BY <3>1, <3>2, <1>1 DEF Waits
  <2>3. \A q \in Requests : Waits(q)' => \E i \in 1..Len(queue') : queue'[i] = q
    <3> SUFFICES ASSUME NEW q \in Requests, Waits(q)' PROVE \E i \in 1..Len(queue') : queue'[i] = q
      OBVIOUS
    <3>1. PICK i \in 1..Len(queue) : queue[i] = q
      BY <1>2 DEF CaptchaInv, ChainInv
    <3>2. i # 1
      BY <3>1, <1>2, <1>s
    <3>3. i - 1 \in 1..Len(queue') /\ queue'[i - 1] = q
      BY <3>1, <3>2, <1>s
    <3> QED BY <3>3
  <2>4. \A i, j \in 1..Len(queue') : queue'[i] = queue'[j] => i = j
    <3> SUFFICES ASSUME NEW i \in 1..Len(queue'), NEW j \in 1..Len(queue'), queue'[i] = queue'[j]
                 PROVE  i = j
      OBVIOUS
    <3>1. i + 1 \in 1..Len(queue) /\ j + 1 \in 1..Len(queue) /\ queue[i + 1] = queue[j + 1]
      BY <1>s
    <3>2. i + 1 = j + 1
      BY <3>1 DEF CaptchaInv, ChainInv
    <3> QED BY <3>2
  <2>5. \A q \in Requests : caller'[q] \in {"metadata", "dialog"} => q = queue'[1]
    BY <1>1, <1>s DEF CaptchaInv, ChainInv
  <2> QED BY <2>2, <2>3, <2>4, <2>5 DEF ChainInv, Waits
<1>6. ControllerInv'
  <2>1. \A q \in Requests : caller'[q] # "dialog" /\ NoRequest # q
    BY <1>1, <1>s, NoRequestAssumption DEF CaptchaInv, ChainInv
  <2> QED BY <2>1, <1>u DEF ControllerInv, InDialog
<1>7. NoStaleDialog' /\ ConsentKept' /\ FramesInv'
  BY <1>u, <1>c DEF NoStaleDialog, ConsentKept, FramesInv, InDialog
<1> QED BY <1>3, <1>4, <1>5, <1>6, <1>7 DEF CaptchaInv

LEMMA AskedKeeps == ASSUME CaptchaInv, NEW r \in Requests, Asked(r) PROVE CaptchaInv'
<1>t. /\ queue \in Seq(Requests) /\ caller \in [Requests -> Places]
      /\ activeController \in Requests \cup {NoRequest}
  BY CaptchaTypes DEF CaptchaInv
<1>u. /\ caller[r] = "queued" /\ queue # <<>> /\ r = Head(queue)
      /\ caller' = [caller EXCEPT ![r] = "metadata"]
      /\ UNCHANGED <<generation, queue, pending, activeController, epoch, aborted, allowed, dialog>>
  BY DEF Asked
<1>1. caller'[r] = "metadata" /\ \A q \in Requests \ {r} : caller'[q] = caller[q]
  BY <1>u, <1>t
<1>2. \A q \in Requests : Waits(q)' <=> Waits(q)
  BY <1>1, <1>u DEF Waits
<1>3. CaptchaTypeOK'
  <2>1. caller' \in [Requests -> Places]
    BY <1>u, <1>t DEF Places
  <2> QED BY <2>1, <1>u, CaptchaTypes DEF CaptchaInv, CaptchaTypeOK, Places, DialogStates
<1>4. ChainInv'
  <2>1. r = queue[1] /\ \A i \in 1..Len(queue) : queue[i] \in Requests
    BY <1>u, <1>t
  <2> QED BY <2>1, <1>1, <1>2, <1>u DEF CaptchaInv, ChainInv, Waits
<1>5. CountInv'
  <2>1. Waiting' = Waiting
    BY <1>2 DEF Waiting
  <2> QED BY <2>1, <1>u DEF CaptchaInv, CountInv, PendingExact, Waiting, Waits
<1>6. ControllerInv'
  BY <1>1, <1>u DEF CaptchaInv, ControllerInv, InDialog
<1>7. NoStaleDialog' /\ ConsentKept' /\ FramesInv'
  BY <1>u DEF CaptchaInv, NoStaleDialog, ConsentKept, FramesInv, InDialog, Live
<1> QED BY <1>3, <1>4, <1>5, <1>6, <1>7 DEF CaptchaInv

LEMMA ShownKeeps == ASSUME CaptchaInv, NEW r \in Requests, Shown(r) PROVE CaptchaInv'
<1>t. /\ queue \in Seq(Requests) /\ caller \in [Requests -> Places]
      /\ activeController \in Requests \cup {NoRequest}
  BY CaptchaTypes DEF CaptchaInv
<1>u. /\ caller[r] = "metadata" /\ Live(r)
      /\ caller' = [caller EXCEPT ![r] = "dialog"]
      /\ activeController' = r /\ dialog' = Opened
      /\ UNCHANGED <<queue, pending, generation, epoch, aborted, allowed>>
  BY DEF Shown
<1>1. caller'[r] = "dialog" /\ \A q \in Requests \ {r} : caller'[q] = caller[q]
  BY <1>u, <1>t
<1>2. \A q \in Requests : Waits(q)' <=> Waits(q)
  BY <1>1, <1>u DEF Waits
<1>o. /\ Opened \in DialogStates /\ Opened.frame = 0 /\ Opened.checks = 0 /\ Opened.issued = 0
  <2>1. Closed \in DialogStates /\ Closed.frame = 0 /\ Closed.checks = 0 /\ Closed.issued = 0
    BY FramesAssumption DEF Closed, DialogStates
  <2>2. ASSUME NEW d \in DialogStates
        PROVE  LET e == [d EXCEPT !.asking = 1]
               IN  e \in DialogStates /\ e.frame = d.frame /\ e.checks = d.checks /\ e.issued = d.issued
    BY DEF DialogStates
  <2> QED BY <2>1, <2>2 DEF Opened
<1>h. \A q \in Requests : caller[q] = "dialog" => q = r
  BY <1>u DEF CaptchaInv, ChainInv
<1>3. CaptchaTypeOK'
  <2>1. caller' \in [Requests -> Places]
    BY <1>u, <1>t DEF Places
  <2> QED BY <2>1, <1>u, <1>o, CaptchaTypes DEF CaptchaInv, CaptchaTypeOK, Places, DialogStates
<1>4. ChainInv'
  <2>1. \A i \in 1..Len(queue) : queue[i] \in Requests
    BY <1>t
  <2> QED BY <2>1, <1>1, <1>2, <1>u DEF CaptchaInv, ChainInv, Waits
<1>5. CountInv'
  <2>1. Waiting' = Waiting
    BY <1>2 DEF Waiting
  <2> QED BY <2>1, <1>u DEF CaptchaInv, CountInv, PendingExact, Waiting, Waits
<1>6. ControllerInv'
  BY <1>1, <1>h, <1>u, NoRequestAssumption DEF ControllerInv, InDialog
<1>7. NoStaleDialog' /\ ConsentKept' /\ FramesInv'
  BY <1>u, <1>o DEF NoStaleDialog, ConsentKept, FramesInv, InDialog, Live
<1> QED BY <1>3, <1>4, <1>5, <1>6, <1>7 DEF CaptchaInv

LEMMA WentKeeps == CaptchaInv /\ Went => CaptchaInv'
<1> SUFFICES ASSUME CaptchaInv, Went PROVE CaptchaInv'
  OBVIOUS
<1>u. /\ InDialog /\ dialog' \in DialogStates /\ FramesInv'
      /\ dialog'.frame # 0 => allowed'
      /\ allowed' \in BOOLEAN
      /\ UNCHANGED <<generation, queue, pending, activeController, caller, epoch, aborted>>
  BY DEF Went
<1>3. CaptchaTypeOK'
  BY <1>u, CaptchaTypes DEF CaptchaInv, CaptchaTypeOK, Places, DialogStates
<1>4. ChainInv' /\ CountInv'
  BY <1>u DEF CaptchaInv, ChainInv, CountInv, PendingExact, Waiting, Waits
<1>5. ControllerInv' /\ NoStaleDialog' /\ ConsentKept'
  BY <1>u DEF CaptchaInv, ControllerInv, NoStaleDialog, ConsentKept, InDialog, Live
<1> QED BY <1>u, <1>3, <1>4, <1>5 DEF CaptchaInv

LEMMA ChangedKeeps == CaptchaInv /\ Changed => CaptchaInv'
<1> SUFFICES ASSUME CaptchaInv, Changed PROVE CaptchaInv'
  OBVIOUS
<1>u. /\ generation' \in 0..MaxGeneration /\ allowed' \in BOOLEAN
      /\ UNCHANGED <<queue, pending, activeController, caller, epoch, dialog>>
      /\ aborted' \subseteq Requests
  BY CaptchaTypes DEF Changed, CaptchaInv
<1>3. CaptchaTypeOK'
  BY <1>u, CaptchaTypes DEF CaptchaInv, CaptchaTypeOK, Places, DialogStates
<1>4. ChainInv' /\ CountInv'
  BY <1>u DEF CaptchaInv, ChainInv, CountInv, PendingExact, Waiting, Waits
<1>5. ControllerInv' /\ FramesInv'
  BY <1>u DEF CaptchaInv, ControllerInv, FramesInv, InDialog
<1>6. NoStaleDialog' /\ ConsentKept'
  <2>1. CASE ~InDialog
    <3>1. dialog.frame = 0
      BY <2>1 DEF CaptchaInv, ControllerInv, Closed
    <3> QED BY <2>1, <3>1, <1>u DEF NoStaleDialog, ConsentKept, InDialog
  <2>2. CASE InDialog
    <3>1. PICK r \in Requests : /\ caller[r] = "queued" /\ aborted' = aborted \cup {r}
                                /\ generation' = generation /\ allowed' = allowed
      BY <2>2 DEF Changed
    <3>2. r # activeController
      BY <3>1 DEF CaptchaInv, ControllerInv
    <3> QED BY <2>2, <3>1, <3>2, <1>u DEF CaptchaInv, NoStaleDialog, ConsentKept, InDialog, Live
  <2> QED BY <2>1, <2>2
<1> QED BY <1>3, <1>4, <1>5, <1>6 DEF CaptchaInv

LEMMA CaptchaStays == CaptchaInv /\ CaptchaNext => CaptchaInv'
BY CaptchaSteps, MovedKeeps, JoinedKeeps, LeftKeeps, AskedKeeps, ShownKeeps, WentKeeps, ChangedKeeps

-----------------------------------------------------------------------------
(* The whole entry                                                         *)

EntryInv == CaptchaInv /\ LegalInv /\ AvailabilityInv

LEMMA EntryStays == EntryInv /\ [Next]_vars => EntryInv'
<1> SUFFICES ASSUME EntryInv, [Next]_vars PROVE EntryInv'
  OBVIOUS
<1>1. UNCHANGED captchaVars => CaptchaInv'
  BY DEF EntryInv, captchaVars, CaptchaInv, CaptchaTypeOK, ChainInv, CountInv, PendingExact, Waiting,
         Waits, ControllerInv, NoStaleDialog, ConsentKept, FramesInv, InDialog, Live
<1>2. UNCHANGED legalVars => LegalInv'
  BY DEF EntryInv, legalVars, LegalInv, LegalTypeOK, CheckedIsCurrent, BoxesFollow, FlowsSteady,
         ChoiceAccepted
<1>3. UNCHANGED availabilityVars => AvailabilityInv'
  BY DEF EntryInv, availabilityVars, AvailabilityInv, AvailabilityTypeOK, FailureUnderConfirmation,
         ProbesCounted
<1>4. /\ UNCHANGED captchaVars \/ CaptchaNext
      /\ UNCHANGED legalVars \/ LegalNext
      /\ UNCHANGED availabilityVars \/ AvailabilityNext
  BY Zenon DEF Next, vars
<1> QED BY <1>1, <1>2, <1>3, <1>4, CaptchaStays, LegalStays, AvailabilityStays DEF EntryInv

\* What the client puts before its requests is safe for any number of requests, forms and
\* bounds (captcha.js, legal-consent.js, cookie-consent.js, backend-availability.js).
THEOREM EntryIsSafe == Spec => []EntrySafe
<1>1. Init => EntryInv
  BY CaptchaStarts, LegalStarts, AvailabilityStarts DEF Init, EntryInv
<1>2. EntryInv => EntrySafe
  BY CaptchaKept, ChoiceCounts DEF EntryInv, EntrySafe, CaptchaInv, LegalInv, AvailabilityInv
<1> QED BY <1>1, <1>2, EntryStays, PTL DEF Spec

\* A form goes on only when its box was checked when the button was pressed and stayed checked
\* for the policies that arrived, whatever the user and the administrator do while the answer is
\* on its way (ensureLegalConsent).
THEOREM PassedSteadily == Spec => PassedOnSteadyConsent
<1>1. Init => EntryInv
  BY CaptchaStarts, LegalStarts, AvailabilityStarts DEF Init, EntryInv
<1>2. EntryInv /\ [Next]_vars =>
        [\A k \in Kinds : flow[k].pc = "loading" /\ flow'[k].pc = "passed"
             => k \in steady' /\ box'[k].revision = metadata']_legalVars
  <2> SUFFICES ASSUME EntryInv, [Next]_vars, ~UNCHANGED legalVars
               PROVE  \A k \in Kinds : flow[k].pc = "loading" /\ flow'[k].pc = "passed"
                          => k \in steady' /\ box'[k].revision = metadata'
    OBVIOUS
  <2>1. LegalNext
    BY Zenon DEF Next, vars
  <2> QED BY <2>1, PassingStep DEF EntryInv
<1> QED BY <1>1, <1>2, EntryStays, PTL DEF Spec, PassedOnSteadyConsent

\* The notice that the server is gone appears only on a visible page, after two probes of one
\* confirmation have failed (confirm, showOffline).
THEOREM NoticeConfirmed == Spec => OfflineConfirmed
<1>1. Init => EntryInv
  BY CaptchaStarts, LegalStarts, AvailabilityStarts DEF Init, EntryInv
<1>2. EntryInv /\ [Next]_vars => [~offline /\ offline' => visible /\ failedProbes' = 2]_availabilityVars
  <2> SUFFICES ASSUME EntryInv, [Next]_vars, ~UNCHANGED availabilityVars
               PROVE  ~offline /\ offline' => visible /\ failedProbes' = 2
    OBVIOUS
  <2>1. AvailabilityNext
    BY Zenon DEF Next, vars
  <2> QED BY <2>1, NoticeStep DEF EntryInv
<1> QED BY <1>1, <1>2, EntryStays, PTL DEF Spec, OfflineConfirmed
=============================================================================
