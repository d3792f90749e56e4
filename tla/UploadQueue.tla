---------------------------- MODULE UploadQueue ----------------------------
(***************************************************************************)
(* The upload panel of the repository browser (js/browser/upload.js and    *)
(* js/components/upload-entry.js): the list of pending files, the button   *)
(* that sends them one after the other, the removal and clearing of        *)
(* entries, which take effect when their animation ends, the check of the  *)
(* free space, and the panel's signing policy and destination, which       *)
(* follow the directory on show.  The handlers of the page interleave      *)
(* wherever one of them awaits an answer or a timer.                       *)
(***************************************************************************)
EXTENDS Naturals, Sequences, FiniteSets, SequencesExt

CONSTANTS
    Files,          \* files the user may drop
    NoFile,
    SignatureOf,    \* SignatureOf[f]: the artifact whose detached signature f is
    Protected,      \* .jar, .pom and .module files
    Directories,    \* paths below the repositories
    Allows,         \* Allows[d]: repo-details and canUpdateRepo permit uploads
    Signed,         \* Signed[d]: require_gpg_signature
    Clicks,         \* calls of the handler of the upload button
    MaxNavigations, \* bound of the model on changes of the directory
    MaxChecks       \* bound of the model on space checks under way

\* A signature is named after the protected file it signs (isGPGDetachedSignature), which is
\* no signature itself; a repository's policy is yes or no, and the bounds are counts.
ASSUME FilesAssumption == IsFiniteSet(Files) /\ NoFile \notin Files \cup Protected
ASSUME SignaturesAssumption ==
    /\ SignatureOf \in [Files -> Protected \cup {NoFile}]
    /\ \A f \in Files \cap Protected : SignatureOf[f] = NoFile
ASSUME PolicyAssumption == Signed \in [Directories -> BOOLEAN]
ASSUME NavigationsAssumption == MaxNavigations \in Nat
ASSUME ChecksAssumption == MaxChecks \in Nat

VARIABLES
    pendingFiles,           \* let pendingFiles
    chosen,                 \* files that were dropped so far
    uploading,              \* let uploading
    disabled,               \* the disabled attribute of the upload button
    click,                  \* the calls of the handler of the upload button
    removing,               \* entries whose removal is being animated
    clearing,               \* the timer of the clear button runs
    checks,                 \* space checks of renderPendingFiles under way
    path,                   \* window.location.pathname
    repositoryPolicySeq,    \* let repositoryPolicySeq
    requests,               \* calls of updateUploadZone that wait for their details
    destination,            \* the value of upload-destination
    repositoryRequiresGPG,  \* let repositoryRequiresGPG
    panelOpen,              \* the panel is shown
    refresh                 \* timers of scheduleGPGDirectoryRefresh

uploadVars == <<pendingFiles, chosen, uploading, disabled, click, removing, clearing,
                checks, path, repositoryPolicySeq, requests, destination,
                repositoryRequiresGPG, panelOpen, refresh>>

panelVars == <<path, repositoryPolicySeq, requests, destination,
               repositoryRequiresGPG, panelOpen>>

Idle == [pc |-> "idle", left |-> <<>>, sent |-> <<>>, signed |-> {}, at |-> {}]

UploadTypeOK ==
    /\ pendingFiles \in Seq(Files)
    /\ chosen \subseteq Files
    /\ uploading \in BOOLEAN
    /\ disabled \in BOOLEAN
    /\ \A c \in Clicks :
         /\ click[c].pc \in {"idle", "space", "sending"}
         /\ click[c].left \in Seq(Files) /\ click[c].sent \in Seq(Files)
         /\ click[c].signed \subseteq Protected /\ click[c].at \subseteq Directories
    /\ removing \subseteq [file : Files, index : 1..Cardinality(Files)]
    /\ clearing \in BOOLEAN
    /\ checks \in 0..MaxChecks
    /\ path \in Directories
    /\ repositoryPolicySeq \in 0..MaxNavigations
    /\ requests \subseteq [seq : 1..MaxNavigations, path : Directories]
    /\ destination \subseteq Directories /\ Cardinality(destination) <= 1
    /\ repositoryRequiresGPG \in BOOLEAN
    /\ panelOpen \in BOOLEAN
    /\ refresh \subseteq [path : Directories, attempt : 0..2]

UploadInit ==
    /\ pendingFiles = <<>>
    /\ chosen = {}
    /\ uploading = FALSE
    /\ disabled = FALSE
    /\ click = [c \in Clicks |-> Idle]
    /\ removing = {}
    /\ clearing = FALSE
    /\ checks = 0
    /\ path \in Directories
    /\ repositoryPolicySeq = 0
    /\ requests = {}
    /\ destination = {}
    /\ repositoryRequiresGPG = FALSE
    /\ panelOpen = FALSE
    /\ refresh = {}

IsSignature(f) == SignatureOf[f] # NoFile

\* renderPendingFiles: a list that is not empty is checked against the free space.
Rendered(files) ==
    checks' = IF files = <<>> \/ checks = MaxChecks THEN checks ELSE checks + 1

-----------------------------------------------------------------------------
(* The list.                                                               *)

\* addPendingFiles
AddPendingFiles(f) ==
    /\ pendingFiles' = Append(pendingFiles, f)
    /\ Rendered(pendingFiles')

\* A file comes in by drop, the file chooser or the keyboard; none of the three
\* asks whether a batch is being sent.
Choose(f) ==
    /\ panelOpen /\ f \notin chosen
    /\ chosen' = chosen \cup {f}
    /\ AddPendingFiles(f)
    /\ UNCHANGED <<uploading, disabled, click, removing, clearing, refresh, panelVars>>

\* onRemoveHandler: the place of the file is looked up and its entry collapses; an
\* entry that is leaving takes no more clicks.
RemoveClick(f) ==
    /\ ~uploading
    /\ \A m \in removing : m.file # f
    /\ \E i \in DOMAIN pendingFiles :
         /\ pendingFiles[i] = f
         /\ removing' = removing \cup {[file |-> f, index |-> i]}
    /\ UNCHANGED <<pendingFiles, chosen, uploading, disabled, click, clearing, checks,
                   refresh, panelVars>>

\* cleanup, when the entry has collapsed: pendingFiles.splice at that place.
RemoveCleanup(m) ==
    /\ m \in removing
    /\ removing' = removing \ {m}
    /\ pendingFiles' = IF m.index \in DOMAIN pendingFiles
                       THEN RemoveAt(pendingFiles, m.index) ELSE pendingFiles
    /\ Rendered(pendingFiles')
    /\ UNCHANGED <<chosen, uploading, disabled, click, clearing, refresh, panelVars>>

\* The clear button: the entries collapse, then the list is emptied.
ClearClick ==
    /\ ~uploading /\ pendingFiles # <<>> /\ ~clearing
    /\ clearing' = TRUE
    /\ UNCHANGED <<pendingFiles, chosen, uploading, disabled, click, removing, checks,
                   refresh, panelVars>>

ClearTimer ==
    /\ clearing
    /\ clearing' = FALSE
    /\ pendingFiles' = <<>>
    /\ UNCHANGED <<chosen, uploading, disabled, click, removing, checks, refresh,
                   panelVars>>

\* languageChanged draws the list again.
LanguageChanged ==
    /\ pendingFiles # <<>>
    /\ Rendered(pendingFiles)
    /\ UNCHANGED <<pendingFiles, chosen, uploading, disabled, click, removing, clearing,
                   refresh, panelVars>>

\* updateUploadSpaceCheck of a rendered list: the answer disables the button, or
\* enables it unless a batch is sent, or is no use.
SpaceAnswer ==
    /\ checks > 0
    /\ checks' = checks - 1
    /\ disabled' \in {TRUE, disabled} \cup (IF uploading THEN {} ELSE {FALSE})
    /\ UNCHANGED <<pendingFiles, chosen, uploading, click, removing, clearing, refresh,
                   panelVars>>

-----------------------------------------------------------------------------
(* The upload button.                                                      *)

\* signedArtifactNames
SignedNames == {SignatureOf[f] : f \in {g \in ToSet(pendingFiles) : IsSignature(g)}}

\* The handler up to its space check.  A list with an unsigned artifact is
\* refused where signatures are required.
UploadClick(c) ==
    /\ click[c].pc = "idle"
    /\ ~disabled /\ ~uploading /\ pendingFiles # <<>>
    /\ repositoryRequiresGPG => ToSet(pendingFiles) \cap Protected \subseteq SignedNames
    /\ click' = [click EXCEPT ![c] = [Idle EXCEPT !.pc = "space", !.signed = SignedNames]]
    /\ UNCHANGED <<pendingFiles, chosen, uploading, disabled, removing, clearing, checks,
                   refresh, panelVars>>

\* There is not enough space: the button stays disabled.
SpaceShort(c) ==
    /\ click[c].pc = "space"
    /\ click' = [click EXCEPT ![c] = Idle]
    /\ disabled' = TRUE
    /\ UNCHANGED <<pendingFiles, chosen, uploading, removing, clearing, checks, refresh,
                   panelVars>>

\* Mutant of UploadOrders: the files are sent in the order of the list.
ListOrder(files) == {files}

\* uploadQueue.sort: signatures come after everything else.  The order among them, and
\* among the others, stays that of the list; nothing depends on it.
UploadOrders(files) ==
    {order \in [DOMAIN files -> ToSet(files)] :
        /\ ToSet(order) = ToSet(files)
        /\ \A i, j \in DOMAIN order : IsSignature(order[i]) /\ ~IsSignature(order[j]) => j < i}

\* The rest of the handler up to the first file: destination, path and list are
\* read after the space check.
StartBatch(c) ==
    /\ click[c].pc = "space"
    /\ uploading' = TRUE
    /\ disabled' = TRUE
    /\ \E order \in UploadOrders(pendingFiles) :
         click' = [click EXCEPT ![c].pc = "sending", ![c].left = order, ![c].at = {path}]
    /\ UNCHANGED <<pendingFiles, chosen, removing, clearing, checks, refresh, panelVars>>

\* A file has been sent, or has failed: the batch goes on with the next one.
FileEnds(c) ==
    /\ click[c].pc = "sending" /\ click[c].left # <<>>
    /\ click' = [click EXCEPT ![c].left = Tail(@),
                              ![c].sent = Append(@, Head(click[c].left))]
    /\ UNCHANGED <<pendingFiles, chosen, uploading, disabled, removing, clearing, checks,
                   refresh, panelVars>>

\* Mutant of FinishBatch: a batch ends only while its directory is on show.
FinishBatchOnShow(c) ==
    /\ click[c].pc = "sending" /\ click[c].left = <<>> /\ click[c].at = {path}
    /\ click' = [click EXCEPT ![c] = Idle]
    /\ pendingFiles' = <<>>
    /\ uploading' = FALSE
    /\ disabled' = FALSE
    /\ refresh' = IF click[c].signed = {} THEN refresh
                  ELSE refresh \cup [path : click[c].at, attempt : {0}]
    /\ UNCHANGED <<chosen, removing, clearing, checks, panelVars>>

\* The end of the handler: the list is emptied, the panel is usable again, and
\* a signed batch has the directory reloaded a few times.
FinishBatch(c) ==
    /\ click[c].pc = "sending" /\ click[c].left = <<>>
    /\ click' = [click EXCEPT ![c] = Idle]
    /\ pendingFiles' = <<>>
    /\ uploading' = FALSE
    /\ disabled' = FALSE
    /\ refresh' = IF click[c].signed = {} THEN refresh
                  ELSE refresh \cup [path : click[c].at, attempt : {0}]
    /\ UNCHANGED <<chosen, removing, clearing, checks, panelVars>>

\* scheduleGPGDirectoryRefresh: three reloads, as long as the user stays.
RefreshTimer(t) ==
    /\ t \in refresh
    /\ refresh' = (refresh \ {t}) \cup
                  (IF t.path # path \/ uploading \/ t.attempt = 2 THEN {}
                   ELSE {[t EXCEPT !.attempt = @ + 1]})
    /\ UNCHANGED <<pendingFiles, chosen, uploading, disabled, click, removing, clearing,
                   checks, panelVars>>

-----------------------------------------------------------------------------
(* The panel.                                                              *)

\* The browser shows another directory and calls updateUploadZone for it.
Navigate(d) ==
    /\ repositoryPolicySeq < MaxNavigations
    /\ path' = d
    /\ repositoryPolicySeq' = repositoryPolicySeq + 1
    /\ requests' = requests \cup {[seq |-> repositoryPolicySeq + 1, path |-> d]}
    /\ UNCHANGED <<pendingFiles, chosen, uploading, disabled, click, removing, clearing,
                   checks, destination, repositoryRequiresGPG, panelOpen, refresh>>

\* applyRepositoryGPGPolicy and setUploadPanelOpen for the details of a repository
\* (loaded) or without them; closing the panel empties the list.
ApplyZone(d, loaded) ==
    IF loaded /\ Allows[d]
    THEN /\ repositoryRequiresGPG' = Signed[d]
         /\ destination' = {d}
         /\ panelOpen' = TRUE
         /\ UNCHANGED pendingFiles
    ELSE /\ repositoryRequiresGPG' = FALSE
         /\ panelOpen' = FALSE
         /\ pendingFiles' = <<>>
         /\ UNCHANGED destination

\* The details of a repository arrive, or fail; an answer that a newer call has
\* overtaken is dropped.
ZoneAnswer(z) ==
    /\ z \in requests
    /\ requests' = requests \ {z}
    /\ \/ /\ z.seq = repositoryPolicySeq
          /\ \E loaded \in BOOLEAN : ApplyZone(z.path, loaded)
       \/ /\ z.seq # repositoryPolicySeq
          /\ UNCHANGED <<repositoryRequiresGPG, destination, panelOpen, pendingFiles>>
    /\ UNCHANGED <<chosen, uploading, disabled, click, removing, clearing, checks, path,
                   repositoryPolicySeq, refresh>>

-----------------------------------------------------------------------------
UploadNext ==
    \/ \E f \in Files : Choose(f) \/ RemoveClick(f)
    \/ \E m \in removing : RemoveCleanup(m)
    \/ ClearClick
    \/ ClearTimer
    \/ LanguageChanged
    \/ SpaceAnswer
    \/ \E c \in Clicks :
         \/ UploadClick(c)
         \/ SpaceShort(c)
         \/ StartBatch(c)
         \/ FileEnds(c)
         \/ FinishBatch(c)
    \/ \E t \in refresh : RefreshTimer(t)
    \/ \E d \in Directories : Navigate(d)
    \/ \E z \in requests : ZoneAnswer(z)

\* Requests are answered or time out, and timers fire.
UploadFairness ==
    /\ \A c \in Clicks : WF_uploadVars(FileEnds(c)) /\ WF_uploadVars(FinishBatch(c))
    /\ WF_uploadVars(\E t \in refresh : RefreshTimer(t))

-----------------------------------------------------------------------------
(* Properties.                                                             *)

\* Within a batch the detached signature of an artifact is sent after the
\* artifact, in whatever order the user dropped and removed files.
SignatureAfterArtifact ==
    \A c \in Clicks :
        LET order == click[c].sent \o click[c].left
        IN  \A i, j \in DOMAIN order : SignatureOf[order[i]] = order[j] => j < i

\* When no answer is missing, an open panel sends to the directory on show and
\* applies the signing policy of its repository, although the answers of
\* earlier directories may arrive in any order (repositoryPolicySeq).
PanelFollowsDirectory ==
    panelOpen /\ (\A z \in requests : z.seq # repositoryPolicySeq)
        => destination = {path} /\ repositoryRequiresGPG = Signed[path]

\* The flag that locks the list is set only while a batch is being sent, even
\* when the button was pressed twice and two batches overlap.
UploadingIsABatch == uploading => \E c \in Clicks : click[c].pc = "sending"

\* A batch ends and gives the panel back.
BatchEnds == []<>~uploading

\* The reloads after a signed batch come to an end.
RefreshEnds == []<>(refresh = {})

\* An artifact is announced as signed only if its signature is part of the batch
\* (gpgSignatureExpected of chunked-upload.js).
\* The code does not keep this: see the README, section 7.
SignedMeansInBatch ==
    \A c \in Clicks : click[c].pc = "sending" =>
        LET batch == ToSet(click[c].sent \o click[c].left)
        IN  \A f \in batch \cap Protected \cap click[c].signed :
                \E g \in batch : SignatureOf[g] = f

=============================================================================
