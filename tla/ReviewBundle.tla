---------------------------- MODULE ReviewBundle ----------------------------
(***************************************************************************)
(* The download of a publication's files for review (js/tickets.js): a     *)
(* pool of cooperative workers shares a cursor, retries each file, and the *)
(* archive is saved only when every file has come.                         *)
(***************************************************************************)
EXTENDS Naturals, FiniteSets

CONSTANTS
    ReviewFiles,        \* the files of a publication, in order: 1..n
    Downloaders,        \* workers of fetchReviewFiles, at most four
    MaxAttempts         \* of downloadReviewFile

ASSUME ReviewFilesAssumption ==
    IsFiniteSet(ReviewFiles) /\ ReviewFiles = 1..Cardinality(ReviewFiles)
ASSUME AttemptsAssumption == MaxAttempts \in Nat \ {0}

VARIABLES
    bundleState,        \* "listing", "fetching", "saved", "partial" or "failed"
    cursor,             \* files taken so far
    downloading,        \* the file every worker waits for, 0 for none
    attempts,           \* ... and how often it has failed
    fetched,            \* entries
    failedFiles         \* failed

bundleVars == <<bundleState, cursor, downloading, attempts, fetched, failedFiles>>

BundleTypeOK ==
    /\ bundleState \in {"listing", "fetching", "saved", "partial", "failed"}
    /\ cursor \in 0..Cardinality(ReviewFiles)
    /\ downloading \in [Downloaders -> ReviewFiles \union {0}]
    /\ attempts \in [Downloaders -> 0..MaxAttempts]
    /\ fetched \subseteq ReviewFiles /\ failedFiles \subseteq ReviewFiles

BundleInit ==
    /\ bundleState = "listing" /\ cursor = 0
    /\ downloading = [d \in Downloaders |-> 0]
    /\ attempts = [d \in Downloaders |-> 0]
    /\ fetched = {} /\ failedFiles = {}

\* The list of files arrives, or the download fails before it begins.
FilesListed ==
    /\ bundleState = "listing"
    /\ bundleState' \in {"fetching", "failed"}
    /\ UNCHANGED <<cursor, downloading, attempts, fetched, failedFiles>>

\* A worker takes the file at the cursor, and moves the cursor on before it waits.
TakeFile(d) ==
    /\ bundleState = "fetching" /\ downloading[d] = 0 /\ cursor < Cardinality(ReviewFiles)
    /\ downloading' = [downloading EXCEPT ![d] = cursor + 1]
    /\ attempts' = [attempts EXCEPT ![d] = 0]
    /\ cursor' = cursor + 1
    /\ UNCHANGED <<bundleState, fetched, failedFiles>>

\* Mutant of FileArrives: a file whose last attempt failed is not noted.
FileArrivesOrNot(d) ==
    /\ bundleState = "fetching" /\ downloading[d] # 0
    /\ downloading' = [downloading EXCEPT ![d] = 0]
    /\ fetched' \in {fetched, fetched \union {downloading[d]}}
    /\ UNCHANGED <<bundleState, cursor, attempts, failedFiles>>

\* Mutant of FileArrives: the attempts are not counted.
FileArrivesUncounted(d) ==
    /\ bundleState = "fetching" /\ downloading[d] # 0
    /\ \/ /\ downloading' = [downloading EXCEPT ![d] = 0]
          /\ fetched' = fetched \union {downloading[d]}
          /\ UNCHANGED attempts
       \/ attempts' = [attempts EXCEPT ![d] = 1 - @] /\ UNCHANGED <<downloading, fetched>>
    /\ UNCHANGED <<bundleState, cursor, failedFiles>>

\* An attempt of downloadReviewFile ends: the whole file has come, it is tried again, or
\* it was the last attempt.
FileArrives(d) ==
    /\ bundleState = "fetching" /\ downloading[d] # 0
    /\ \/ /\ downloading' = [downloading EXCEPT ![d] = 0]
          /\ fetched' = fetched \union {downloading[d]}
          /\ UNCHANGED <<attempts, failedFiles>>
       \/ /\ attempts[d] + 1 < MaxAttempts
          /\ attempts' = [attempts EXCEPT ![d] = @ + 1]
          /\ UNCHANGED <<downloading, fetched, failedFiles>>
       \/ /\ attempts[d] + 1 = MaxAttempts
          /\ downloading' = [downloading EXCEPT ![d] = 0]
          /\ failedFiles' = failedFiles \union {downloading[d]}
          /\ UNCHANGED <<attempts, fetched>>
    /\ UNCHANGED <<bundleState, cursor>>

\* Every worker has ended: the archive is saved, unless a file failed.
EndBundle ==
    /\ bundleState = "fetching" /\ cursor = Cardinality(ReviewFiles)
    /\ \A d \in Downloaders : downloading[d] = 0
    /\ bundleState' = IF failedFiles = {} THEN "saved" ELSE "partial"
    /\ UNCHANGED <<cursor, downloading, attempts, fetched, failedFiles>>

BundleNext ==
    \/ FilesListed
    \/ \E d \in Downloaders : TakeFile(d) \/ FileArrives(d)
    \/ EndBundle

\* Every attempt ends in an answer or an error, and workers go on.
BundleFairness ==
    WF_bundleVars(EndBundle \/ \E d \in Downloaders : TakeFile(d) \/ FileArrives(d))

(***************************************************************************)
(* Properties                                                              *)
(***************************************************************************)

\* An archive that is saved has every file of the publication, however the workers
\* share the cursor, and a file that failed keeps it from being saved.
BundleWhole == bundleState = "saved" => fetched = ReviewFiles

\* No file is downloaded by two workers.
FileTakenOnce ==
    \A d, e \in Downloaders : d # e /\ downloading[d] # 0 => downloading[d] # downloading[e]

\* A download that has its list of files ends, in an archive or in a message.
BundleEnds == []<>(bundleState # "fetching")

BundleSpec == BundleInit /\ [][BundleNext]_bundleVars /\ BundleFairness
=============================================================================
