------------------------- MODULE MC_ClientTransfer -------------------------
(***************************************************************************)
(* How the web client sends files and settings, for TLC: the upload panel, *)
(* the transfer of one file in chunks, the download of a publication and   *)
(* the settings of repositories.  The components share no state, so a      *)
(* behaviour exercises one of them, chosen at the start, and the others    *)
(* rest in their initial states.                                           *)
(***************************************************************************)
EXTENDS UploadQueue, ChunkTransfer, ReviewBundle, RepositoryForm, TLC

CONSTANTS f1, f2, d1, d2, k1, k2, w1, w2, r1, on, off

VARIABLE component

\* A .jar and its detached signature; both directories take uploads, one of them is of a
\* repository that requires signatures.
JarAndSignature == f1 :> NoFile @@ f2 :> f1
BothAllow == d1 :> TRUE @@ d2 :> TRUE
OneSigned == d1 :> TRUE @@ d2 :> FALSE

vars == <<component, uploadVars, transferVars, bundleVars, repositoryVars>>

\* One initial state of the components that rest is enough, and one of the settings of a
\* repository, which are interchangeable.
Init ==
    /\ component \in {"queue", "transfer", "bundle", "repositories"}
    /\ UploadInit /\ TransferInit /\ BundleInit /\ RepositoryInit
    /\ path = d1 \/ component = "queue"
    /\ configured = [r \in Repositories |-> off]

Next ==
    /\ UNCHANGED component
    /\ \/ /\ component = "queue" /\ UploadNext
          /\ UNCHANGED <<transferVars, bundleVars, repositoryVars>>
       \/ /\ component = "transfer" /\ TransferNext
          /\ UNCHANGED <<uploadVars, bundleVars, repositoryVars>>
       \/ /\ component = "bundle" /\ BundleNext
          /\ UNCHANGED <<uploadVars, transferVars, repositoryVars>>
       \/ /\ component = "repositories" /\ RepositoryNext
          /\ UNCHANGED <<uploadVars, transferVars, bundleVars>>

\* The fairness of a component that rests asks for nothing.
Spec ==
    /\ Init /\ [][Next]_vars
    /\ UploadFairness /\ TransferFairness /\ BundleFairness /\ RepositoryFairness

-----------------------------------------------------------------------------
(* Properties *)

\* A signature is sent after the artifact it signs, the panel follows the directory, and the
\* mark of an upload is that of a batch (upload.js); a transfer reports what happened on the
\* server, completes only a whole file and cancels what it gives up (chunked-upload.js); the
\* archive of a publication is whole and a file is fetched by one worker (download of reviews);
\* the answer to a save of settings is not shown when it comes after the next save, though
\* a refusal is whose text was being read when that save was made (repositories.js).
TransferSafe ==
    /\ UploadTypeOK /\ SignatureAfterArtifact /\ PanelFollowsDirectory /\ UploadingIsABatch
    /\ TransferTypeOK /\ OutcomeTrue /\ CompleteOnlyWhole /\ FailureCleansUp
    /\ BundleTypeOK /\ BundleWhole /\ FileTakenOnce
    /\ RepositoryTypeOK /\ NoStaleFeedback

\* Every batch, refresh, transfer, archive and save ends, and no worker puts a chunk after
\* another one gave up.
TransferProgress ==
    /\ BatchEnds /\ RefreshEnds
    /\ NoPutAfterError /\ TransferEnds
    /\ BundleEnds
    /\ SavesReturn
=============================================================================
