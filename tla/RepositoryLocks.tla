-------------------------- MODULE RepositoryLocks --------------------------
(***************************************************************************)
(* The locks a request of a Maven repository takes, and their order: the   *)
(* repository gate (internal/service/repositorygate/gate.go), the in-flight*)
(* path (internal/core/inflight.go), gpgReleaseStorageMutation             *)
(* (internal/service/storage/gpg_upload.go), FileIndex.metadataLock        *)
(* (internal/service/index/models.go) and ConfigWriteLock.                 *)
(*                                                                         *)
(* A goroutine is the script of its handler: the locks it asks for and,    *)
(* between them, the work it does on the repository.  It may return early  *)
(* wherever it is not blocked, and its deferred unlocks run one by one.    *)
(***************************************************************************)
EXTENDS Integers, Sequences

CONSTANTS
    Procs,   \* request goroutines and the release worker
    Kind,    \* the handler each of them runs
    PathOf   \* GPGUploadLockPath of the file each of them works on

Kinds == {"put", "putNative", "generatePom", "complete", "completeNative", "proxy", "delete",
          "deleteNative", "publish", "cleanUp", "migrate", "removeRepository", "changeStorage"}

ASSUME KindAssumption == Kind \in [Procs -> Kinds]

VARIABLES
    pc,    \* "idle", "run", "wait" (blocked in a lock) or "return"
    pos,   \* steps of its script a goroutine has behind it
    held   \* locks a goroutine holds

vars == <<pc, pos, held>>

\* sync.RWMutex of the gate: "read" is RLock; Lock first announces the writer,
\* which holds back new readers, and then waits for the readers inside.  "native"
\* stands for the stripes of nativepkg.AcquireMutation: a handler takes one of
\* them, or all in their order.
Locks == {"announce", "read", "write", "path", "config", "native", "storage", "metadata"}

\* What is done between the locks: files of the repository are written or
\* deleted, the files of an ended release tidied up, the configuration or the
\* catalog of the repository changed, all its files removed.
Works == {"files", "tidy", "change", "remove"}

\* HandlePut: the body goes to a temporary file beside the destination, ordinary
\* files are moved at once, protected ones below processUploadedFileLocked.
PutLocks == <<"read", "path", "files", "storage", "files">>

\* HandlePut of a managed native repository, with processNativePublication.
NativePutLocks == <<"read", "path", "files", "native", "files">>

\* Mutant of PomLocks: the POM generator does not enter the gate.
PomUngated == <<"path", "storage", "files", "metadata", "files">>

\* Mutant of PomLocks: the release mutex is taken before the path.
PomStorageFirst == <<"read", "storage", "path", "files", "metadata", "files">>

\* The POM generator, with the update of maven-metadata.xml.
PomLocks == <<"read", "path", "storage", "files", "metadata", "files">>

\* completeStorage of a chunked upload; ProcessUploadedFile enters the gate.
CompleteLocks == <<"path", "read", "files", "storage", "files">>

\* completeStorage of a chunked upload to a managed native repository.
NativeCompleteLocks == <<"path", "read", "native", "files">>

\* handleProxy, after HandleGet has left the gate; ProxyArtifact enters it again,
\* OnArtifactStoredWithState removes the signature of an older file.
ProxyLocks == <<"path", "read", "files", "storage", "files">>

\* HandleDelete and RemoveMavenVersion, with the update of maven-metadata.xml.
DeleteLocks == <<"read", "storage", "files", "metadata", "files">>

\* HandleDelete of a managed native repository.
NativeDeleteLocks == <<"read", "native", "storage", "files">>

\* publishGPGRelease.
PublishLocks == <<"read", "storage", "files">>

\* cleanupTerminalGPGRelease by the worker, an expiry or a failure: outside the gate.
CleanUpLocks == <<"storage", "tidy">>

\* MigrateRepositoryEngine (and PutMavenRepository): the catalog is rebuilt before
\* the configuration is replaced, or deleted after it; the rollback repeats the
\* locks of the replacement.
MigrateLocks == <<"announce", "write", "change", "config", "metadata", "change", "drop", "change">>

\* DeleteMavenRepository: the configuration locks are given back ("drop") before
\* the catalog is deleted and RemoveRepositoryStorage called.
RemoveLocks == <<"announce", "write", "config", "metadata", "change", "drop", "change",
                 "storage", "remove">>

\* The update of the storage settings: AcquireGPGStoragePathChange is called
\* inside UpdateMetadataCallback.
ChangeStorageLocks == <<"config", "metadata", "storage">>

Script(k) ==
    CASE k = "put"              -> PutLocks
      [] k = "putNative"        -> NativePutLocks
      [] k = "generatePom"      -> PomLocks
      [] k = "complete"         -> CompleteLocks
      [] k = "completeNative"   -> NativeCompleteLocks
      [] k = "proxy"            -> ProxyLocks
      [] k = "delete"           -> DeleteLocks
      [] k = "deleteNative"     -> NativeDeleteLocks
      [] k = "publish"          -> PublishLocks
      [] k = "cleanUp"          -> CleanUpLocks
      [] k = "migrate"          -> MigrateLocks
      [] k = "removeRepository" -> RemoveLocks
      [] k = "changeStorage"    -> ChangeStorageLocks

HasNext(p) == pos[p] < Len(Script(Kind[p]))
Wanted(p) == Script(Kind[p])[pos[p] + 1]

\* p is doing work of one of the kinds W.
At(p, W) == pc[p] = "run" /\ HasNext(p) /\ Wanted(p) \in W

Init ==
    /\ pc = [p \in Procs |-> "idle"]
    /\ pos = [p \in Procs |-> 0]
    /\ held = [p \in Procs |-> {}]

\* The goroutines that keep p from lock l.
Blockers(p, l) ==
    {q \in Procs \ {p} :
        CASE l = "read"  -> "announce" \in held[q]
          [] l = "write" -> "read" \in held[q]
          [] l = "path"  -> "path" \in held[q] /\ PathOf[q] = PathOf[p]
          [] OTHER       -> l \in held[q]}

Begin(p) ==
    /\ pc[p] = "idle"
    /\ pc' = [pc EXCEPT ![p] = "run"]
    /\ UNCHANGED <<pos, held>>

\* Mutant of Request: giving the configuration locks back is taken for a lock.
RequestAnything(p) ==
    /\ pc[p] = "run" /\ HasNext(p)
    /\ pc' = [pc EXCEPT ![p] = "wait"]
    /\ UNCHANGED <<pos, held>>

\* The handler calls the next lock and is blocked until it gets it.
Request(p) ==
    /\ pc[p] = "run" /\ HasNext(p) /\ Wanted(p) \in Locks
    /\ pc' = [pc EXCEPT ![p] = "wait"]
    /\ UNCHANGED <<pos, held>>

Acquire(p) ==
    /\ pc[p] = "wait"
    /\ Blockers(p, Wanted(p)) = {}
    /\ held' = [held EXCEPT ![p] = @ \union {Wanted(p)}]
    /\ pos' = [pos EXCEPT ![p] = @ + 1]
    /\ pc' = [pc EXCEPT ![p] = "run"]

\* The work between two locks is done.
Proceed(p) ==
    /\ At(p, Works)
    /\ pos' = [pos EXCEPT ![p] = @ + 1]
    /\ UNCHANGED <<pc, held>>

\* The handler gives the configuration locks back before it returns.
Drop(p) ==
    /\ At(p, {"drop"})
    /\ held' = [held EXCEPT ![p] = @ \ {"config", "metadata"}]
    /\ pos' = [pos EXCEPT ![p] = @ + 1]
    /\ UNCHANGED pc

\* The handler is done, or returns early with an answer or an error; Lock of the
\* gate does not return between its announcement and its end.
Return(p) ==
    /\ pc[p] = "run"
    /\ "announce" \in held[p] => "write" \in held[p]
    /\ pc' = [pc EXCEPT ![p] = "return"]
    /\ UNCHANGED <<pos, held>>

\* A deferred unlock; RWMutex.Unlock ends the writer and its announcement.
Unlock(p, l) ==
    /\ pc[p] = "return" /\ l \in held[p] /\ l # "announce"
    /\ held' = [held EXCEPT ![p] = @ \ (IF l = "write" THEN {"announce", "write"} ELSE {l})]
    /\ UNCHANGED <<pc, pos>>

Finish(p) ==
    /\ pc[p] = "return" /\ held[p] = {}
    /\ pc' = [pc EXCEPT ![p] = "idle"]
    /\ pos' = [pos EXCEPT ![p] = 0]
    /\ UNCHANGED held

Next == \E p \in Procs :
    \/ Begin(p) \/ Request(p) \/ Acquire(p) \/ Proceed(p) \/ Drop(p) \/ Return(p) \/ Finish(p)
    \/ \E l \in Locks : Unlock(p, l)

Spec == Init /\ [][Next]_vars

-----------------------------------------------------------------------------
(* Properties.                                                             *)

\* The values every variable ranges over.
TypeOK ==
    /\ pc \in [Procs -> {"idle", "run", "wait", "return"}]
    /\ pos \in [Procs -> 0..9]
    /\ held \in [Procs -> SUBSET Locks]

\* No set of goroutines exists in which each one is blocked by another one of
\* the set: the gate, the path lock and the mutexes never deadlock.
NoCircularWait ==
    \A S \in (SUBSET Procs) \ {{}} :
        \E p \in S : pc[p] = "wait" => Blockers(p, Wanted(p)) \intersect S = {}

\* While a goroutine changes the configuration or the catalog of a repository, or
\* removes its files, no upload, generated POM, fetched artifact, deletion or
\* publication changes files of it, and nobody else its configuration; and while
\* the files are removed no clean-up of a release deletes some of them, although
\* clean-ups do not enter the gate.
MigrationAlone ==
    \A p, q \in Procs : p # q =>
        /\ At(p, {"change", "remove"}) => ~At(q, {"files", "change", "remove"})
        /\ At(p, {"remove"}) => ~At(q, {"tidy"})
=============================================================================
