----------------------------- MODULE GpgRelease -----------------------------
(***************************************************************************)
(* The publication pipeline of GPG-protected Maven artifacts: uploads are  *)
(* quarantined as durable releases, one worker goroutine verifies and      *)
(* publishes them, deletions discard them, and a restart resumes them      *)
(* (internal/service/storage/gpg_upload.go, gpg_worker.go, put.go,         *)
(* delete.go, maven_version.go, internal/database/gpg_releases.go).        *)
(*                                                                         *)
(* Every mutation holds gpgReleaseStorageMutation, here lock, but a        *)
(* failure or a crash may come between any two of its steps, and the       *)
(* worker verifies signatures without the lock.                            *)
(*                                                                         *)
(* Data: an artifact stands for its file, its .asc and their checksums; a  *)
(* signature is the content it signs, so it is valid for exactly that      *)
(* content; a staging path is the staged content.                          *)
(***************************************************************************)
EXTENDS Integers, FiniteSets

CONSTANTS
    Artifacts,         \* protected artifact paths of one repository
    Siblings,          \* the .pom and .module that go with a .jar
    Users,             \* authenticated uploaders
    Contents,          \* bytes an upload may carry
    None,              \* no file, no record, no staging path
    RequireGPG,        \* repo.RequireGPGSignature
    AllowRedeployment, \* repo.AllowRedeployment
    MaxReleases,       \* bound: releases ever created
    MaxPending,        \* maxGPGPendingReleases
    MaxPendingPerUser, \* maxGPGPendingPerUser
    MaxRequests,       \* bound: uploads and deletions ever begun
    MaxFaults,         \* bound: storage or database operations that fail
    MaxCrashes         \* bound: crashes of the process

ASSUME NoneAssumption == None \notin Contents
ASSUME SiblingsAssumption == Siblings \in [Artifacts -> SUBSET Artifacts]
ASSUME PolicyAssumption == RequireGPG \in BOOLEAN /\ AllowRedeployment \in BOOLEAN
ASSUME BoundsAssumption ==
    /\ MaxReleases \in Nat /\ MaxPending \in Nat /\ MaxPendingPerUser \in Nat
    /\ MaxRequests \in Nat /\ MaxFaults \in Nat /\ MaxCrashes \in Nat

VARIABLES
    rows,      \* table gpg_releases, by number in order of creation
    record,    \* table gpg_signatures: the content verified for each artifact
    art,       \* the stored artifact file
    sig,       \* the stored detached signature
    dirs,      \* releases that have a quarantine directory
    blocked,   \* FileIndex.Blocked: artifacts whose paths are hidden
    up,        \* process is running
    lock,      \* who holds gpgReleaseStorageMutation
    put,       \* the upload in flight for each artifact (path lock held)
    op,        \* the request that holds the lock
    w,         \* the worker goroutine
    requests,  \* uploads and deletions begun so far
    faults,    \* failed operations so far
    crashes    \* crashes so far

dbVars == <<rows, record>>
fileVars == <<art, sig, dirs>>
vars == <<rows, record, art, sig, dirs, blocked, up, lock, put, op, w, requests, faults, crashes>>

Ids == 1..MaxReleases
Stored == Contents \union {None}
Statuses == {"none", "queued", "validating", "failed", "success"}
\* Age of a release: fresh, past gpgOptionalSignatureGrace, past gpgPendingTTL.
Ages == {"fresh", "grace", "ttl"}

\* A number no release has yet.
NoRow == [status |-> "none", artifact |-> None, uploader |-> None, active |-> FALSE,
          require |-> FALSE, art |-> None, sig |-> None, existed |-> FALSE,
          started |-> FALSE, cleanup |-> FALSE, age |-> "fresh"]
NoPut == [pc |-> "idle", kind |-> "artifact", user |-> None, content |-> None,
          existed |-> FALSE, expected |-> FALSE]
NoOp == [pc |-> "idle", id |-> 0, paths |-> {}]
Asleep == [pc |-> "asleep", clean |-> {}, expire |-> {}, id |-> 0, rec |-> None, ret |-> "claim"]

Init ==
    /\ rows = [i \in Ids |-> NoRow]
    /\ record = [a \in Artifacts |-> None]
    /\ art = [a \in Artifacts |-> None]
    /\ sig = [a \in Artifacts |-> None]
    /\ dirs = {}
    /\ blocked = {}
    /\ up = TRUE
    /\ lock = "free"
    /\ put = [a \in Artifacts |-> NoPut]
    /\ op = NoOp
    /\ w = Asleep
    /\ requests = 0
    /\ faults = 0
    /\ crashes = 0

-----------------------------------------------------------------------------
(* Releases.                                                               *)

\* core.GPGRelease as newGPGRelease creates it.
NewRow(a, u) == [NoRow EXCEPT !.status = "queued", !.artifact = a, !.uploader = u, !.active = TRUE]

\* Mutant of Active: a failed release that awaits its cleanup is not found.
ActiveUnlessFailed(a) == {i \in Ids : rows[i].active /\ rows[i].artifact = a /\ rows[i].status # "failed"}

\* Rows that GetActiveGPGRelease finds for the key of artifact a.
Active(a) == {i \in Ids : rows[i].active /\ rows[i].artifact = a}

\* Rows that ListPendingGPGReleases returns.
Pending(i) == rows[i].active \/ rows[i].cleanup

\* Mutant of UnderLimits: the comparison admits one release too many.
UnderLimitsOffByOne(u) ==
    /\ Cardinality({i \in Ids : rows[i].active}) <= MaxPending
    /\ Cardinality({i \in Ids : rows[i].active /\ rows[i].uploader = u}) <= MaxPendingPerUser

\* CountPendingGPGReleases and the limits newGPGRelease enforces.
UnderLimits(u) ==
    /\ Cardinality({i \in Ids : rows[i].active}) < MaxPending
    /\ Cardinality({i \in Ids : rows[i].active /\ rows[i].uploader = u}) < MaxPendingPerUser

\* The number the next release gets.
FreshId(i) ==
    /\ rows[i].status = "none"
    /\ \A j \in Ids : j < i => rows[j].status # "none"

\* gpgReleaseReadyForValidation.
Ready(r) ==
    \/ r.art # None /\ r.sig # None
    \/ r.sig # None /\ r.art = None /\ r.existed
    \/ r.art # None /\ r.sig = None /\ ~r.require

\* The WHERE clause of ClaimNextGPGRelease: a lone part waits for the grace.
Claimable(r) ==
    /\ r.status = "queued"
    /\ Ready(r)
    /\ r.age = "fresh" => r.art # None /\ r.sig # None

\* A storage or database operation fails, or does not.
Fault == faults < MaxFaults /\ faults' = faults + 1
NoFault == UNCHANGED faults

NewRequest == requests < MaxRequests /\ requests' = requests + 1

\* Time passes; the age of a release matters while it is queued.
Elapse(i) ==
    /\ rows[i].status = "queued" /\ rows[i].age # "ttl"
    /\ rows' = [rows EXCEPT ![i].age = IF @ = "fresh" THEN "grace" ELSE "ttl"]
    /\ UNCHANGED <<record, fileVars, blocked, up, lock, put, op, w, requests, faults, crashes>>

-----------------------------------------------------------------------------
(* Uploads: HandlePut and completeStorage.  The path lock shared by an     *)
(* artifact, its signature and their checksums admits one at a time.       *)

\* The destination is looked at before the body is received; an existing file
\* of a repository without redeployment is refused at once.
BeginPut(a, k, u, c, e) ==
    LET existed == CASE k = "artifact"  -> art[a] # None
                     [] k = "signature" -> sig[a] # None
                     [] OTHER           -> FALSE
    IN  /\ up /\ put[a].pc = "idle"
        /\ NewRequest
        /\ existed => AllowRedeployment
        /\ e => k = "artifact"
        /\ put' = [put EXCEPT ![a] = [pc |-> "body", kind |-> k, user |-> u,
                                      content |-> IF k = "companion" THEN None ELSE c,
                                      existed |-> existed, expected |-> e]]
        /\ UNCHANGED <<dbVars, fileVars, blocked, up, lock, op, w, faults, crashes>>

\* The request ends without a change to releases or artifacts: an interrupted
\* body, a conflict with a pending release, the pending limit, or a checksum
\* that is stored next to an artifact without a release.
AbandonPut(a) ==
    /\ up /\ put[a].pc = "body"
    /\ ~(op.pc \in {"save", "commit"} /\ op.paths = {a})
    /\ put' = [put EXCEPT ![a] = NoPut]
    /\ UNCHANGED <<dbVars, fileVars, blocked, up, lock, op, w, requests, faults, crashes>>

\* Artifacts no signature is required or expected for are committed directly.
Direct(a) == put[a].kind = "artifact" /\ ~RequireGPG /\ ~put[a].expected

\* enqueueGPGRelease, and enqueueGPGCompanion when it creates a placeholder, up
\* to the move into the quarantine: the active release must be queued and of
\* the same uploader; without one a new release is made within the limits.
Stage(a, i) ==
    /\ up /\ lock = "free" /\ put[a].pc = "body" /\ ~Direct(a)
    /\ IF Active(a) # {}
       THEN /\ put[a].kind # "companion"
            /\ i \in Active(a)
            /\ rows[i].status = "queued" /\ rows[i].uploader = put[a].user
       ELSE /\ put[a].kind = "companion" => RequireGPG /\ art[a] = None
            /\ UnderLimits(put[a].user)
            /\ FreshId(i)
    /\ lock' = "request"
    /\ op' = [pc |-> "save", id |-> i, paths |-> {a}]
    /\ dirs' = dirs \union {i}
    /\ UNCHANGED <<dbVars, art, sig, blocked, up, put, w, requests, faults, crashes>>

\* Mutant of StagedRow: the policy of the repository is not looked at.
StagedRowOptional(r, p, exists) ==
    CASE p.kind = "signature" ->
           [r EXCEPT !.require = TRUE, !.sig = p.content,
                     !.existed = IF r.art = None THEN exists ELSE @]
      [] p.kind = "artifact" ->
           [r EXCEPT !.require = @ \/ p.expected, !.art = p.content, !.existed = p.existed]
      [] OTHER -> [r EXCEPT !.require = TRUE]

\* The row enqueueGPGRelease saves for an upload p to release r; exists tells
\* whether the artifact is stored.
StagedRow(r, p, exists) ==
    CASE p.kind = "signature" ->
           [r EXCEPT !.require = TRUE, !.sig = p.content,
                     !.existed = IF r.art = None THEN exists ELSE @]
      [] p.kind = "artifact" ->
           [r EXCEPT !.require = @ \/ RequireGPG \/ p.expected,
                     !.art = p.content, !.existed = p.existed]
      [] OTHER -> [r EXCEPT !.require = TRUE]

\* Mutant of SaveStaged: the path of the release is not hidden.
SaveStagedVisible(a) ==
    LET i == op.id
        r == IF rows[i].status = "none" THEN NewRow(a, put[a].user) ELSE rows[i]
    IN  /\ op.pc = "save" /\ op.paths = {a}
        /\ \/ NoFault /\ rows' = [rows EXCEPT ![i] = StagedRow(r, put[a], art[a] # None)]
           \/ Fault /\ UNCHANGED rows
        /\ put' = [put EXCEPT ![a] = NoPut]
        /\ lock' = "free" /\ op' = NoOp
        /\ UNCHANGED <<record, fileVars, blocked, up, w, requests, crashes>>

\* SaveGPGRelease and blockReleasePaths; a failed save puts the file back and
\* leaves the empty quarantine directory.
SaveStaged(a) ==
    LET i == op.id
        r == IF rows[i].status = "none" THEN NewRow(a, put[a].user) ELSE rows[i]
    IN  /\ op.pc = "save" /\ op.paths = {a}
        /\ \/ /\ NoFault
              /\ rows' = [rows EXCEPT ![i] = StagedRow(r, put[a], art[a] # None)]
              /\ blocked' = blocked \union {a}
           \/ /\ Fault
              /\ UNCHANGED <<rows, blocked>>
        /\ put' = [put EXCEPT ![a] = NoPut]
        /\ lock' = "free" /\ op' = NoOp
        /\ UNCHANGED <<record, fileVars, up, w, requests, crashes>>

\* enqueueGPGCompanion for a release that is queued or being validated: the
\* checksum joins its quarantine directory, the row is not written.
StageCompanion(a, i) ==
    /\ up /\ lock = "free" /\ put[a].pc = "body" /\ put[a].kind = "companion"
    /\ i \in Active(a)
    /\ rows[i].status \in {"queued", "validating"} /\ rows[i].uploader = put[a].user
    /\ dirs' = dirs \union {i}
    /\ blocked' = blocked \union {a}
    /\ put' = [put EXCEPT ![a] = NoPut]
    /\ UNCHANGED <<dbVars, art, sig, up, lock, op, w, requests, faults, crashes>>

\* What a removal of the signature files and the record leaves when some of its
\* parts fail: errors.Join attempts every part.
PartlyUnsigned(a) ==
    /\ \E s \in {sig[a], None} : sig' = [sig EXCEPT ![a] = s]
    /\ \E r \in {record[a], None} : record' = [record EXCEPT ![a] = r]

\* Mutant of Unsigned: the verified record is left.
UnsignedKeepingRecord(a) ==
    /\ sig' = [sig EXCEPT ![a] = None]
    /\ UNCHANGED record

\* removeArtifactSignature: the detached signature and its verified record.
Unsigned(a) ==
    /\ sig' = [sig EXCEPT ![a] = None]
    /\ record' = [record EXCEPT ![a] = None]

\* processUploadedFileLocked, unsigned artifact: no release may be active, and
\* the former signature is invalidated before the file is replaced.
DirectUnsign(a) ==
    /\ up /\ lock = "free" /\ put[a].pc = "body" /\ Direct(a)
    /\ Active(a) = {}
    /\ \/ /\ NoFault
          /\ Unsigned(a)
          /\ lock' = "request"
          /\ op' = [pc |-> "commit", id |-> 0, paths |-> {a}]
          /\ UNCHANGED put
       \/ /\ Fault
          /\ PartlyUnsigned(a)
          /\ put' = [put EXCEPT ![a] = NoPut]
          /\ UNCHANGED <<lock, op>>
    /\ UNCHANGED <<rows, art, dirs, blocked, up, w, requests, crashes>>

\* CommitUploadedFile of content c: when it fails the former file may still be
\* there, the new one may be in place, or both may be gone.
Commit(a, c) ==
    \/ NoFault /\ art' = [art EXCEPT ![a] = c]
    \/ Fault /\ \E d \in {art[a], c, None} : art' = [art EXCEPT ![a] = d]

DirectCommit(a) ==
    /\ op.pc = "commit" /\ op.paths = {a}
    /\ Commit(a, put[a].content)
    /\ put' = [put EXCEPT ![a] = NoPut]
    /\ lock' = "free" /\ op' = NoOp
    /\ UNCHANGED <<dbVars, sig, dirs, blocked, up, w, requests, crashes>>

-----------------------------------------------------------------------------
(* Deletions.                                                              *)

\* Mutant of Failed: a status normalizeGPGRelease does not know.
FailedAsDiscarded(r) == [r EXCEPT !.status = "discarded", !.cleanup = TRUE]

\* The row discardPendingGPGUploads and failGPGRelease save.
Failed(r) == [r EXCEPT !.status = "failed", !.cleanup = TRUE]

FailRows(F) == rows' = [i \in Ids |-> IF i \in F THEN Failed(rows[i]) ELSE rows[i]]

\* discardPendingGPGUploads for the paths D, and then request o: active releases
\* fail and keep their key until the worker has cleaned them.  The first save that
\* fails ends the request.
Discard(D, o) ==
    LET found == {i \in Ids : rows[i].active /\ rows[i].artifact \in D}
    IN  \/ NoFault /\ FailRows(found) /\ lock' = "request" /\ op' = o
        \/ /\ found # {} /\ Fault
           /\ \E F \in SUBSET found : FailRows(F)
           /\ UNCHANGED <<lock, op>>

\* HandleDelete of an artifact file: its release is discarded first.
BeginDelete(a) ==
    /\ up /\ lock = "free" /\ art[a] # None
    /\ NewRequest
    /\ Discard({a}, [pc |-> "file", id |-> 0, paths |-> {a}])
    /\ UNCHANGED <<record, fileVars, blocked, up, put, w, crashes>>

\* Signature and record go before the artifact.
DeleteUnsign(a) ==
    /\ op.pc = "file" /\ op.paths = {a}
    /\ \/ NoFault /\ Unsigned(a) /\ op' = [op EXCEPT !.pc = "remove"] /\ UNCHANGED lock
       \/ Fault /\ PartlyUnsigned(a) /\ op' = NoOp /\ lock' = "free"
    /\ UNCHANGED <<rows, art, dirs, blocked, up, put, w, requests, crashes>>

DeleteFile(a) ==
    /\ op.pc = "remove" /\ op.paths = {a}
    /\ \/ /\ NoFault
          /\ art' = [art EXCEPT ![a] = None]
          /\ op' = [op EXCEPT !.pc = "siblings"] /\ UNCHANGED lock
       \/ /\ Fault
          /\ \E c \in {art[a], None} : art' = [art EXCEPT ![a] = c]
          /\ op' = NoOp /\ lock' = "free"
    /\ UNCHANGED <<dbVars, sig, dirs, blocked, up, put, w, requests, crashes>>

\* f with the entries of D cleared.
Cleared(f, D) == [a \in Artifacts |-> IF a \in D THEN None ELSE f[a]]

\* The siblings FileIndex.HasFile shows: hidden paths are not in the index.
VisibleSiblings(a) == Siblings[a] \ blocked

\* With a .jar go the .pom and the .module that the index shows, each with its
\* record and then its signature; their releases are not discarded.
DeleteSiblings(a) ==
    LET visible == VisibleSiblings(a)
    IN  /\ op.pc = "siblings" /\ op.paths = {a}
        /\ \/ /\ NoFault
              /\ art' = Cleared(art, visible) /\ record' = Cleared(record, visible)
              /\ sig' = Cleared(sig, visible)
           \/ /\ visible # {} /\ Fault
              /\ \E A \in SUBSET visible : \E R \in SUBSET A : \E S \in SUBSET R :
                    art' = Cleared(art, A) /\ record' = Cleared(record, R) /\ sig' = Cleared(sig, S)
        /\ op' = NoOp /\ lock' = "free"
        /\ UNCHANGED <<rows, dirs, blocked, up, put, w, requests, crashes>>

\* RemoveMavenVersion and HandleDelete of a directory that holds D.
BeginDeleteTree(D) ==
    /\ up /\ lock = "free" /\ D # {}
    /\ NewRequest
    /\ Discard(D, [pc |-> "tree", id |-> 0, paths |-> D])
    /\ UNCHANGED <<record, fileVars, blocked, up, put, w, crashes>>

\* The files go first, the records afterwards.
DeleteTree ==
    /\ op.pc = "tree"
    /\ \/ /\ NoFault
          /\ art' = Cleared(art, op.paths) /\ sig' = Cleared(sig, op.paths)
          /\ op' = [op EXCEPT !.pc = "records"] /\ UNCHANGED lock
       \/ /\ Fault
          /\ \E A, S \in SUBSET op.paths : art' = Cleared(art, A) /\ sig' = Cleared(sig, S)
          /\ op' = NoOp /\ lock' = "free"
    /\ UNCHANGED <<dbVars, dirs, blocked, up, put, w, requests, crashes>>

DeleteRecords ==
    /\ op.pc = "records"
    /\ \/ NoFault /\ record' = Cleared(record, op.paths)
       \/ Fault /\ UNCHANGED record
    /\ op' = NoOp /\ lock' = "free"
    /\ UNCHANGED <<rows, fileVars, blocked, up, put, w, requests, crashes>>

\* HandleDelete of the .asc file: refused while a required signature's artifact
\* exists; pending releases are left alone.
DeleteSignature(a) ==
    /\ up /\ lock = "free" /\ sig[a] # None
    /\ NewRequest
    /\ ~(RequireGPG /\ art[a] # None)
    /\ \/ NoFault /\ Unsigned(a)
       \/ Fault /\ (\E s \in {sig[a], None} : sig' = [sig EXCEPT ![a] = s]) /\ UNCHANGED record
    /\ UNCHANGED <<rows, art, dirs, blocked, up, lock, put, op, w, crashes>>

-----------------------------------------------------------------------------
(* The worker: processGPGReleaseQueue.                                     *)

\* A pass begins when the worker is woken, by an upload or by the periodic
\* gpg-release-poll: it lists what to clean and what is past its deadline.
StartPass ==
    /\ up /\ w.pc = "asleep"
    /\ w' = [w EXCEPT !.pc = "sweep",
                      !.clean = {i \in Ids : rows[i].cleanup},
                      !.expire = {i \in Ids : /\ rows[i].active /\ ~rows[i].cleanup
                                              /\ rows[i].status = "queued" /\ rows[i].age = "ttl"}]
    /\ UNCHANGED <<dbVars, fileVars, blocked, up, lock, put, op, requests, faults, crashes>>

\* A listed release with pending cleanup.
SweepClean(i) ==
    /\ w.pc = "sweep" /\ lock = "free" /\ i \in w.clean
    /\ lock' = "worker"
    /\ w' = [w EXCEPT !.pc = "files", !.clean = @ \ {i}, !.id = i, !.ret = "sweep"]
    /\ UNCHANGED <<dbVars, fileVars, blocked, up, put, op, requests, faults, crashes>>

\* expireGPGReleaseIfIncomplete reads the release again under the lock.
Expirable(i) == rows[i].active /\ rows[i].status = "queued" /\ ~Ready(rows[i])

SweepExpire(i) ==
    /\ w.pc = "sweep" /\ lock = "free" /\ i \in w.expire
    /\ \/ /\ Expirable(i) /\ NoFault
          /\ rows' = [rows EXCEPT ![i] = Failed(@)]
          /\ lock' = "worker"
          /\ w' = [w EXCEPT !.pc = "files", !.expire = @ \ {i}, !.id = i, !.ret = "sweep"]
       \/ /\ IF Expirable(i) THEN Fault ELSE NoFault
          /\ w' = [w EXCEPT !.expire = @ \ {i}]
          /\ UNCHANGED <<rows, lock>>
    /\ UNCHANGED <<record, fileVars, blocked, up, put, op, requests, crashes>>

EndSweep ==
    /\ w.pc = "sweep" /\ w.clean = {} /\ w.expire = {}
    /\ w' = [w EXCEPT !.pc = "claim"]
    /\ UNCHANGED <<dbVars, fileVars, blocked, up, lock, put, op, requests, faults, crashes>>

\* ClaimNextGPGRelease: the oldest claimable release is marked validating.
Claim(i) ==
    /\ w.pc = "claim" /\ lock = "free"
    /\ Claimable(rows[i])
    /\ \A j \in Ids : j < i => ~Claimable(rows[j])
    /\ rows' = [rows EXCEPT ![i].status = "validating"]
    /\ w' = [w EXCEPT !.pc = "verify", !.id = i, !.rec = None]
    /\ UNCHANGED <<record, fileVars, blocked, up, lock, put, op, requests, faults, crashes>>

\* Nothing to claim, or the claim failed: the pass ends.
EndPass ==
    /\ w.pc = "claim" /\ lock = "free"
    /\ \/ NoFault /\ \A i \in Ids : ~Claimable(rows[i])
       \/ Fault
    /\ w' = Asleep
    /\ UNCHANGED <<dbVars, fileVars, blocked, up, lock, put, op, requests, crashes>>

\* The bytes verifyGPGRelease reads: the staged artifact, else the stored one.
VerifiedBytes(r) == IF r.art # None THEN r.art ELSE art[r.artifact]

\* A release that would replace an artifact needs redeployment.
RedeploymentDenied(r) == r.art # None /\ r.existed /\ ~AllowRedeployment

\* publishGPGRelease before it takes the lock: the staged files are read and the
\* signature is checked; w.rec is the record to store.
Verify ==
    LET r == rows[w.id]
    IN  /\ w.pc = "verify"
        /\ w.id \in dirs
        /\ ~RedeploymentDenied(r)
        /\ IF r.sig = None THEN ~r.require
           ELSE VerifiedBytes(r) # None /\ r.sig = VerifiedBytes(r)
        /\ w' = [w EXCEPT !.pc = "lock", !.rec = IF r.sig = None THEN None ELSE r.sig]
        /\ UNCHANGED <<dbVars, fileVars, blocked, up, lock, put, op, requests, faults, crashes>>

\* A bad signature, an unregistered key, a missing file, a changed policy.
VerifyFails ==
    /\ w.pc = "verify"
    /\ w' = [w EXCEPT !.pc = "fail"]
    /\ UNCHANGED <<dbVars, fileVars, blocked, up, lock, put, op, requests, faults, crashes>>

\* Mutant of StillClaimed: the release is not read again under the lock.
ClaimTrusted(i) == TRUE

\* The release read again under the lock is active and still validating.
StillClaimed(i) == rows[i].active /\ rows[i].status = "validating"

\* publishGPGRelease takes the lock: a release discarded meanwhile is cleaned,
\* the others are marked started before the first file changes.
LockRelease ==
    LET i == w.id
    IN  /\ w.pc = "lock" /\ lock = "free"
        /\ \/ /\ StillClaimed(i) /\ NoFault
              /\ rows' = [rows EXCEPT ![i].started = TRUE]
              /\ lock' = "worker"
              /\ w' = [w EXCEPT !.pc = "unsign"]
           \/ /\ Fault
              /\ w' = [w EXCEPT !.pc = "fail"]
              /\ UNCHANGED <<rows, lock>>
           \/ /\ ~StillClaimed(i) /\ NoFault
              /\ IF rows[i].active /\ rows[i].cleanup
                 THEN lock' = "worker" /\ w' = [w EXCEPT !.pc = "files", !.ret = "claim"]
                 ELSE w' = [w EXCEPT !.pc = "claim"] /\ UNCHANGED lock
              /\ UNCHANGED rows
        /\ UNCHANGED <<record, fileVars, blocked, up, put, op, requests, crashes>>

\* A step of publishGPGRelease returns an error: the lock is released and
\* failClaimedGPGRelease follows.
PublishFails == Fault /\ w' = [w EXCEPT !.pc = "fail"] /\ lock' = "free"

\* The former checksums, signature and record are removed first.
PublishUnsign ==
    LET a == rows[w.id].artifact
    IN  /\ w.pc = "unsign"
        /\ \/ NoFault /\ Unsigned(a) /\ w' = [w EXCEPT !.pc = "artifact"] /\ UNCHANGED lock
           \/ PublishFails /\ PartlyUnsigned(a)
        /\ UNCHANGED <<rows, art, dirs, blocked, up, put, op, requests, crashes>>

\* The staged artifact, if the release has one, is copied into place.
PublishArtifact ==
    LET r == rows[w.id]
    IN  /\ w.pc = "artifact"
        /\ \/ /\ NoFault
              /\ art' = IF r.art = None THEN art ELSE [art EXCEPT ![r.artifact] = r.art]
              /\ w' = [w EXCEPT !.pc = "signature"]
              /\ UNCHANGED lock
           \/ /\ r.art # None /\ PublishFails
              /\ \E d \in {art[r.artifact], r.art, None} : art' = [art EXCEPT ![r.artifact] = d]
        /\ UNCHANGED <<dbVars, sig, dirs, blocked, up, put, op, requests, crashes>>

\* The staged signature, if the release has one, is copied into place.
PublishSignature ==
    LET r == rows[w.id]
    IN  /\ w.pc = "signature"
        /\ \/ /\ NoFault
              /\ sig' = IF r.sig = None THEN sig ELSE [sig EXCEPT ![r.artifact] = r.sig]
              /\ w' = [w EXCEPT !.pc = "record"]
              /\ UNCHANGED lock
           \/ /\ r.sig # None /\ PublishFails
              /\ \E s \in {None, r.sig} : sig' = [sig EXCEPT ![r.artifact] = s]
        /\ UNCHANGED <<dbVars, art, dirs, blocked, up, put, op, requests, crashes>>

\* Mutant of PublishRecord: the error of SaveGPGSignature is dropped.
PublishRecordAnyway ==
    LET a == rows[w.id].artifact
        stored == IF w.rec = None THEN record ELSE [record EXCEPT ![a] = w.rec]
    IN  /\ w.pc = "record"
        /\ \/ NoFault /\ record' = stored
           \/ Fault /\ record' \in {record, stored}
        /\ w' = [w EXCEPT !.pc = "success"]
        /\ UNCHANGED <<rows, fileVars, blocked, up, lock, put, op, requests, crashes>>

\* Checksum companions, the signature record and the Maven catalog.
PublishRecord ==
    LET a == rows[w.id].artifact
        stored == IF w.rec = None THEN record ELSE [record EXCEPT ![a] = w.rec]
    IN  /\ w.pc = "record"
        /\ \/ /\ NoFault
              /\ record' = stored
              /\ w' = [w EXCEPT !.pc = "success"]
              /\ UNCHANGED lock
           \/ /\ PublishFails
              /\ record' \in {record, stored}
        /\ UNCHANGED <<rows, fileVars, blocked, up, put, op, requests, crashes>>

Succeeded(r) == [r EXCEPT !.status = "success", !.active = FALSE, !.cleanup = TRUE]

\* The release succeeds and gives up its key; a commit whose answer is lost
\* counts as a failure for the worker although the row is written.
PublishSuccess ==
    /\ w.pc = "success"
    /\ \/ /\ NoFault
          /\ rows' = [rows EXCEPT ![w.id] = Succeeded(@)]
          /\ w' = [w EXCEPT !.pc = "reveal"]
          /\ UNCHANGED lock
       \/ /\ PublishFails
          /\ rows' \in {rows, [rows EXCEPT ![w.id] = Succeeded(@)]}
    /\ UNCHANGED <<record, fileVars, blocked, up, put, op, requests, crashes>>

\* unblockReleasePaths after success; the cleanup follows under the same lock.
\* When that cleanup fails failClaimedGPGRelease finds no active release with
\* this number and does nothing.
Reveal ==
    /\ w.pc = "reveal"
    /\ blocked' = blocked \ {rows[w.id].artifact}
    /\ w' = [w EXCEPT !.pc = "files", !.ret = "claim"]
    /\ UNCHANGED <<dbVars, fileVars, up, lock, put, op, requests, faults, crashes>>

\* failClaimedGPGRelease and failGPGRelease.
FailClaimed ==
    LET i == w.id
    IN  /\ w.pc = "fail" /\ lock = "free"
        /\ \/ /\ rows[i].active /\ rows[i].status = "validating" /\ NoFault
              /\ rows' = [rows EXCEPT ![i] = Failed(@)]
              /\ lock' = "worker"
              /\ w' = [w EXCEPT !.pc = "files", !.ret = "claim"]
           \/ /\ rows[i].active /\ rows[i].cleanup /\ NoFault
              /\ lock' = "worker"
              /\ w' = [w EXCEPT !.pc = "files", !.ret = "claim"]
              /\ UNCHANGED rows
           \/ /\ \/ Fault
                 \/ ~rows[i].active /\ NoFault
              /\ w' = [w EXCEPT !.pc = "claim"]
              /\ UNCHANGED <<rows, lock>>
        /\ UNCHANGED <<record, fileVars, blocked, up, put, op, requests, crashes>>

-----------------------------------------------------------------------------
(* cleanupTerminalGPGRelease, under the lock; a failure leaves the row as  *)
(* it is and the next pass tries again.                                    *)

CleanupFails == Fault /\ w' = [w EXCEPT !.pc = w.ret] /\ lock' = "free"

\* Mutant of Partial: a signature on its own is taken for harmless.
PartialArtifact(r) == r.status = "failed" /\ r.started /\ r.art # None

\* The release failed after it had begun to publish.
Partial(r) == r.status = "failed" /\ r.started

\* cleanupPublishedReleaseFiles for a release that failed while publishing.
CleanFiles ==
    LET r == rows[w.id]
        a == r.artifact
    IN  /\ w.pc = "files"
        /\ \/ /\ ~Partial(r) /\ NoFault
              /\ UNCHANGED <<record, art, sig, lock>>
              /\ w' = [w EXCEPT !.pc = "dir"]
           \/ /\ Partial(r) /\ NoFault
              /\ art' = IF r.art = None THEN art ELSE [art EXCEPT ![a] = None]
              /\ Unsigned(a)
              /\ w' = [w EXCEPT !.pc = "dir"]
              /\ UNCHANGED lock
           \/ /\ Partial(r) /\ CleanupFails
              /\ IF r.art = None THEN UNCHANGED art
                 ELSE \E c \in {art[a], None} : art' = [art EXCEPT ![a] = c]
              /\ PartlyUnsigned(a)
        /\ UNCHANGED <<rows, dirs, blocked, up, put, op, requests, crashes>>

\* removeReleaseStagingFiles.
CleanDir ==
    /\ w.pc = "dir"
    /\ \/ /\ NoFault
          /\ dirs' = dirs \ {w.id}
          /\ w' = [w EXCEPT !.pc = "save"]
          /\ UNCHANGED lock
       \/ /\ CleanupFails
          /\ UNCHANGED dirs
    /\ UNCHANGED <<dbVars, art, sig, blocked, up, put, op, requests, crashes>>

\* The row gives up its key and its cleanup is over.
CleanSave ==
    /\ w.pc = "save"
    /\ \/ /\ NoFault
          /\ rows' = [rows EXCEPT ![w.id].active = FALSE, ![w.id].cleanup = FALSE]
          /\ w' = [w EXCEPT !.pc = "unblock"]
          /\ UNCHANGED lock
       \/ /\ CleanupFails
          /\ UNCHANGED rows
    /\ UNCHANGED <<record, fileVars, blocked, up, put, op, requests, crashes>>

\* Mutant of CleanUnblock: only successful releases are revealed.
CleanUnblockSuccess ==
    /\ w.pc = "unblock"
    /\ blocked' = IF rows[w.id].status = "success" THEN blocked \ {rows[w.id].artifact} ELSE blocked
    /\ lock' = "free"
    /\ w' = [w EXCEPT !.pc = w.ret]
    /\ UNCHANGED <<dbVars, fileVars, up, put, op, requests, faults, crashes>>

\* unblockReleasePaths.
CleanUnblock ==
    /\ w.pc = "unblock"
    /\ blocked' = blocked \ {rows[w.id].artifact}
    /\ lock' = "free"
    /\ w' = [w EXCEPT !.pc = w.ret]
    /\ UNCHANGED <<dbVars, fileVars, up, put, op, requests, faults, crashes>>

-----------------------------------------------------------------------------
(* Crash and restart.                                                      *)

Crash ==
    /\ up /\ crashes < MaxCrashes
    /\ crashes' = crashes + 1
    /\ up' = FALSE
    /\ blocked' = {} /\ lock' = "free" /\ op' = NoOp /\ w' = Asleep
    /\ put' = [a \in Artifacts |-> NoPut]
    /\ UNCHANGED <<dbVars, fileVars, requests, faults>>

\* Mutant of Restore: directories of interrupted validations count as orphans.
RestoreQueuedOnly ==
    /\ ~up
    /\ up' = TRUE
    /\ rows' = [i \in Ids |-> IF rows[i].active /\ rows[i].status = "validating"
                              THEN [rows[i] EXCEPT !.status = "queued"] ELSE rows[i]]
    /\ blocked' = {rows[i].artifact : i \in {j \in Ids : Pending(j) /\ rows[j].status # "success"}}
    /\ dirs' = {i \in dirs : Pending(i) /\ rows[i].status # "validating"}
    /\ UNCHANGED <<record, art, sig, lock, put, op, w, requests, faults, crashes>>

\* Mutant of Restore: interrupted validations are not queued again.
RestoreWithoutReset ==
    /\ ~up
    /\ up' = TRUE
    /\ blocked' = {rows[i].artifact : i \in {j \in Ids : Pending(j) /\ rows[j].status # "success"}}
    /\ dirs' = {i \in dirs : Pending(i)}
    /\ UNCHANGED <<rows, record, art, sig, lock, put, op, w, requests, faults, crashes>>

\* RestoreGPGReleaseState, before requests are served and the worker starts:
\* interrupted validations are queued again, the paths of unfinished releases
\* are hidden, and quarantine directories of no pending release are removed.
Restore ==
    /\ ~up
    /\ up' = TRUE
    /\ rows' = [i \in Ids |-> IF rows[i].active /\ rows[i].status = "validating"
                              THEN [rows[i] EXCEPT !.status = "queued"] ELSE rows[i]]
    /\ blocked' = {rows[i].artifact : i \in {j \in Ids : Pending(j) /\ rows[j].status # "success"}}
    /\ dirs' = {i \in dirs : Pending(i)}
    /\ UNCHANGED <<record, art, sig, lock, put, op, w, requests, faults, crashes>>

-----------------------------------------------------------------------------
Kinds == {"artifact", "signature", "companion"}

UploadNext(a) ==
    \/ \E k \in Kinds, u \in Users, c \in Contents, e \in BOOLEAN : BeginPut(a, k, u, c, e)
    \/ AbandonPut(a)
    \/ \E i \in Ids : Stage(a, i) \/ StageCompanion(a, i)
    \/ DirectUnsign(a)

DeleteNext ==
    \/ \E a \in Artifacts : BeginDelete(a) \/ DeleteSignature(a)
    \/ \E D \in SUBSET Artifacts : BeginDeleteTree(D)

\* The request that holds the lock goes on.
RequestNext ==
    \/ \E a \in Artifacts :
          \/ SaveStaged(a) \/ DirectCommit(a)
          \/ DeleteUnsign(a) \/ DeleteFile(a) \/ DeleteSiblings(a)
    \/ DeleteTree \/ DeleteRecords

WorkerNext ==
    \/ StartPass \/ EndSweep \/ EndPass
    \/ \E i \in Ids : SweepClean(i) \/ SweepExpire(i) \/ Claim(i)
    \/ Verify \/ VerifyFails \/ LockRelease
    \/ PublishUnsign \/ PublishArtifact \/ PublishSignature \/ PublishRecord \/ PublishSuccess
    \/ Reveal \/ FailClaimed
    \/ CleanFiles \/ CleanDir \/ CleanSave \/ CleanUnblock

Next ==
    \/ \E a \in Artifacts : UploadNext(a)
    \/ DeleteNext \/ RequestNext
    \/ WorkerNext
    \/ \E i \in Ids : Elapse(i)
    \/ Crash \/ Restore

Spec == Init /\ [][Next]_vars

\* The worker goroutine runs, sync.Mutex does not pass a waiting goroutine over
\* for ever (strong fairness), a request that holds the lock goes on, time
\* passes, and a stopped process is started again.
FairSpec ==
    /\ Spec
    /\ SF_vars(WorkerNext)
    /\ WF_vars(Restore)
    /\ WF_vars(RequestNext)
    /\ \A i \in Ids : WF_vars(Elapse(i))

-----------------------------------------------------------------------------
(* Properties.                                                             *)

Rows == [status : Statuses, artifact : Artifacts \union {None}, uploader : Users \union {None},
         active : BOOLEAN, require : BOOLEAN, art : Stored, sig : Stored, existed : BOOLEAN,
         started : BOOLEAN, cleanup : BOOLEAN, age : Ages]
Puts == [pc : {"idle", "body"}, kind : Kinds, user : Users \union {None}, content : Stored,
         existed : BOOLEAN, expected : BOOLEAN]
OpPcs == {"idle", "save", "commit", "file", "remove", "siblings", "tree", "records"}
PublishPcs == {"unsign", "artifact", "signature", "record", "success"}
CleanPcs == {"files", "dir", "save", "unblock"}
WorkerPcs == {"asleep", "sweep", "claim", "verify", "lock", "reveal", "fail"} \union PublishPcs \union CleanPcs

Ops == [pc : OpPcs, id : Ids \union {0}, paths : SUBSET Artifacts]
WorkerStates == [pc : WorkerPcs, clean : SUBSET Ids, expire : SUBSET Ids, id : Ids \union {0},
                 rec : Stored, ret : {"sweep", "claim"}]

\* The values every variable ranges over.
TypeOK ==
    /\ rows \in [Ids -> Rows]
    /\ record \in [Artifacts -> Stored]
    /\ art \in [Artifacts -> Stored]
    /\ sig \in [Artifacts -> Stored]
    /\ dirs \in SUBSET Ids
    /\ blocked \in SUBSET Artifacts
    /\ up \in BOOLEAN
    /\ lock \in {"free", "request", "worker"}
    /\ put \in [Artifacts -> Puts]
    /\ op \in Ops
    /\ w \in WorkerStates
    /\ requests \in Nat /\ faults \in Nat /\ crashes \in Nat

\* A signature record never vouches for other bytes than the stored ones, at any
\* instant of a publication, a replacement, a deletion or a crash in between.
RecordMatchesArtifact ==
    \A a \in Artifacts : record[a] # None => art[a] \in {None, record[a]}

\* No two releases of one artifact are active at the same time.
OneActiveRelease ==
    \A i, j \in Ids : rows[i].active /\ rows[j].active /\ rows[i].artifact = rows[j].artifact => i = j

\* The queue limits hold although uploads, expiry and the worker interleave.
PendingBounded ==
    /\ Cardinality({i \in Ids : rows[i].active}) <= MaxPending
    /\ \A u \in Users : Cardinality({i \in Ids : rows[i].active /\ rows[i].uploader = u}) <= MaxPendingPerUser

\* Once a release has failed or succeeded it stays so and never starts to publish:
\* a deletion that overtakes the verification wins.
TerminalIsFinal ==
    [][\A i \in Ids : rows[i].status \in {"failed", "success"} =>
         rows'[i].status = rows[i].status /\ rows'[i].started = rows[i].started]_vars

\* In a repository that requires signatures every byte that reaches the store was
\* verified by the worker for the release that brought it.
OnlyVerifiedBytes ==
    [][\A a \in Artifacts : art'[a] \notin {art[a], None} =>
         \/ ~RequireGPG /\ op.pc = "commit"
         \/ w.pc = "artifact" /\ (RequireGPG \/ rows[w.id].require => w.rec = art'[a])]_vars

\* A release that becomes a success has all its parts in the store and the record
\* for its signature.  A signature alone may find the artifact it was verified
\* against gone, but only the deletion of a .jar it is a sibling of can have
\* taken it (README, section 7).
SuccessIsComplete ==
    [][\A i \in Ids : rows[i].status # "success" /\ rows'[i].status = "success" =>
         LET r == rows[i]
             a == r.artifact
         IN  /\ r.art # None => art[a] = r.art
             /\ r.sig # None =>
                  /\ sig[a] = r.sig /\ record[a] = r.sig
                  /\ art[a] = r.sig \/ (art[a] = None /\ \E b \in Artifacts : a \in Siblings[b])]_vars

\* A release that failed while publishing gives up its key only after everything
\* it may have published is gone.
FailureLeavesNothing ==
    [][\A i \in Ids : rows[i].status = "failed" /\ rows[i].started /\ rows[i].active /\ ~rows'[i].active =>
         LET a == rows[i].artifact IN
         /\ rows[i].art # None => art[a] = None
         /\ sig[a] = None /\ record[a] = None]_vars

\* Whenever nobody holds the lock, an artifact is hidden only while a release
\* exists whose end will reveal it.
HiddenHasReason ==
    up /\ lock = "free" => \A a \in blocked : \E i \in Ids : Pending(i) /\ rows[i].artifact = a

\* The quarantined files of a release that can still be published are kept, by
\* the cleanup of other releases and by the removal of orphans at a restart.
StagingKept ==
    \A i \in Ids : rows[i].active /\ rows[i].status \in {"queued", "validating"} => i \in dirs

\* Every release ends: it is published, or it fails and gives up its key.
ReleasesEnd == \A i \in Ids : rows[i].active ~> ~rows[i].active

\* The clean-up of an earlier success of artifact a is over, and not undisturbed:
\* something failed or the process crashed on the way here.
RevealedLate(a) ==
    /\ faults + crashes > 0
    /\ \E j \in Ids : rows[j].artifact = a /\ rows[j].status = "success" /\ ~rows[j].cleanup

\* A stored artifact whose release can still be published is taken out of the
\* store by nobody but the worker that replaces it, whatever is deleted beside it,
\* and its path comes out of hiding while the process runs only when an earlier
\* success of the same artifact is cleaned late.  From then on, and only then, the
\* deletion of a .jar may take the artifact along: the code does not prevent that
\* (README, section 7).
SiblingsSpared ==
    [][\A i \in Ids : rows[i].active /\ rows[i].status # "failed" =>
         LET a == rows[i].artifact IN
         /\ art[a] # None /\ art'[a] = None =>
              \/ w.id = i /\ w.pc = "artifact"
              \/ op.pc = "siblings" /\ a \notin blocked /\ RevealedLate(a)
         /\ a \in blocked \ blocked' /\ up' => w.pc = "unblock" /\ RevealedLate(a)]_vars

\* A stored artifact of a repository without redeployment is not replaced.
\* The code does not keep this: see the README, section 7.
NoRedeployment ==
    [][~AllowRedeployment => \A a \in Artifacts : art[a] # None => art'[a] \in {art[a], None}]_vars
=============================================================================
