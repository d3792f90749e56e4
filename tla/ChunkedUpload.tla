--------------------------- MODULE ChunkedUpload ---------------------------
(***************************************************************************)
(* Multi-part uploads (src/internal/service/upload).  A session owns a     *)
(* pre-sized temporary file.  Requests write chunks of it in parallel,     *)
(* complete it or cancel it; a scheduled task removes expired sessions and *)
(* temporary files nobody owns.                                            *)
(*                                                                         *)
(* A section under Manager.mu or Session.mu is one step.  The exception is *)
(* BeginSessionCompletion, which swaps the atomic done before it takes     *)
(* Session.mu: it keeps Manager.mu from one step to the next.  Requests    *)
(* of users who do not own the session are turned away without effect and  *)
(* are left out.                                                           *)
(***************************************************************************)
EXTENDS Integers, FiniteSets

CONSTANTS
    Sessions,     \* upload ids (id.New never repeats one)
    Chunks,       \* chunk indices
    Parts,        \* the chunks of each session; none for an empty file
    Updates,      \* sessions of purpose updater, the others are storage
    Writers,      \* bound: requests that write a chunk at the same time
    None,         \* no session, no chunk, not delivered
    MaxSessions,  \* the limit of the manager
    MaxFaults,    \* bound: failing file operations
    MaxCrashes    \* bound: crashes of the process

ASSUME SessionsAssumption == IsFiniteSet(Sessions)
\* What the chunks' ranges of a temporary file can hold.
ChunkData == [Chunks -> {"hole", "torn", "whole"}]

ASSUME NoneAssumption == None \notin Sessions \union Chunks \union ChunkData
ASSUME PartsAssumption == Parts \in [Sessions -> SUBSET Chunks]
ASSUME BoundAssumption == MaxSessions \in Nat /\ MaxFaults \in Nat /\ MaxCrashes \in Nat

VARIABLES
    sessions,   \* keys of Manager.sessions
    pending,    \* Manager.pending
    init,       \* where each id's CreateSession is
    sess,       \* Session: received, done, closed, aborting
    open,       \* the descriptor of the temporary file is open
    temp,       \* the temporary file exists
    data,       \* what each chunk's range of the file holds
    old,        \* more than SessionTTL has passed since Session.created
    stale,      \* at least SessionTTL has passed since the file was written
    wr,         \* [pc, s, c] of the requests that write chunks
    comp,       \* where each session's completion is
    ab,         \* where each session's Abort is
    sw,         \* [pc, all, todo, aged] of the cleanup task
    delivered,  \* the chunks handed over by a completion, or None
    faults,     \* failing file operations so far
    crashes     \* crashes so far

vars == <<sessions, pending, init, sess, open, temp, data, old, stale, wr, comp, ab, sw,
          delivered, faults, crashes>>
managerVars == <<sessions, pending>>
fileVars == <<open, temp, data, stale>>
boundVars == <<faults, crashes>>

Free == 0     \* the values of Session.received
Writing == 1
Done == 2

FreshSession == [received |-> [c \in Chunks |-> Free], done |-> FALSE, closed |-> FALSE, aborting |-> FALSE]
IdleWriter == [pc |-> "idle", s |-> None, c |-> None]

\* The first run of the task NewCleanupTask returns is the one at startup.
Startup == [pc |-> "startup", all |-> FALSE, todo |-> {}, aged |-> {}]
IdleSweep == [pc |-> "idle", all |-> FALSE, todo |-> {}, aged |-> {}]

Init ==
    /\ sessions = {}
    /\ pending = 0
    /\ init = [s \in Sessions |-> "none"]
    /\ sess = [s \in Sessions |-> FreshSession]
    /\ open = [s \in Sessions |-> FALSE]
    /\ temp = [s \in Sessions |-> FALSE]
    /\ data = [s \in Sessions |-> [c \in Chunks |-> "hole"]]
    /\ old = [s \in Sessions |-> FALSE]
    /\ stale = [s \in Sessions |-> FALSE]
    /\ wr = [w \in Writers |-> IdleWriter]
    /\ comp = [s \in Sessions |-> "no"]
    /\ ab = [s \in Sessions |-> "no"]
    /\ sw = Startup
    /\ delivered = [s \in Sessions |-> None]
    /\ faults = 0
    /\ crashes = 0

\* Manager.mu is free: no BeginSessionCompletion is under way.
MuFree == \A s \in Sessions : comp[s] # "check"

\* A file operation fails.
Fault == faults < MaxFaults /\ faults' = faults + 1 /\ UNCHANGED crashes

-----------------------------------------------------------------------------
(* CreateSession.                                                          *)

\* Mutant of UnderLimit: sessions that are being created are not counted.
UnderLimitRegistered == Cardinality(sessions) < MaxSessions

UnderLimit == Cardinality(sessions) + pending < MaxSessions

Reserve(s) ==
    /\ init[s] = "none"
    /\ MuFree
    /\ UnderLimit
    /\ pending' = pending + 1
    /\ init' = [init EXCEPT ![s] = "reserved"]
    /\ UNCHANGED <<sessions, sess, fileVars, old, wr, comp, ab, sw, delivered, boundVars>>

\* os.Create or os.CreateTemp.
CreateFile(s) ==
    /\ init[s] = "reserved"
    /\ init' = [init EXCEPT ![s] = "created"]
    /\ temp' = [temp EXCEPT ![s] = TRUE]
    /\ open' = [open EXCEPT ![s] = TRUE]
    /\ UNCHANGED <<managerVars, sess, data, old, stale, wr, comp, ab, sw, delivered, boundVars>>

\* Mutant of CreateFails: the error path gives the reservation back, and the
\* deferred function does it again.
CreateFailsTwice(s) ==
    /\ init[s] \in {"reserved", "created"}
    /\ MuFree
    /\ Fault
    /\ pending' = pending - 2
    /\ init' = [init EXCEPT ![s] = "gone"]
    /\ \E left \in BOOLEAN : temp' = [temp EXCEPT ![s] = @ /\ left]
    /\ open' = [open EXCEPT ![s] = FALSE]
    /\ UNCHANGED <<sessions, sess, data, old, stale, wr, comp, ab, sw, delivered>>

\* Creating the directory or the file fails, or Truncate does and the file is
\* removed, if that does not fail too; the deferred function gives the
\* reservation back.
CreateFails(s) ==
    /\ init[s] \in {"reserved", "created"}
    /\ MuFree
    /\ Fault
    /\ pending' = pending - 1
    /\ init' = [init EXCEPT ![s] = "gone"]
    /\ \E left \in BOOLEAN : temp' = [temp EXCEPT ![s] = @ /\ left]
    /\ open' = [open EXCEPT ![s] = FALSE]
    /\ UNCHANGED <<sessions, sess, data, old, stale, wr, comp, ab, sw, delivered>>

Register(s) ==
    /\ init[s] = "created"
    /\ MuFree
    /\ pending' = pending - 1
    /\ sessions' = sessions \union {s}
    /\ init' = [init EXCEPT ![s] = "live"]
    /\ UNCHANGED <<sess, fileVars, old, wr, comp, ab, sw, delivered, boundVars>>

-----------------------------------------------------------------------------
(* handlePutChunk: Manager.Get, then WriteChunk or WriteChunkBytes.        *)

At(w, pc) == wr[w].pc = pc
Goto(w, pc) == wr' = [wr EXCEPT ![w].pc = pc]
Return(w) == wr' = [wr EXCEPT ![w] = IdleWriter]

Get(w, s, c) ==
    /\ At(w, "idle")
    /\ MuFree
    /\ s \in sessions
    /\ c \in Parts[s]
    /\ wr' = [wr EXCEPT ![w] = [pc |-> "load", s |-> s, c |-> c]]
    /\ UNCHANGED <<managerVars, init, sess, fileVars, old, comp, ab, sw, delivered, boundVars>>

\* done.Load, before Session.mu is taken.
LoadDone(w) ==
    /\ At(w, "load")
    /\ IF sess[wr[w].s].done THEN Return(w) ELSE Goto(w, "claim")
    /\ UNCHANGED <<managerVars, init, sess, fileVars, old, comp, ab, sw, delivered, boundVars>>

\* claimChunk's conditions on the session and the chunk.
Claimable(s, c) == ~sess[s].closed /\ ~sess[s].aborting /\ sess[s].received[c] = Free

\* A chunk that is done is acknowledged again; any other refusal is an error.
ClaimChunk(w) ==
    LET s == wr[w].s  c == wr[w].c IN
    /\ At(w, "claim")
    /\ IF Claimable(s, c)
       THEN /\ sess' = [sess EXCEPT ![s].received[c] = Writing]
            /\ Goto(w, "write")
       ELSE Return(w) /\ UNCHANGED sess
    /\ UNCHANGED <<managerVars, init, fileVars, old, comp, ab, sw, delivered, boundVars>>

\* The Content-Length of the request is not that of the chunk.
RefuseChunk(w) ==
    /\ At(w, "claim")
    /\ Return(w)
    /\ UNCHANGED <<managerVars, init, sess, fileVars, old, comp, ab, sw, delivered, boundVars>>

\* The first bytes overwrite the range; a closed file refuses them.
BeginWrite(w) ==
    LET s == wr[w].s  c == wr[w].c IN
    /\ At(w, "write")
    /\ IF open[s]
       THEN /\ data' = [data EXCEPT ![s][c] = "torn"]
            /\ stale' = [stale EXCEPT ![s] = FALSE]
            /\ Goto(w, "writing")
       ELSE Goto(w, "short") /\ UNCHANGED <<data, stale>>
    /\ UNCHANGED <<managerVars, init, sess, open, temp, old, comp, ab, sw, delivered, boundVars>>

\* All bytes are written.  A write that has begun survives Close.
EndWrite(w) ==
    LET s == wr[w].s  c == wr[w].c IN
    /\ At(w, "writing")
    /\ data' = [data EXCEPT ![s][c] = "whole"]
    /\ stale' = [stale EXCEPT ![s] = FALSE]
    /\ Goto(w, "wrote")
    /\ UNCHANGED <<managerVars, init, sess, open, temp, old, comp, ab, sw, delivered, boundVars>>

\* The body ends early, the connection breaks or a write fails.
InterruptWrite(w) ==
    /\ At(w, "writing")
    /\ Goto(w, "short")
    /\ UNCHANGED <<managerVars, init, sess, fileVars, old, comp, ab, sw, delivered, boundVars>>

\* Mutant of ReleaseClaim: the error returns without giving the chunk back.
ReleaseNothing(w) ==
    /\ At(w, "short")
    /\ Return(w)
    /\ UNCHANGED <<managerVars, init, sess, fileVars, old, comp, ab, sw, delivered, boundVars>>

ReleaseClaim(w) ==
    LET s == wr[w].s  c == wr[w].c IN
    /\ At(w, "short")
    /\ sess' = [sess EXCEPT ![s].received[c] = IF @ = Writing THEN Free ELSE @]
    /\ Return(w)
    /\ UNCHANGED <<managerVars, init, fileVars, old, comp, ab, sw, delivered, boundVars>>

FinishChunk(w) ==
    LET s == wr[w].s  c == wr[w].c IN
    /\ At(w, "wrote")
    /\ sess' = [sess EXCEPT ![s].received[c] =
                    IF sess[s].closed \/ sess[s].aborting THEN Free ELSE Done]
    /\ Return(w)
    /\ UNCHANGED <<managerVars, init, fileVars, old, comp, ab, sw, delivered, boundVars>>

-----------------------------------------------------------------------------
(* Session.Abort, for the request or task that took the session.           *)

AbortClaim(s) ==
    /\ ab[s] = "called"
    /\ IF sess[s].aborting
       THEN ab' = [ab EXCEPT ![s] = "ended"] /\ UNCHANGED sess
       ELSE /\ sess' = [sess EXCEPT ![s].aborting = TRUE, ![s].closed = TRUE]
            /\ ab' = [ab EXCEPT ![s] = "remove"]
    /\ UNCHANGED <<managerVars, init, fileVars, old, wr, comp, sw, delivered, boundVars>>

\* file.Close and os.Remove, whose errors are dropped.
AbortRemove(s) ==
    /\ ab[s] = "remove"
    /\ open' = [open EXCEPT ![s] = FALSE]
    /\ \/ temp' = [temp EXCEPT ![s] = FALSE] /\ UNCHANGED boundVars
       \/ temp[s] /\ Fault /\ UNCHANGED temp
    /\ ab' = [ab EXCEPT ![s] = "store"]
    /\ UNCHANGED <<managerVars, init, sess, data, old, stale, wr, comp, sw, delivered>>

AbortStore(s) ==
    /\ ab[s] = "store"
    /\ sess' = [sess EXCEPT ![s].done = TRUE]
    /\ ab' = [ab EXCEPT ![s] = "ended"]
    /\ UNCHANGED <<managerVars, init, fileVars, old, wr, comp, sw, delivered, boundVars>>

\* handleAbort: AbortOwned takes the session out of the table, then aborts it.
AbortOwned(s) ==
    /\ MuFree
    /\ s \in sessions
    /\ sessions' = sessions \ {s}
    /\ ab' = [ab EXCEPT ![s] = "called"]
    /\ UNCHANGED <<pending, init, sess, fileVars, old, wr, comp, sw, delivered, boundVars>>

-----------------------------------------------------------------------------
(* handleComplete.                                                         *)

\* BeginSessionCompletion: the compare-and-swap on done, with Manager.mu held.
BeginCompletion(s) ==
    /\ MuFree
    /\ s \in sessions
    /\ ~sess[s].done
    /\ sess' = [sess EXCEPT ![s].done = TRUE]
    /\ comp' = [comp EXCEPT ![s] = "check"]
    /\ UNCHANGED <<managerVars, init, fileVars, old, wr, ab, sw, delivered, boundVars>>

\* Mutant of AllReceived: a chunk that is being written counts.
AllStarted(s) == \A c \in Parts[s] : sess[s].received[c] # Free

AllReceived(s) == \A c \in Parts[s] : sess[s].received[c] = Done

\* Mutant of Unfinished: the swap of done is not taken back.
UnfinishedForGood(s) ==
    /\ ~AllReceived(s) \/ sess[s].closed \/ sess[s].aborting
    /\ comp' = [comp EXCEPT ![s] = "no"]
    /\ UNCHANGED <<sessions, sess>>

\* errSessionFinished for a session that is closed, errChunksIncomplete else.
Unfinished(s) ==
    /\ ~AllReceived(s) \/ sess[s].closed \/ sess[s].aborting
    /\ sess' = [sess EXCEPT ![s].done = sess[s].closed \/ sess[s].aborting]
    /\ comp' = [comp EXCEPT ![s] = "no"]
    /\ UNCHANGED sessions

\* Mutant of TakeOver: the session stays in the table.
TakeOverShared(s) ==
    /\ AllReceived(s) /\ ~sess[s].closed /\ ~sess[s].aborting
    /\ comp' = [comp EXCEPT ![s] = "owned"]
    /\ UNCHANGED <<sessions, sess>>

TakeOver(s) ==
    /\ AllReceived(s) /\ ~sess[s].closed /\ ~sess[s].aborting
    /\ sessions' = sessions \ {s}
    /\ comp' = [comp EXCEPT ![s] = "owned"]
    /\ UNCHANGED sess

\* The rest of BeginSessionCompletion, under Session.mu; Manager.mu is released.
CheckComplete(s) ==
    /\ comp[s] = "check"
    /\ Unfinished(s) \/ TakeOver(s)
    /\ UNCHANGED <<pending, init, fileVars, old, wr, ab, sw, delivered, boundVars>>

\* The completion gives up and aborts the session.
GiveUp(s) ==
    /\ comp' = [comp EXCEPT ![s] = "over"]
    /\ ab' = [ab EXCEPT ![s] = IF @ = "no" THEN "called" ELSE @]

CloseFile(s) ==
    /\ comp[s] = "owned"
    /\ open' = [open EXCEPT ![s] = FALSE]
    /\ \/ comp' = [comp EXCEPT ![s] = "deliver"] /\ UNCHANGED <<ab, boundVars>>
       \/ Fault /\ GiveUp(s)
    /\ UNCHANGED <<managerVars, init, sess, temp, data, old, stale, wr, sw, delivered>>

\* The repository is gone, the user may not publish or install, the file exists,
\* the disk is full, another installation runs, or the file cannot be processed:
\* an error before the file is moved.
Reject(s) ==
    /\ comp[s] = "deliver"
    /\ GiveUp(s)
    /\ UNCHANGED <<managerVars, init, sess, fileVars, old, wr, sw, delivered, boundVars>>

\* completeStorage: ProcessUploadedFile moves the file.
DeliverStorage(s) ==
    /\ comp[s] = "deliver" /\ s \notin Updates
    /\ temp[s]
    /\ temp' = [temp EXCEPT ![s] = FALSE]
    /\ delivered' = [delivered EXCEPT ![s] = data[s]]
    /\ comp' = [comp EXCEPT ![s] = "mark"]
    /\ UNCHANGED <<managerVars, init, sess, open, data, old, stale, wr, ab, sw, boundVars>>

\* ProcessUploadedFile fails after the move: companions or superseded snapshots
\* cannot be removed, the publication cannot be recorded, or checksums cannot be
\* saved, after which the file is deleted again, if that does not fail too.  The
\* session is aborted and the client is told of a failure, wherever the file is.
DeliveryFails(s) ==
    /\ comp[s] = "deliver" /\ s \notin Updates
    /\ temp[s]
    /\ Fault
    /\ temp' = [temp EXCEPT ![s] = FALSE]
    /\ delivered' \in {delivered, [delivered EXCEPT ![s] = data[s]]}
    /\ GiveUp(s)
    /\ UNCHANGED <<managerVars, init, sess, open, data, old, stale, wr, sw>>

\* completeUpdater: the executable is extracted, or that fails.
ExtractPackage(s) ==
    /\ comp[s] = "deliver" /\ s \in Updates
    /\ \/ temp[s] /\ delivered' = [delivered EXCEPT ![s] = data[s]]
       \/ UNCHANGED delivered
    /\ comp' = [comp EXCEPT ![s] = "remove"]
    /\ UNCHANGED <<managerVars, init, sess, fileVars, old, wr, ab, sw, boundVars>>

\* os.Remove of the package, whose error is dropped.
RemovePackage(s) ==
    /\ comp[s] = "remove"
    /\ \/ temp' = [temp EXCEPT ![s] = FALSE] /\ UNCHANGED boundVars
       \/ temp[s] /\ Fault /\ UNCHANGED temp
    /\ comp' = [comp EXCEPT ![s] = "mark"]
    /\ UNCHANGED <<managerVars, init, sess, open, data, old, stale, wr, ab, sw, delivered>>

MarkCompleted(s) ==
    /\ comp[s] = "mark"
    /\ sess' = [sess EXCEPT ![s].closed = TRUE, ![s].done = TRUE]
    /\ open' = [open EXCEPT ![s] = FALSE]
    /\ comp' = [comp EXCEPT ![s] = "over"]
    /\ UNCHANGED <<managerVars, init, temp, data, old, stale, wr, ab, sw, delivered, boundVars>>

-----------------------------------------------------------------------------
(* The cleanup task.  The scheduler never runs it twice at a time.         *)

\* CleanupExpired: sessions past their time leave the table.
CleanupExpired ==
    LET expired == {s \in sessions : old[s]} IN
    /\ sw.pc = "idle"
    /\ MuFree
    /\ sessions' = sessions \ expired
    /\ sw' = [sw EXCEPT !.pc = "abort", !.todo = expired]
    /\ UNCHANGED <<pending, init, sess, fileVars, old, wr, comp, ab, delivered, boundVars>>

\* They are aborted one after the other.
AbortExpired(s) ==
    /\ sw.pc = "abort"
    /\ s \in sw.todo
    /\ \A t \in sw.todo : ab[t] = "no"
    /\ ab' = [ab EXCEPT ![s] = "called"]
    /\ UNCHANGED <<managerVars, init, sess, fileVars, old, wr, comp, sw, delivered, boundVars>>

ExpiredAborted(s) ==
    /\ sw.pc = "abort"
    /\ s \in sw.todo
    /\ ab[s] = "ended"
    /\ sw' = [sw EXCEPT !.todo = @ \ {s}]
    /\ UNCHANGED <<managerVars, init, sess, fileVars, old, wr, comp, ab, delivered, boundVars>>

\* CleanupOrphanPartials and CleanupStaleOSTempUploads read the clock once and
\* walk the files.  At startup files of any age go.
StartWalk ==
    /\ sw.pc = "startup" \/ (sw.pc = "abort" /\ sw.todo = {})
    /\ sw' = [pc |-> "walk", all |-> sw.pc = "startup",
              todo |-> {s \in Sessions : temp[s]}, aged |-> {s \in Sessions : stale[s]}]
    /\ UNCHANGED <<managerVars, init, sess, fileVars, old, wr, comp, ab, delivered, boundVars>>

\* Mutant of Orphan: the walk leaves files alone whose session it does not know.
OrphanKnown(s) == init[s] = "live" /\ (sw.all \/ (s \in sw.aged /\ stale[s]))

\* The file's time is read when the walk comes to it.
Orphan(s) == sw.all \/ (s \in sw.aged /\ stale[s])

\* A file that exists when the walk starts is visited; a newer one may be.
VisitPartial(s) ==
    /\ sw.pc = "walk"
    /\ temp[s] \/ s \in sw.todo
    /\ \/ Orphan(s) /\ temp' = [temp EXCEPT ![s] = FALSE] /\ UNCHANGED boundVars
       \/ Orphan(s) /\ temp[s] /\ Fault /\ UNCHANGED temp
       \/ ~Orphan(s) /\ UNCHANGED <<temp, boundVars>>
    /\ sw' = [sw EXCEPT !.todo = @ \ {s}]
    /\ UNCHANGED <<managerVars, init, sess, open, data, old, stale, wr, comp, ab, delivered>>

EndWalk ==
    /\ sw.pc = "walk"
    /\ sw.todo = {}
    /\ sw' = IdleSweep
    /\ UNCHANGED <<managerVars, init, sess, fileVars, old, wr, comp, ab, delivered, boundVars>>

-----------------------------------------------------------------------------
(* Time and crashes.                                                       *)

\* SessionTTL passes since the session was created.
Expire(s) ==
    /\ s \in sessions
    /\ ~old[s]
    /\ old' = [old EXCEPT ![s] = TRUE]
    /\ UNCHANGED <<managerVars, init, sess, fileVars, wr, comp, ab, sw, delivered, boundVars>>

\* SessionTTL passes since the last write of the file, and so since the session
\* was created: its file is sized at that instant.
AgeFile(s) ==
    /\ temp[s]
    /\ ~stale[s]
    /\ stale' = [stale EXCEPT ![s] = TRUE]
    /\ old' = [old EXCEPT ![s] = init[s] = "live"]
    /\ UNCHANGED <<managerVars, init, sess, open, temp, data, wr, comp, ab, sw, delivered, boundVars>>

\* Only files outlive the process, whose contents nobody reads again; the next
\* one starts with the startup cleanup.
Crash ==
    /\ crashes < MaxCrashes
    /\ crashes' = crashes + 1
    /\ sessions' = {}
    /\ pending' = 0
    /\ init' = [s \in Sessions |-> IF init[s] = "none" THEN "none" ELSE "gone"]
    /\ sess' = [s \in Sessions |-> FreshSession]
    /\ open' = [s \in Sessions |-> FALSE]
    /\ wr' = [w \in Writers |-> IdleWriter]
    /\ comp' = [s \in Sessions |-> "no"]
    /\ ab' = [s \in Sessions |-> "no"]
    /\ sw' = Startup
    /\ data' = [s \in Sessions |-> [c \in Chunks |-> "hole"]]
    /\ old' = [s \in Sessions |-> FALSE]
    /\ UNCHANGED <<temp, stale, delivered, faults>>

-----------------------------------------------------------------------------
CreateNext(s) == Reserve(s) \/ CreateFile(s) \/ CreateFails(s) \/ Register(s)

WriterNext(w) ==
    \/ \E s \in Sessions, c \in Chunks : Get(w, s, c)
    \/ LoadDone(w) \/ ClaimChunk(w) \/ RefuseChunk(w) \/ BeginWrite(w) \/ EndWrite(w)
    \/ InterruptWrite(w) \/ ReleaseClaim(w) \/ FinishChunk(w)

AbortNext(s) == AbortClaim(s) \/ AbortRemove(s) \/ AbortStore(s)

FinalizeNext(s) ==
    \/ CheckComplete(s) \/ CloseFile(s) \/ Reject(s) \/ DeliverStorage(s)
    \/ DeliveryFails(s) \/ ExtractPackage(s) \/ RemovePackage(s) \/ MarkCompleted(s)

SweepNext ==
    \/ CleanupExpired \/ StartWalk \/ EndWalk
    \/ \E s \in Sessions : AbortExpired(s) \/ ExpiredAborted(s) \/ VisitPartial(s)

Next ==
    \/ \E s \in Sessions :
         \/ CreateNext(s) \/ AbortNext(s) \/ FinalizeNext(s)
         \/ BeginCompletion(s) \/ AbortOwned(s) \/ Expire(s) \/ AgeFile(s)
    \/ \E w \in Writers : WriterNext(w)
    \/ SweepNext
    \/ Crash

Spec == Init /\ [][Next]_vars

\* Goroutines that can run are run, the scheduler goes on calling the task, and
\* time passes.  The task gets Manager.mu although completions keep coming
\* (sync.Mutex serves whoever has waited a millisecond): strong fairness.  The
\* clients are not assumed to do anything, nor is a write assumed to end.
FairSpec ==
    /\ Spec
    /\ SF_vars(CleanupExpired)
    /\ WF_vars(StartWalk) /\ WF_vars(EndWalk)
    /\ \A s \in Sessions :
         /\ WF_vars(AbortNext(s)) /\ WF_vars(FinalizeNext(s))
         /\ WF_vars(AbortExpired(s)) /\ WF_vars(ExpiredAborted(s))
         /\ WF_vars(s \in sw.todo /\ VisitPartial(s))
         /\ WF_vars(Expire(s)) /\ WF_vars(AgeFile(s))

-----------------------------------------------------------------------------
(* Properties.                                                             *)

SessionRecords == [received : [Chunks -> {Free, Writing, Done}],
                   done : BOOLEAN, closed : BOOLEAN, aborting : BOOLEAN]
WriterRecords == [pc : {"idle", "load", "claim", "write", "writing", "wrote", "short"},
                  s : Sessions \union {None}, c : Chunks \union {None}]
SweepRecords == [pc : {"startup", "idle", "abort", "walk"}, all : BOOLEAN,
                 todo : SUBSET Sessions, aged : SUBSET Sessions]

\* The values every variable ranges over.
TypeOK ==
    /\ sessions \in SUBSET Sessions
    /\ pending \in Nat
    /\ init \in [Sessions -> {"none", "reserved", "created", "live", "gone"}]
    /\ sess \in [Sessions -> SessionRecords]
    /\ open \in [Sessions -> BOOLEAN]
    /\ temp \in [Sessions -> BOOLEAN]
    /\ data \in [Sessions -> ChunkData]
    /\ old \in [Sessions -> BOOLEAN]
    /\ stale \in [Sessions -> BOOLEAN]
    /\ wr \in [Writers -> WriterRecords]
    /\ comp \in [Sessions -> {"no", "check", "owned", "deliver", "remove", "mark", "over"}]
    /\ ab \in [Sessions -> {"no", "called", "remove", "store", "ended"}]
    /\ sw \in SweepRecords
    /\ delivered \in [Sessions -> ChunkData \union {None}]
    /\ faults \in Nat
    /\ crashes \in Nat

\* A completion hands over a file whose every chunk was written to the end and
\* that nobody writes any more, however writes, interrupted retries and repeated
\* completions interleave (claimChunk, finishChunk, BeginCompletion).
DeliveredWhole ==
    \A s \in Sessions : delivered[s] # None => \A c \in Parts[s] : delivered[s][c] = "whole"

\* A session has one owner: the table, the completion that took it out, or the
\* cancellation or expiry that did.  A completion keeps its session, and nothing
\* is handed over of a session that is in the table or that its client or its
\* expiry has ended (BeginSessionCompletion, AbortOwned, CleanupExpired).  Only a
\* completion that fails after it moved the file aborts a session that was handed
\* over (DeliveryFails; README, section 7).
OneOwner ==
    \A s \in Sessions :
        /\ comp[s] \in {"owned", "deliver", "remove", "mark"} => s \notin sessions /\ ab[s] = "no"
        /\ ab[s] # "no" => s \notin sessions
        /\ s \in sessions \/ (ab[s] # "no" /\ comp[s] # "over") => delivered[s] = None

\* Sessions inside CreateSession that have passed the limit.
Creating == {s \in Sessions : init[s] \in {"reserved", "created"}}

\* The table and the sessions being created stay within MaxSessions, and every
\* reservation belongs to a session being created (CreateSession).
LimitKept ==
    /\ pending = Cardinality(Creating)
    /\ Cardinality(sessions \union Creating) <= MaxSessions

\* A session in the table can be used: a completion that came too early has
\* taken its mark back ("the caller may retry after it finishes"), and nobody
\* has closed its file.
RetryPossible ==
    \A s \in sessions :
        /\ open[s] /\ ~sess[s].closed /\ ~sess[s].aborting
        /\ sess[s].done => comp[s] = "check"

\* Requests between claimChunk and the return of the chunk.
Busy(w) == wr[w].pc \in {"write", "writing", "wrote", "short"}
Holders(s, c) == {w \in Writers : Busy(w) /\ wr[w].s = s /\ wr[w].c = c}

\* A chunk marked as being written is being written, by one request: a failed
\* write cannot leave a mark that bars every retry (releaseClaim, finishChunk).
ClaimsHeld ==
    \A s \in Sessions, c \in Chunks :
        Cardinality(Holders(s, c)) = IF sess[s].received[c] = Writing THEN 1 ELSE 0

\* Every temporary file goes away: it is handed over, removed with its session,
\* or swept after failed removals and crashes.
TempsVanish == \A s \in Sessions : temp[s] ~> ~temp[s]

\* Where the session's promise stands: open while it is in the table, closing
\* while a completion owns it.
Phase(s) ==
    CASE init[s] \in {"none", "reserved", "created"} -> "none"
      [] s \in sessions -> "open"
      [] comp[s] \in {"owned", "deliver"} -> "closing"
      [] OTHER -> "over"

Stored(s) ==
    IF Phase(s) \in {"open", "closing"}
    THEN {c \in Parts[s] : sess[s].received[c] = Done /\ data[s][c] = "whole"}
    ELSE {}

Abstract == INSTANCE UploadSession WITH
    phase <- [s \in Sessions |-> Phase(s)],
    stored <- [s \in Sessions |-> Stored(s)],
    published <- [s \in Sessions |->
                    delivered[s] # None /\ \A c \in Parts[s] : delivered[s][c] = "whole"]

\* The session manager keeps the promise of UploadSession, whatever requests,
\* expiry, failing file operations and crashes do: a chunk counts as stored only
\* with its bytes in the file and stays so while the session is open, and a file
\* is published whole or not at all (CreateSession, WriteChunk, Abort,
\* BeginSessionCompletion, MarkCompleted).
KeepsPromise == Abstract!SessionSpec

\* While a session is finalised nobody else removes its temporary file (what
\* BeginSessionCompletion is for, and NewCleanupTask: "abandoned temporary
\* files").
\* The code does not keep this: see the README, section 7.
FinalizedKeepsTemp ==
    [][\A s \in Sessions :
         comp[s] \in {"owned", "deliver"} /\ temp[s] /\ ~temp'[s] => comp'[s] # comp[s]]_vars
=============================================================================
