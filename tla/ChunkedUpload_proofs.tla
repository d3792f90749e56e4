------------------------ MODULE ChunkedUpload_proofs ------------------------
(***************************************************************************)
(* ChunkedUpload for any number of sessions, chunks and requests and every *)
(* limit: its types, every safety invariant the runs check, and that it    *)
(* implements UploadSession.                                               *)
(***************************************************************************)
EXTENDS ChunkedUpload, FiniteSetTheorems, TLAPS

Taken == {"owned", "deliver", "remove", "mark"}

\* Sessions CleanupExpired has taken out of the table and is to abort.
Expired == IF sw.pc = "abort" THEN sw.todo ELSE {}

\* Who owns a session, from its reservation to its end.
OwnerInv == \A s \in Sessions :
    /\ init[s] \in {"none", "reserved", "created"} =>
         s \notin sessions /\ comp[s] = "no" /\ ab[s] = "no" /\ s \notin Expired /\ delivered[s] = None
    /\ s \in sessions =>
         init[s] = "live" /\ comp[s] \in {"no", "check"} /\ ab[s] = "no" /\ s \notin Expired
         /\ delivered[s] = None
    /\ comp[s] = "check" => s \in sessions
    /\ comp[s] \in Taken => s \notin sessions /\ ab[s] = "no" /\ s \notin Expired
    /\ comp[s] \in {"owned", "deliver"} => delivered[s] = None
    /\ s \in Expired => comp[s] = "no" /\ delivered[s] = None
    /\ ab[s] # "no" => /\ s \notin sessions /\ comp[s] \in {"no", "over"}
                       /\ comp[s] = "no" => delivered[s] = None

\* The session of a file that was just created is fresh, one in the table usable.
UsableInv == \A s \in Sessions :
    /\ init[s] \in {"none", "reserved", "created"} => sess[s] = FreshSession
    /\ init[s] = "created" => open[s]
    /\ s \in sessions => open[s] /\ ~sess[s].closed /\ ~sess[s].aborting
                         /\ (sess[s].done => comp[s] = "check")

\* A request at work has a chunk of a session that exists.
PlaceInv == \A w \in Writers : wr[w].pc # "idle" =>
    wr[w].s \in Sessions /\ wr[w].c \in Parts[wr[w].s] /\ init[wr[w].s] = "live"

\* From the claim on the chunk is marked, and it is that request's alone.
MarkInv == \A w \in Writers : Busy(w) => sess[wr[w].s].received[wr[w].c] = Writing
SoleInv == \A v, w \in Writers : Busy(v) /\ Busy(w) /\ wr[v].s = wr[w].s /\ wr[v].c = wr[w].c => v = w
HeldInv == \A s \in Sessions, c \in Chunks : sess[s].received[c] = Writing =>
    \E w \in Writers : Busy(w) /\ wr[w].s = s /\ wr[w].c = c

ClaimInv == PlaceInv /\ MarkInv /\ SoleInv /\ HeldInv

\* Marks and contents agree: a finished write and a chunk marked as done are
\* whole, and a session that was taken over is complete.
WroteInv == \A w \in Writers : wr[w].pc = "wrote" => data[wr[w].s][wr[w].c] = "whole"
DoneInv == \A s \in Sessions, c \in Chunks : sess[s].received[c] = Done => data[s][c] = "whole"
TakenInv == \A s \in Sessions : comp[s] \in Taken => AllReceived(s)

WholeInv == WroteInv /\ DoneInv /\ TakenInv /\ DeliveredWhole

IInv == TypeOK /\ OwnerInv /\ LimitKept /\ UsableInv /\ ClaimInv /\ WholeInv

-----------------------------------------------------------------------------
(* The limit.                                                              *)

\* A step keeps the count of reservations and the limit.
LEMMA LimitStep == TypeOK /\ OwnerInv /\ LimitKept /\ [Next]_vars => LimitKept'
<1> SUFFICES ASSUME TypeOK, OwnerInv, LimitKept, [Next]_vars PROVE LimitKept'
  OBVIOUS
<1> USE SessionsAssumption, BoundAssumption DEF managerVars, boundVars
<1>1. IsFiniteSet(sessions) /\ IsFiniteSet(Creating) /\ IsFiniteSet(sessions \union Creating)
  <2>1. sessions \in SUBSET Sessions /\ Creating \in SUBSET Sessions
        /\ sessions \union Creating \in SUBSET Sessions
    BY DEF TypeOK, Creating
  <2> QED BY <2>1, FS_Subset
<1>2. Cardinality(Creating) \in Nat /\ Cardinality(sessions) \in Nat
      /\ Cardinality(sessions \union Creating) \in Nat
  BY <1>1, FS_CardinalityType
<1>3. ASSUME sessions' \subseteq sessions, pending' = pending, Creating' = Creating
      PROVE  LimitKept'
  <2>1. sessions' \union Creating \in SUBSET (sessions \union Creating)
    BY <1>3
  <2>2. Cardinality(sessions' \union Creating) <= Cardinality(sessions \union Creating)
        /\ Cardinality(sessions' \union Creating) \in Nat
    BY <2>1, <1>1, FS_Subset, FS_CardinalityType
  <2> QED BY <1>2, <1>3, <2>2 DEF LimitKept
<1>4. ASSUME NEW s \in Sessions, Reserve(s) PROVE LimitKept'
  <2>1. Creating' = Creating \union {s} /\ s \notin Creating /\ sessions' = sessions
    BY <1>4 DEF Reserve, Creating, TypeOK
  <2>2. Cardinality(Creating') = pending + 1 /\ IsFiniteSet(Creating')
    BY <2>1, <1>1, FS_AddElement DEF LimitKept
  <2>3. sessions \intersect Creating' = {}
    BY <1>4, <2>1 DEF OwnerInv, Reserve, Creating
  <2>4. Cardinality(sessions \union Creating') = Cardinality(sessions) + (pending + 1)
    <3>1. Cardinality(sessions \union Creating') =
            Cardinality(sessions) + Cardinality(Creating') - Cardinality(sessions \intersect Creating')
      BY <2>2, <1>1, FS_Union
    <3>2. Cardinality(sessions \intersect Creating') = 0
      BY <2>3, FS_EmptySet
    <3> QED BY <3>1, <3>2, <2>2, <1>2 DEF TypeOK
  <2>5. Cardinality(sessions) + pending < MaxSessions /\ pending' = pending + 1
    BY <1>4 DEF Reserve, UnderLimit
  <2> QED BY <2>1, <2>2, <2>4, <2>5, <1>2 DEF LimitKept, TypeOK
<1>5. ASSUME NEW s \in Sessions, CreateFails(s) PROVE LimitKept'
  <2>1. Creating' = Creating \ {s} /\ s \in Creating /\ sessions' = sessions /\ pending' = pending - 1
    BY <1>5 DEF CreateFails, Creating, TypeOK
  <2>2. Cardinality(Creating') = pending - 1
    BY <2>1, <1>1, FS_RemoveElement DEF LimitKept
  <2>3. sessions' \union Creating' \in SUBSET (sessions \union Creating)
    BY <2>1
  <2>4. Cardinality(sessions' \union Creating') <= Cardinality(sessions \union Creating)
        /\ Cardinality(sessions' \union Creating') \in Nat
    BY <2>3, <1>1, FS_Subset, FS_CardinalityType
  <2> QED BY <2>1, <2>2, <2>4, <1>2 DEF LimitKept
<1>6. ASSUME NEW s \in Sessions, Register(s) PROVE LimitKept'
  <2>1. Creating' = Creating \ {s} /\ s \in Creating /\ sessions' = sessions \union {s} /\ pending' = pending - 1
    BY <1>6 DEF Register, Creating, TypeOK
  <2>2. Cardinality(Creating') = pending - 1
    BY <2>1, <1>1, FS_RemoveElement DEF LimitKept
  <2>3. sessions' \union Creating' = sessions \union Creating
    BY <2>1
  <2> QED BY <2>1, <2>2, <2>3 DEF LimitKept
<1>7. CASE Crash
  <2>1. Creating' = {} /\ sessions' = {} /\ pending' = 0
    BY <1>7 DEF Crash, Creating, TypeOK
  <2>2. sessions' \union Creating' = {}
    BY <2>1
  <2> QED BY <2>1, <2>2, FS_EmptySet DEF LimitKept
<1>8. ASSUME NEW s \in Sessions, CreateFile(s) PROVE LimitKept'
  BY <1>8, <1>3 DEF CreateFile, Creating, TypeOK
<1>9. ASSUME NEW s \in Sessions, AbortOwned(s) \/ CheckComplete(s) PROVE LimitKept'
  <2>1. sessions' \subseteq sessions /\ UNCHANGED <<pending, init>>
    BY <1>9 DEF AbortOwned, CheckComplete, Unfinished, TakeOver
  <2> QED BY <2>1, <1>3 DEF Creating
<1>10. CASE CleanupExpired
  BY <1>10, <1>3 DEF CleanupExpired, Creating
<1>11. CASE UNCHANGED <<sessions, pending, init>>
  BY <1>11, <1>3 DEF Creating
<1>12. ASSUME NEW s \in Sessions,
              AbortNext(s) \/ BeginCompletion(s) \/ CloseFile(s) \/ Reject(s) \/ DeliverStorage(s)
              \/ DeliveryFails(s) \/ ExtractPackage(s) \/ RemovePackage(s) \/ MarkCompleted(s) \/ Expire(s) \/ AgeFile(s)
              \/ AbortExpired(s) \/ ExpiredAborted(s) \/ VisitPartial(s)
       PROVE  UNCHANGED <<sessions, pending, init>>
  BY <1>12 DEF AbortNext, AbortClaim, AbortRemove, AbortStore, BeginCompletion, CloseFile, Reject,
       GiveUp, DeliverStorage, DeliveryFails, ExtractPackage, RemovePackage, MarkCompleted, Expire, AgeFile,
       AbortExpired, ExpiredAborted, VisitPartial
<1>13. ASSUME NEW w \in Writers, WriterNext(w) PROVE UNCHANGED <<sessions, pending, init>>
  BY <1>13 DEF WriterNext, Get, LoadDone, ClaimChunk, RefuseChunk, BeginWrite, EndWrite,
       InterruptWrite, ReleaseClaim, FinishChunk
<1>14. CASE StartWalk \/ EndWalk
  BY <1>14, <1>11 DEF StartWalk, EndWalk
<1>15. CASE UNCHANGED vars
  BY <1>15, <1>11 DEF vars
<1> QED
  BY <1>4, <1>5, <1>6, <1>7, <1>8, <1>9, <1>10, <1>11, <1>12, <1>13, <1>14, <1>15
  DEF Next, CreateNext, FinalizeNext, SweepNext

-----------------------------------------------------------------------------
(* Types.                                                                 *)

\* Assignments to the fields of one session or one chunk keep the types.
LEMMA ReceivedUpdate ==
    ASSUME NEW f \in [Sessions -> SessionRecords], NEW s \in Sessions, NEW c \in Chunks,
           NEW v \in {Free, Writing, Done}
    PROVE  [f EXCEPT ![s].received[c] = v] \in [Sessions -> SessionRecords]
<1> DEFINE g == [f[s].received EXCEPT ![c] = v]
<1>1. f[s] \in SessionRecords /\ f[s].received \in [Chunks -> {Free, Writing, Done}]
  BY DEF SessionRecords
<1>2. g \in [Chunks -> {Free, Writing, Done}]
  BY <1>1
<1>3. [f EXCEPT ![s].received[c] = v] = [f EXCEPT ![s] = [f[s] EXCEPT !.received = g]]
  OBVIOUS
<1> HIDE DEF g
<1>4. [f[s] EXCEPT !.received = g] \in SessionRecords
  BY <1>1, <1>2 DEF SessionRecords
<1> QED BY <1>3, <1>4

\* The same for a range of a temporary file.
LEMMA DataUpdate ==
    ASSUME NEW f \in [Sessions -> ChunkData], NEW s \in Sessions, NEW c \in Chunks,
           NEW v \in {"hole", "torn", "whole"}
    PROVE  [f EXCEPT ![s][c] = v] \in [Sessions -> ChunkData]
<1>1. [f[s] EXCEPT ![c] = v] \in ChunkData
  BY DEF ChunkData
<1>2. [f EXCEPT ![s][c] = v] = [f EXCEPT ![s] = [f[s] EXCEPT ![c] = v]]
  OBVIOUS
<1> QED BY <1>1, <1>2

\* The same for the flags Abort sets.
LEMMA AbortUpdate ==
    ASSUME NEW f \in [Sessions -> SessionRecords], NEW s \in Sessions
    PROVE  [f EXCEPT ![s].aborting = TRUE, ![s].closed = TRUE] \in [Sessions -> SessionRecords]
<1>1. f[s] \in SessionRecords
  OBVIOUS
<1>2. [f[s] EXCEPT !.aborting = TRUE, !.closed = TRUE] \in SessionRecords
  BY <1>1 DEF SessionRecords
<1>3. [f EXCEPT ![s].aborting = TRUE, ![s].closed = TRUE]
         = [f EXCEPT ![s] = [f[s] EXCEPT !.aborting = TRUE, !.closed = TRUE]]
  OBVIOUS
<1> QED BY <1>2, <1>3

\* The sessions being created are as many as there are reservations.
LEMMA PendingPositive ==
    ASSUME LimitKept, TypeOK, NEW s \in Creating
    PROVE  pending - 1 \in Nat
<1>1. IsFiniteSet(Creating)
  <2>1. Creating \in SUBSET Sessions
    BY DEF Creating
  <2> QED BY <2>1, SessionsAssumption, FS_Subset
<1>2. Cardinality(Creating \ {s}) \in Nat
  BY <1>1, FS_RemoveElement, FS_CardinalityType
<1>3. Cardinality(Creating \ {s}) = Cardinality(Creating) - 1
  BY <1>1, FS_RemoveElement
<1> QED BY <1>2, <1>3 DEF LimitKept

\* A step keeps the types.
LEMMA TypeStep == TypeOK /\ LimitKept /\ ClaimInv /\ [Next]_vars => TypeOK'
<1> SUFFICES ASSUME TypeOK, LimitKept, ClaimInv, [Next]_vars PROVE TypeOK'
  OBVIOUS
<1> USE PartsAssumption, NoneAssumption DEF managerVars, fileVars, boundVars
<1>0. /\ sess \in [Sessions -> SessionRecords] /\ wr \in [Writers -> WriterRecords]
      /\ data \in [Sessions -> ChunkData] /\ sw \in SweepRecords
  BY DEF TypeOK
<1>s. sess \in [Sessions -> SessionRecords]
  BY <1>0
<1>1. ASSUME NEW s \in Sessions, Reserve(s) PROVE TypeOK'
  BY <1>1 DEF Reserve, TypeOK
<1>2. ASSUME NEW s \in Sessions, CreateFile(s) PROVE TypeOK'
  BY <1>2 DEF CreateFile, TypeOK
<1>3. ASSUME NEW s \in Sessions, CreateFails(s) PROVE TypeOK'
  <2>1. pending - 1 \in Nat
    BY <1>3, PendingPositive DEF CreateFails, Creating
  <2>2. PICK left \in BOOLEAN : temp' = [temp EXCEPT ![s] = temp[s] /\ left]
    BY <1>3 DEF CreateFails
  <2>3. temp' \in [Sessions -> BOOLEAN]
    BY <2>2 DEF TypeOK
  <2> QED BY <1>3, <2>1, <2>3 DEF CreateFails, Fault, TypeOK
<1>4. ASSUME NEW s \in Sessions, Register(s) PROVE TypeOK'
  <2>1. pending - 1 \in Nat
    BY <1>4, PendingPositive DEF Register, Creating
  <2> QED BY <1>4, <2>1 DEF Register, TypeOK
<1>5. ASSUME NEW s \in Sessions, AbortClaim(s) PROVE TypeOK'
  <2>1. sess' = sess \/ sess' = [sess EXCEPT ![s].aborting = TRUE, ![s].closed = TRUE]
    BY <1>5 DEF AbortClaim
  <2>2. sess' \in [Sessions -> SessionRecords]
    BY <2>1, <1>s, AbortUpdate
  <2> QED BY <1>5, <2>2 DEF AbortClaim, TypeOK
<1>6. ASSUME NEW s \in Sessions, AbortRemove(s) PROVE TypeOK'
  <2>1. temp' \in [Sessions -> BOOLEAN] /\ faults' \in Nat /\ crashes' \in Nat
    <3>1. temp' = temp \/ temp' = [temp EXCEPT ![s] = FALSE]
      BY <1>6 DEF AbortRemove
    <3>2. faults' \in Nat /\ crashes' \in Nat
      BY <1>6 DEF AbortRemove, Fault, TypeOK
    <3> QED BY <3>1, <3>2 DEF TypeOK
  <2> QED BY <1>6, <2>1 DEF AbortRemove, TypeOK
<1>7. ASSUME NEW s \in Sessions, AbortStore(s) PROVE TypeOK'
  <2>1. sess' = [sess EXCEPT ![s].done = TRUE]
    BY <1>7 DEF AbortStore
  <2>2. sess' \in [Sessions -> SessionRecords]
    BY <2>1, <1>s DEF SessionRecords
  <2> QED BY <1>7, <2>2 DEF AbortStore, TypeOK
<1>8. ASSUME NEW s \in Sessions, AbortOwned(s) PROVE TypeOK'
  BY <1>8 DEF AbortOwned, TypeOK
<1>9. ASSUME NEW s \in Sessions, BeginCompletion(s) PROVE TypeOK'
  <2>1. sess' = [sess EXCEPT ![s].done = TRUE]
    BY <1>9 DEF BeginCompletion
  <2>2. sess' \in [Sessions -> SessionRecords]
    BY <2>1, <1>s DEF SessionRecords
  <2> QED BY <1>9, <2>2 DEF BeginCompletion, TypeOK
<1>10. ASSUME NEW s \in Sessions, CheckComplete(s) PROVE TypeOK'
  <2>1. sess' = sess \/ sess' = [sess EXCEPT ![s].done = sess[s].closed \/ sess[s].aborting]
    BY <1>10 DEF CheckComplete, Unfinished, TakeOver
  <2>2. sess' \in [Sessions -> SessionRecords]
    BY <2>1, <1>s DEF SessionRecords
  <2>3. sessions' \in SUBSET Sessions
    BY <1>10 DEF CheckComplete, Unfinished, TakeOver, TypeOK
  <2>4. comp' \in [Sessions -> {"no", "check", "owned", "deliver", "remove", "mark", "over"}]
    BY <1>10 DEF CheckComplete, Unfinished, TakeOver, TypeOK
  <2> QED BY <1>10, <2>2, <2>3, <2>4 DEF CheckComplete, TypeOK
<1>11. ASSUME NEW s \in Sessions, CloseFile(s) PROVE TypeOK'
  <2>1. faults' \in Nat /\ crashes' \in Nat
    BY <1>11 DEF CloseFile, Fault, TypeOK
  <2>2. comp' \in [Sessions -> {"no", "check", "owned", "deliver", "remove", "mark", "over"}]
        /\ ab' \in [Sessions -> {"no", "called", "remove", "store", "ended"}]
    BY <1>11 DEF CloseFile, GiveUp, TypeOK
  <2> QED BY <1>11, <2>1, <2>2 DEF CloseFile, TypeOK
<1>12. ASSUME NEW s \in Sessions, Reject(s) PROVE TypeOK'
  BY <1>12 DEF Reject, GiveUp, TypeOK
<1>13. ASSUME NEW s \in Sessions, DeliverStorage(s) PROVE TypeOK'
  BY <1>13 DEF DeliverStorage, TypeOK
<1>13a. ASSUME NEW s \in Sessions, DeliveryFails(s) PROVE TypeOK'
  <2>1. delivered' \in [Sessions -> ChunkData \union {None}]
    BY <1>13a DEF DeliveryFails, TypeOK
  <2>2. /\ comp' \in [Sessions -> {"no", "check", "owned", "deliver", "remove", "mark", "over"}]
        /\ ab' \in [Sessions -> {"no", "called", "remove", "store", "ended"}]
    BY <1>13a DEF DeliveryFails, GiveUp, TypeOK
  <2>3. temp' \in [Sessions -> BOOLEAN] /\ faults' \in Nat /\ crashes' \in Nat
    BY <1>13a DEF DeliveryFails, Fault, TypeOK
  <2> QED BY <1>13a, <2>1, <2>2, <2>3 DEF DeliveryFails, TypeOK
<1>14. ASSUME NEW s \in Sessions, ExtractPackage(s) PROVE TypeOK'
  <2>1. delivered' \in [Sessions -> ChunkData \union {None}]
    BY <1>14 DEF ExtractPackage, TypeOK
  <2> QED BY <1>14, <2>1 DEF ExtractPackage, TypeOK
<1>15. ASSUME NEW s \in Sessions, RemovePackage(s) PROVE TypeOK'
  <2>1. temp' \in [Sessions -> BOOLEAN] /\ faults' \in Nat /\ crashes' \in Nat
    <3>1. temp' = temp \/ temp' = [temp EXCEPT ![s] = FALSE]
      BY <1>15 DEF RemovePackage
    <3>2. faults' \in Nat /\ crashes' \in Nat
      BY <1>15 DEF RemovePackage, Fault, TypeOK
    <3> QED BY <3>1, <3>2 DEF TypeOK
  <2> QED BY <1>15, <2>1 DEF RemovePackage, TypeOK
<1>16. ASSUME NEW s \in Sessions, MarkCompleted(s) PROVE TypeOK'
  <2>1. sess' = [sess EXCEPT ![s].closed = TRUE, ![s].done = TRUE]
    BY <1>16 DEF MarkCompleted
  <2>2. sess' \in [Sessions -> SessionRecords]
    BY <2>1, <1>s DEF SessionRecords
  <2> QED BY <1>16, <2>2 DEF MarkCompleted, TypeOK
<1>17. ASSUME NEW s \in Sessions, AbortExpired(s) PROVE TypeOK'
  BY <1>17 DEF AbortExpired, TypeOK
<1>18. ASSUME NEW s \in Sessions, ExpiredAborted(s) PROVE TypeOK'
  BY <1>18 DEF ExpiredAborted, SweepRecords, TypeOK
<1>19. ASSUME NEW s \in Sessions, VisitPartial(s) PROVE TypeOK'
  <2>1. temp' \in [Sessions -> BOOLEAN] /\ faults' \in Nat /\ crashes' \in Nat
    <3>1. temp' = temp \/ temp' = [temp EXCEPT ![s] = FALSE]
      BY <1>19 DEF VisitPartial
    <3>2. faults' \in Nat /\ crashes' \in Nat
      BY <1>19 DEF VisitPartial, Fault, TypeOK
    <3> QED BY <3>1, <3>2 DEF TypeOK
  <2>2. sw' \in SweepRecords
    BY <1>19 DEF VisitPartial, TypeOK, SweepRecords
  <2> QED BY <1>19, <2>1, <2>2 DEF VisitPartial, TypeOK
<1>20. ASSUME NEW s \in Sessions, Expire(s) PROVE TypeOK'
  BY <1>20 DEF Expire, TypeOK
<1>21. ASSUME NEW s \in Sessions, AgeFile(s) PROVE TypeOK'
  BY <1>21 DEF AgeFile, TypeOK
<1>22. ASSUME NEW w \in Writers, NEW s \in Sessions, NEW c \in Chunks, Get(w, s, c) PROVE TypeOK'
  BY <1>22 DEF Get, At, WriterRecords, TypeOK
<1>23. ASSUME NEW w \in Writers, LoadDone(w) PROVE TypeOK'
  <2>1. Return(w) \/ Goto(w, "claim")
    BY <1>23 DEF LoadDone
  <2>2. wr' \in [Writers -> WriterRecords]
    BY <2>1, <1>0 DEF Goto, Return, IdleWriter, WriterRecords
  <2> QED BY <1>23, <2>2 DEF LoadDone, TypeOK
<1>24. ASSUME NEW w \in Writers, ClaimChunk(w) PROVE TypeOK'
  <2>1. Goto(w, "write") \/ Return(w)
    BY <1>24 DEF ClaimChunk
  <2>2. wr' \in [Writers -> WriterRecords]
    BY <2>1, <1>0 DEF Goto, Return, IdleWriter, WriterRecords
  <2>3. wr[w].s \in Sessions /\ wr[w].c \in Chunks
    BY <1>24 DEF ClaimChunk, At, ClaimInv, PlaceInv, TypeOK
  <2>4. \/ sess' = sess
        \/ \E v \in {Free, Writing, Done} : sess' = [sess EXCEPT ![wr[w].s].received[wr[w].c] = v]
    BY <1>24 DEF ClaimChunk
  <2>5. sess' \in [Sessions -> SessionRecords]
    <3>1. ASSUME NEW v \in {Free, Writing, Done}
          PROVE  [sess EXCEPT ![wr[w].s].received[wr[w].c] = v] \in [Sessions -> SessionRecords]
      BY <2>3, <1>0, ReceivedUpdate
    <3> QED BY <2>4, <3>1, <1>0
  <2> QED BY <1>24, <2>2, <2>5 DEF ClaimChunk, TypeOK
<1>25. ASSUME NEW w \in Writers, RefuseChunk(w) PROVE TypeOK'
  BY <1>25 DEF RefuseChunk, At, Return, IdleWriter, WriterRecords, TypeOK
<1>26. ASSUME NEW w \in Writers, BeginWrite(w) PROVE TypeOK'
  <2>1. Goto(w, "writing") \/ Goto(w, "short")
    BY <1>26 DEF BeginWrite
  <2>2. wr' \in [Writers -> WriterRecords]
    BY <2>1, <1>0 DEF Goto, Return, IdleWriter, WriterRecords
  <2>3. wr[w].s \in Sessions /\ wr[w].c \in Chunks
    BY <1>26 DEF BeginWrite, At, ClaimInv, PlaceInv, TypeOK
  <2>4. /\ data' = data \/ data' = [data EXCEPT ![wr[w].s][wr[w].c] = "torn"]
        /\ stale' = stale \/ stale' = [stale EXCEPT ![wr[w].s] = FALSE]
    BY <1>26 DEF BeginWrite
  <2>5. data' \in [Sessions -> ChunkData]
    <3>1. [data EXCEPT ![wr[w].s][wr[w].c] = "torn"] \in [Sessions -> ChunkData]
      BY <2>3, <1>0, DataUpdate
    <3> QED BY <2>4, <3>1, <1>0
  <2>6. stale' \in [Sessions -> BOOLEAN]
    BY <2>4 DEF TypeOK
  <2> QED BY <1>26, <2>2, <2>5, <2>6 DEF BeginWrite, TypeOK
<1>27. ASSUME NEW w \in Writers, EndWrite(w) PROVE TypeOK'
  <2>1. Goto(w, "wrote")
    BY <1>27 DEF EndWrite
  <2>2. wr' \in [Writers -> WriterRecords]
    BY <2>1, <1>0 DEF Goto, Return, IdleWriter, WriterRecords
  <2>3. wr[w].s \in Sessions /\ wr[w].c \in Chunks
    BY <1>27 DEF EndWrite, At, ClaimInv, PlaceInv, TypeOK
  <2>4. /\ data' = data \/ data' = [data EXCEPT ![wr[w].s][wr[w].c] = "whole"]
        /\ stale' = stale \/ stale' = [stale EXCEPT ![wr[w].s] = FALSE]
    BY <1>27 DEF EndWrite
  <2>5. data' \in [Sessions -> ChunkData]
    <3>1. [data EXCEPT ![wr[w].s][wr[w].c] = "whole"] \in [Sessions -> ChunkData]
      BY <2>3, <1>0, DataUpdate
    <3> QED BY <2>4, <3>1, <1>0
  <2>6. stale' \in [Sessions -> BOOLEAN]
    BY <2>4 DEF TypeOK
  <2> QED BY <1>27, <2>2, <2>5, <2>6 DEF EndWrite, TypeOK
<1>28. ASSUME NEW w \in Writers, InterruptWrite(w) PROVE TypeOK'
  <2>1. Goto(w, "short")
    BY <1>28 DEF InterruptWrite
  <2>2. wr' \in [Writers -> WriterRecords]
    BY <2>1, <1>0 DEF Goto, Return, IdleWriter, WriterRecords
  <2> QED BY <1>28, <2>2 DEF InterruptWrite, TypeOK
<1>29. ASSUME NEW w \in Writers, ReleaseClaim(w) PROVE TypeOK'
  <2>1. Return(w)
    BY <1>29 DEF ReleaseClaim
  <2>2. wr' \in [Writers -> WriterRecords]
    BY <2>1, <1>0 DEF Goto, Return, IdleWriter, WriterRecords
  <2>3. wr[w].s \in Sessions /\ wr[w].c \in Chunks
    BY <1>29 DEF ReleaseClaim, At, ClaimInv, PlaceInv, TypeOK
  <2>4. \/ sess' = sess
        \/ \E v \in {Free, Writing, Done} : sess' = [sess EXCEPT ![wr[w].s].received[wr[w].c] = v]
    <3>1. sess[wr[w].s].received[wr[w].c] \in {Free, Writing, Done}
      BY <2>3, <1>0 DEF SessionRecords
    <3> QED BY <1>29, <3>1, ZenonT(30) DEF ReleaseClaim
  <2>5. sess' \in [Sessions -> SessionRecords]
    <3>1. ASSUME NEW v \in {Free, Writing, Done}
          PROVE  [sess EXCEPT ![wr[w].s].received[wr[w].c] = v] \in [Sessions -> SessionRecords]
      BY <2>3, <1>0, ReceivedUpdate
    <3> QED BY <2>4, <3>1, <1>0
  <2> QED BY <1>29, <2>2, <2>5 DEF ReleaseClaim, TypeOK
<1>30. ASSUME NEW w \in Writers, FinishChunk(w) PROVE TypeOK'
  <2>1. Return(w)
    BY <1>30 DEF FinishChunk
  <2>2. wr' \in [Writers -> WriterRecords]
    BY <2>1, <1>0 DEF Goto, Return, IdleWriter, WriterRecords
  <2>3. wr[w].s \in Sessions /\ wr[w].c \in Chunks
    BY <1>30 DEF FinishChunk, At, ClaimInv, PlaceInv, TypeOK
  <2>4. \/ sess' = sess
        \/ \E v \in {Free, Writing, Done} : sess' = [sess EXCEPT ![wr[w].s].received[wr[w].c] = v]
    BY <1>30, ZenonT(30) DEF FinishChunk
  <2>5. sess' \in [Sessions -> SessionRecords]
    <3>1. ASSUME NEW v \in {Free, Writing, Done}
          PROVE  [sess EXCEPT ![wr[w].s].received[wr[w].c] = v] \in [Sessions -> SessionRecords]
      BY <2>3, <1>0, ReceivedUpdate
    <3> QED BY <2>4, <3>1, <1>0
  <2> QED BY <1>30, <2>2, <2>5 DEF FinishChunk, TypeOK
<1>31. CASE CleanupExpired
  <2>1. sessions' \in SUBSET Sessions /\ {s \in sessions : old[s]} \in SUBSET Sessions
    BY <1>31 DEF CleanupExpired, TypeOK
  <2> DEFINE T == {s \in sessions : old[s]}
  <2>2. sw' = [sw EXCEPT !.pc = "abort", !.todo = T] /\ T \in SUBSET Sessions
    BY <1>31, <2>1 DEF CleanupExpired
  <2> HIDE DEF T
  <2>3. [sw EXCEPT !.pc = "abort", !.todo = T] \in SweepRecords
    BY <2>2, <1>0 DEF SweepRecords
  <2> QED BY <1>31, <2>1, <2>2, <2>3 DEF CleanupExpired, TypeOK
<1>32. CASE StartWalk
  BY <1>32 DEF StartWalk, SweepRecords, TypeOK
<1>33. CASE EndWalk
  BY <1>33 DEF EndWalk, IdleSweep, SweepRecords, TypeOK
<1>34. CASE Crash
  BY <1>34 DEF Crash, Startup, IdleWriter, FreshSession, SessionRecords, WriterRecords, SweepRecords,
         ChunkData, TypeOK
<1>35. CASE UNCHANGED vars
  BY <1>35 DEF vars, TypeOK
<1> QED
  BY <1>1, <1>2, <1>3, <1>4, <1>5, <1>6, <1>7, <1>8, <1>9, <1>10, <1>11, <1>12, <1>13, <1>13a, <1>14, <1>15,
     <1>16, <1>17, <1>18, <1>19, <1>20, <1>21, <1>22, <1>23, <1>24, <1>25, <1>26, <1>27, <1>28,
     <1>29, <1>30, <1>31, <1>32, <1>33, <1>34, <1>35
  DEF Next, CreateNext, WriterNext, AbortNext, FinalizeNext, SweepNext

-----------------------------------------------------------------------------
(* Ownership.                                                             *)

\* A step keeps every session with one owner.
LEMMA OwnerStep == TypeOK /\ OwnerInv /\ [Next]_vars => OwnerInv'
<1> SUFFICES ASSUME TypeOK, OwnerInv, [Next]_vars PROVE OwnerInv'
  OBVIOUS
<1> USE PartsAssumption, NoneAssumption DEF managerVars, fileVars, boundVars, Taken, MuFree
<1>1. ASSUME NEW s \in Sessions, Reserve(s) PROVE OwnerInv'
  BY <1>1 DEF Reserve, TypeOK, OwnerInv, Expired
<1>2. ASSUME NEW s \in Sessions, CreateFile(s) PROVE OwnerInv'
  BY <1>2 DEF CreateFile, TypeOK, OwnerInv, Expired
<1>3. ASSUME NEW s \in Sessions, CreateFails(s) PROVE OwnerInv'
  BY <1>3 DEF CreateFails, Fault, TypeOK, OwnerInv, Expired
<1>4. ASSUME NEW s \in Sessions, Register(s) PROVE OwnerInv'
  BY <1>4 DEF Register, TypeOK, OwnerInv, Expired
<1>5. ASSUME NEW s \in Sessions, AbortClaim(s) PROVE OwnerInv'
  BY <1>5 DEF AbortClaim, TypeOK, OwnerInv, Expired
<1>6. ASSUME NEW s \in Sessions, AbortRemove(s) PROVE OwnerInv'
  BY <1>6 DEF AbortRemove, Fault, TypeOK, OwnerInv, Expired
<1>7. ASSUME NEW s \in Sessions, AbortStore(s) PROVE OwnerInv'
  BY <1>7 DEF AbortStore, TypeOK, OwnerInv, Expired
<1>8. ASSUME NEW s \in Sessions, AbortOwned(s) PROVE OwnerInv'
  BY <1>8 DEF AbortOwned, TypeOK, OwnerInv, Expired
<1>9. ASSUME NEW s \in Sessions, BeginCompletion(s) PROVE OwnerInv'
  BY <1>9 DEF BeginCompletion, TypeOK, OwnerInv, Expired
<1>10. ASSUME NEW s \in Sessions, CheckComplete(s) PROVE OwnerInv'
  BY <1>10 DEF CheckComplete, Unfinished, TakeOver, TypeOK, OwnerInv, Expired
<1>11. ASSUME NEW s \in Sessions, CloseFile(s) PROVE OwnerInv'
  BY <1>11 DEF CloseFile, GiveUp, Fault, TypeOK, OwnerInv, Expired
<1>12. ASSUME NEW s \in Sessions, Reject(s) PROVE OwnerInv'
  BY <1>12 DEF Reject, GiveUp, TypeOK, OwnerInv, Expired
<1>13. ASSUME NEW s \in Sessions, DeliverStorage(s) PROVE OwnerInv'
  BY <1>13 DEF DeliverStorage, TypeOK, OwnerInv, Expired
<1>13a. ASSUME NEW s \in Sessions, DeliveryFails(s) PROVE OwnerInv'
  BY <1>13a DEF DeliveryFails, GiveUp, Fault, TypeOK, OwnerInv, Expired
<1>14. ASSUME NEW s \in Sessions, ExtractPackage(s) PROVE OwnerInv'
  BY <1>14 DEF ExtractPackage, TypeOK, OwnerInv, Expired
<1>15. ASSUME NEW s \in Sessions, RemovePackage(s) PROVE OwnerInv'
  BY <1>15 DEF RemovePackage, Fault, TypeOK, OwnerInv, Expired
<1>16. ASSUME NEW s \in Sessions, MarkCompleted(s) PROVE OwnerInv'
  BY <1>16 DEF MarkCompleted, TypeOK, OwnerInv, Expired
<1>17. ASSUME NEW s \in Sessions, AbortExpired(s) PROVE OwnerInv'
  BY <1>17 DEF AbortExpired, TypeOK, OwnerInv, Expired
<1>18. ASSUME NEW s \in Sessions, ExpiredAborted(s) PROVE OwnerInv'
  BY <1>18 DEF ExpiredAborted, SweepRecords, TypeOK, OwnerInv, Expired
<1>19. ASSUME NEW s \in Sessions, VisitPartial(s) PROVE OwnerInv'
  BY <1>19 DEF VisitPartial, Fault, SweepRecords, TypeOK, OwnerInv, Expired
<1>20. CASE CleanupExpired
  BY <1>20 DEF CleanupExpired, SweepRecords, TypeOK, OwnerInv, Expired
<1>21. CASE StartWalk
  BY <1>21 DEF StartWalk, TypeOK, OwnerInv, Expired
<1>22. CASE EndWalk
  BY <1>22 DEF EndWalk, IdleSweep, TypeOK, OwnerInv, Expired
<1>23. CASE Crash
  BY <1>23 DEF Crash, Startup, IdleWriter, FreshSession, TypeOK, OwnerInv, Expired
<1>24. CASE UNCHANGED <<sessions, init, comp, ab, sw, delivered>>
  BY <1>24 DEF OwnerInv, Expired
<1>25. ASSUME NEW s \in Sessions,
              Expire(s) \/ AgeFile(s)
       PROVE  UNCHANGED <<sessions, init, comp, ab, sw, delivered>>
  BY <1>25 DEF Expire, AgeFile
<1>26. ASSUME NEW w \in Writers,
              (\E s \in Sessions, c \in Chunks : Get(w, s, c)) \/ LoadDone(w) \/ ClaimChunk(w)
              \/ RefuseChunk(w) \/ BeginWrite(w) \/ EndWrite(w) \/ InterruptWrite(w)
              \/ ReleaseClaim(w) \/ FinishChunk(w)
       PROVE  UNCHANGED <<sessions, init, comp, ab, sw, delivered>>
  BY <1>26 DEF Get, LoadDone, ClaimChunk, RefuseChunk, BeginWrite, EndWrite, InterruptWrite,
         ReleaseClaim, FinishChunk
<1>27. CASE UNCHANGED vars
  BY <1>27, <1>24 DEF vars
<1> QED
  BY <1>1, <1>2, <1>3, <1>4, <1>5, <1>6, <1>7, <1>8, <1>9, <1>10, <1>11, <1>12, <1>13, <1>13a, <1>14, <1>15,
     <1>16, <1>17, <1>18, <1>19, <1>20, <1>21, <1>22, <1>23, <1>24, <1>25, <1>26, <1>27
  DEF Next, CreateNext, WriterNext, AbortNext, FinalizeNext, SweepNext

\* A step keeps the sessions of the table usable.
LEMMA UsableStep == TypeOK /\ OwnerInv /\ ClaimInv /\ UsableInv /\ [Next]_vars => UsableInv'
<1> SUFFICES ASSUME TypeOK, OwnerInv, ClaimInv, UsableInv, [Next]_vars PROVE UsableInv'
  OBVIOUS
<1> USE PartsAssumption, NoneAssumption DEF managerVars, fileVars, boundVars, Taken, MuFree, SessionRecords
<1>1. ASSUME NEW s \in Sessions, Reserve(s) PROVE UsableInv'
  BY <1>1 DEF Reserve, TypeOK, OwnerInv, UsableInv
<1>2. ASSUME NEW s \in Sessions, CreateFile(s) PROVE UsableInv'
  BY <1>2 DEF CreateFile, TypeOK, OwnerInv, UsableInv
<1>3. ASSUME NEW s \in Sessions, CreateFails(s) PROVE UsableInv'
  BY <1>3 DEF CreateFails, Fault, TypeOK, OwnerInv, UsableInv
<1>4. ASSUME NEW s \in Sessions, Register(s) PROVE UsableInv'
  <2>1. sessions' = sessions \union {s} /\ init[s] = "created" /\ UNCHANGED <<sess, open, comp>>
    BY <1>4 DEF Register
  <2>2. \A t \in Sessions : t # s => init'[t] = init[t]
    BY <1>4 DEF Register, TypeOK
  <2>3. init'[s] = "live"
    BY <1>4 DEF Register, TypeOK
  <2>4. open[s] /\ ~sess[s].closed /\ ~sess[s].aborting /\ ~sess[s].done
    BY <2>1 DEF UsableInv, FreshSession
  <2> QED BY <2>1, <2>2, <2>3, <2>4 DEF UsableInv
<1>5. ASSUME NEW s \in Sessions, AbortClaim(s) PROVE UsableInv'
  BY <1>5 DEF AbortClaim, TypeOK, OwnerInv, UsableInv
<1>6. ASSUME NEW s \in Sessions, AbortRemove(s) PROVE UsableInv'
  BY <1>6 DEF AbortRemove, Fault, TypeOK, OwnerInv, UsableInv
<1>7. ASSUME NEW s \in Sessions, AbortStore(s) PROVE UsableInv'
  BY <1>7 DEF AbortStore, TypeOK, OwnerInv, UsableInv
<1>8. ASSUME NEW s \in Sessions, AbortOwned(s) PROVE UsableInv'
  BY <1>8 DEF AbortOwned, TypeOK, OwnerInv, UsableInv
<1>9. ASSUME NEW s \in Sessions, BeginCompletion(s) PROVE UsableInv'
  BY <1>9 DEF BeginCompletion, TypeOK, OwnerInv, UsableInv
<1>10. ASSUME NEW s \in Sessions, CheckComplete(s) PROVE UsableInv'
  <2>1. s \in sessions /\ ~sess[s].closed /\ ~sess[s].aborting /\ UNCHANGED <<init, open>>
    BY <1>10 DEF CheckComplete, OwnerInv, UsableInv
  <2>2. CASE Unfinished(s)
    <3>1. sess' = [sess EXCEPT ![s].done = FALSE] /\ comp' = [comp EXCEPT ![s] = "no"] /\ sessions' = sessions
      BY <2>1, <2>2 DEF Unfinished
    <3>2. init[s] = "live"
      BY <2>1 DEF OwnerInv
    <3> QED BY <2>1, <3>1, <3>2 DEF UsableInv, TypeOK
  <2>3. CASE TakeOver(s)
    BY <2>1, <2>3 DEF TakeOver, UsableInv, TypeOK
  <2> QED BY <1>10, <2>2, <2>3 DEF CheckComplete
<1>11. ASSUME NEW s \in Sessions, CloseFile(s) PROVE UsableInv'
  BY <1>11 DEF CloseFile, GiveUp, Fault, TypeOK, OwnerInv, UsableInv
<1>12. ASSUME NEW s \in Sessions, Reject(s) PROVE UsableInv'
  BY <1>12 DEF Reject, GiveUp, TypeOK, OwnerInv, UsableInv
<1>13. ASSUME NEW s \in Sessions, DeliverStorage(s) PROVE UsableInv'
  BY <1>13 DEF DeliverStorage, TypeOK, OwnerInv, UsableInv
<1>13a. ASSUME NEW s \in Sessions, DeliveryFails(s) PROVE UsableInv'
  BY <1>13a DEF DeliveryFails, GiveUp, Fault, TypeOK, OwnerInv, UsableInv
<1>14. ASSUME NEW s \in Sessions, ExtractPackage(s) PROVE UsableInv'
  BY <1>14 DEF ExtractPackage, TypeOK, OwnerInv, UsableInv
<1>15. ASSUME NEW s \in Sessions, RemovePackage(s) PROVE UsableInv'
  BY <1>15 DEF RemovePackage, Fault, TypeOK, OwnerInv, UsableInv
<1>16. ASSUME NEW s \in Sessions, MarkCompleted(s) PROVE UsableInv'
  BY <1>16 DEF MarkCompleted, TypeOK, OwnerInv, UsableInv
<1>17. ASSUME NEW w \in Writers, ClaimChunk(w) PROVE UsableInv'
  <2>1. wr[w].s \in Sessions /\ wr[w].c \in Chunks /\ init[wr[w].s] = "live"
    BY <1>17 DEF ClaimChunk, At, ClaimInv, PlaceInv
  <2>2. sess' = sess \/ sess' = [sess EXCEPT ![wr[w].s].received[wr[w].c] = Writing]
    BY <1>17 DEF ClaimChunk
  <2>3. \A t \in Sessions : /\ t # wr[w].s => sess'[t] = sess[t]
                            /\ sess'[t].done = sess[t].done /\ sess'[t].closed = sess[t].closed
                            /\ sess'[t].aborting = sess[t].aborting
    <3>1. CASE sess' = sess
      BY <3>1
    <3>2. CASE sess' = [sess EXCEPT ![wr[w].s].received[wr[w].c] = Writing]
      BY <2>1, <3>2 DEF TypeOK
    <3> QED BY <2>2, <3>1, <3>2
  <2>4. UNCHANGED <<sessions, init, open, comp>>
    BY <1>17 DEF ClaimChunk
  <2> QED BY <2>1, <2>3, <2>4 DEF UsableInv
<1>18. ASSUME NEW w \in Writers, ReleaseClaim(w) PROVE UsableInv'
  BY <1>18 DEF ReleaseClaim, At, Return, IdleWriter, ClaimInv, PlaceInv, TypeOK, OwnerInv, UsableInv
<1>19. ASSUME NEW w \in Writers, FinishChunk(w) PROVE UsableInv'
  BY <1>19 DEF FinishChunk, At, Return, IdleWriter, ClaimInv, PlaceInv, TypeOK, OwnerInv, UsableInv
<1>20. CASE CleanupExpired
  BY <1>20 DEF CleanupExpired, TypeOK, OwnerInv, UsableInv
<1>21. CASE Crash
  BY <1>21 DEF Crash, Startup, IdleWriter, FreshSession, TypeOK, OwnerInv, UsableInv
<1>22. CASE UNCHANGED <<sessions, init, sess, open, comp>>
  BY <1>22 DEF UsableInv
<1>23. ASSUME NEW s \in Sessions,
              AbortExpired(s) \/ ExpiredAborted(s) \/ VisitPartial(s) \/ Expire(s) \/ AgeFile(s)
       PROVE  UNCHANGED <<sessions, init, sess, open, comp>>
  BY <1>23 DEF AbortExpired, ExpiredAborted, VisitPartial, Fault, Expire, AgeFile
<1>24. ASSUME NEW w \in Writers,
              (\E s \in Sessions, c \in Chunks : Get(w, s, c)) \/ LoadDone(w) \/ RefuseChunk(w)
              \/ BeginWrite(w) \/ EndWrite(w) \/ InterruptWrite(w)
       PROVE  UNCHANGED <<sessions, init, sess, open, comp>>
  BY <1>24 DEF Get, LoadDone, RefuseChunk, BeginWrite, EndWrite, InterruptWrite
<1>25. CASE StartWalk \/ EndWalk
  BY <1>25, <1>22 DEF StartWalk, EndWalk
<1>26. CASE UNCHANGED vars
  BY <1>26, <1>22 DEF vars
<1> QED
  BY <1>1, <1>2, <1>3, <1>4, <1>5, <1>6, <1>7, <1>8, <1>9, <1>10, <1>11, <1>12, <1>13, <1>13a, <1>14, <1>15,
     <1>16, <1>17, <1>18, <1>19, <1>20, <1>21, <1>22, <1>23, <1>24, <1>25, <1>26
  DEF Next, CreateNext, WriterNext, AbortNext, FinalizeNext, SweepNext

-----------------------------------------------------------------------------
(* Claims and contents.                                                   *)

\* A step keeps claims and marks together.
LEMMA ClaimStep == TypeOK /\ OwnerInv /\ UsableInv /\ ClaimInv /\ [Next]_vars => ClaimInv'
<1> SUFFICES ASSUME TypeOK, OwnerInv, UsableInv, ClaimInv, [Next]_vars PROVE ClaimInv'
  OBVIOUS
<1> USE PartsAssumption, NoneAssumption DEF managerVars, fileVars, boundVars, ClaimInv, Free, Writing, Done
<1>0. /\ sess \in [Sessions -> [received : [Chunks -> {0, 1, 2}], done : BOOLEAN,
                                closed : BOOLEAN, aborting : BOOLEAN]]
      /\ wr \in [Writers -> WriterRecords]
      /\ wr \in [Writers -> [pc : {"idle", "load", "claim", "write", "writing", "wrote", "short"},
                             s : Sessions \union {None}, c : Chunks \union {None}]]
  BY DEF TypeOK, SessionRecords, WriterRecords
<1>a. ASSUME UNCHANGED <<wr, init>>, \A t \in Sessions : sess'[t].received = sess[t].received
      PROVE  ClaimInv'
  BY <1>a DEF PlaceInv, MarkInv, SoleInv, HeldInv, Busy
<1>b. ASSUME NEW w \in Writers, \A v \in Writers : v # w => wr'[v] = wr[v],
             Busy(w)' = Busy(w), Busy(w) => wr'[w].s = wr[w].s /\ wr'[w].c = wr[w].c,
             wr'[w].pc # "idle" => wr'[w].s \in Sessions /\ wr'[w].c \in Parts[wr'[w].s]
                                   /\ init[wr'[w].s] = "live",
             UNCHANGED <<sess, init>>
      PROVE  ClaimInv'
  <2>1. PlaceInv'
    BY <1>b DEF PlaceInv
  <2>2. \A v \in Writers : Busy(v)' = Busy(v) /\ (Busy(v) => wr'[v].s = wr[v].s /\ wr'[v].c = wr[v].c)
    BY <1>b DEF Busy
  <2>3. MarkInv'
    BY <1>b, <2>2 DEF MarkInv
  <2>4. SoleInv'
    BY <2>2 DEF SoleInv
  <2>5. HeldInv'
    BY <1>b, <2>2 DEF HeldInv
  <2> QED BY <2>1, <2>3, <2>4, <2>5
<1>1. ASSUME NEW s \in Sessions, Reserve(s) PROVE ClaimInv'
  BY <1>1 DEF Reserve, TypeOK, ClaimInv, PlaceInv, MarkInv, SoleInv, HeldInv, Busy
<1>2. ASSUME NEW s \in Sessions, CreateFile(s) PROVE ClaimInv'
  BY <1>2 DEF CreateFile, TypeOK, ClaimInv, PlaceInv, MarkInv, SoleInv, HeldInv, Busy
<1>3. ASSUME NEW s \in Sessions, CreateFails(s) PROVE ClaimInv'
  BY <1>3 DEF CreateFails, Fault, TypeOK, ClaimInv, PlaceInv, MarkInv, SoleInv, HeldInv, Busy
<1>4. ASSUME NEW s \in Sessions, Register(s) PROVE ClaimInv'
  BY <1>4 DEF Register, TypeOK, ClaimInv, PlaceInv, MarkInv, SoleInv, HeldInv, Busy
<1>5. ASSUME NEW s \in Sessions, AbortClaim(s) PROVE ClaimInv'
  <2>1. sess' = sess \/ sess' = [sess EXCEPT ![s].aborting = TRUE, ![s].closed = TRUE]
    BY <1>5 DEF AbortClaim
  <2>2. \A t \in Sessions : sess'[t].received = sess[t].received
    <3>1. CASE sess' = [sess EXCEPT ![s].aborting = TRUE, ![s].closed = TRUE]
      BY <3>1, <1>0
    <3> QED BY <2>1, <3>1
  <2> QED BY <1>5, <2>2, <1>a DEF AbortClaim
<1>6. ASSUME NEW s \in Sessions, AbortStore(s) PROVE ClaimInv'
  <2>1. \A t \in Sessions : sess'[t].received = sess[t].received
    BY <1>6, <1>0 DEF AbortStore
  <2> QED BY <1>6, <2>1, <1>a DEF AbortStore
<1>7. ASSUME NEW s \in Sessions, BeginCompletion(s) PROVE ClaimInv'
  <2>1. \A t \in Sessions : sess'[t].received = sess[t].received
    BY <1>7, <1>0 DEF BeginCompletion
  <2> QED BY <1>7, <2>1, <1>a DEF BeginCompletion
<1>8. ASSUME NEW s \in Sessions, CheckComplete(s) PROVE ClaimInv'
  <2>1. \A t \in Sessions : sess'[t].received = sess[t].received
    <3>1. sess' = sess \/ sess' = [sess EXCEPT ![s].done = sess[s].closed \/ sess[s].aborting]
      BY <1>8 DEF CheckComplete, Unfinished, TakeOver
    <3> QED BY <3>1, <1>0
  <2> QED BY <1>8, <2>1, <1>a DEF CheckComplete
<1>9. ASSUME NEW s \in Sessions, MarkCompleted(s) PROVE ClaimInv'
  <2>1. \A t \in Sessions : sess'[t].received = sess[t].received
    BY <1>9, <1>0 DEF MarkCompleted
  <2> QED BY <1>9, <2>1, <1>a DEF MarkCompleted
<1>10. ASSUME NEW w \in Writers, NEW s \in Sessions, NEW c \in Chunks, Get(w, s, c) PROVE ClaimInv'
  <2>1. \A v \in Writers : v # w => wr'[v] = wr[v]
    BY <1>10, <1>0 DEF Get, At
  <2>2. Busy(w)' = Busy(w) /\ (Busy(w) => wr'[w].s = wr[w].s /\ wr'[w].c = wr[w].c)
    BY <1>10, <1>0 DEF Get, At, Busy
  <2>3. wr'[w].pc # "idle" => wr'[w].s \in Sessions /\ wr'[w].c \in Parts[wr'[w].s] /\ init[wr'[w].s] = "live"
    BY <1>10, <1>0 DEF Get, At, OwnerInv, TypeOK
  <2> QED BY <1>10, <2>1, <2>2, <2>3, <1>b DEF Get
<1>11. ASSUME NEW w \in Writers, LoadDone(w) PROVE ClaimInv'
  <2>1. \A v \in Writers : v # w => wr'[v] = wr[v]
    BY <1>11, <1>0 DEF LoadDone, At, Goto, Return, IdleWriter
  <2>2. Busy(w)' = Busy(w) /\ (Busy(w) => wr'[w].s = wr[w].s /\ wr'[w].c = wr[w].c)
    BY <1>11, <1>0 DEF LoadDone, At, Goto, Return, IdleWriter, Busy
  <2>3. wr'[w].pc # "idle" => wr'[w].s \in Sessions /\ wr'[w].c \in Parts[wr'[w].s] /\ init[wr'[w].s] = "live"
    <3>1. wr'[w].pc = "idle" \/ (wr'[w].s = wr[w].s /\ wr'[w].c = wr[w].c)
      BY <1>11, <1>0 DEF LoadDone, At, Goto, Return, IdleWriter
    <3>2. wr[w].pc # "idle"
      BY <1>11 DEF LoadDone, At
    <3> QED BY <3>1, <3>2 DEF PlaceInv
  <2> QED BY <1>11, <2>1, <2>2, <2>3, <1>b DEF LoadDone
<1>12. ASSUME NEW w \in Writers, ClaimChunk(w) PROVE ClaimInv'
  <2>1. wr[w].s \in Sessions /\ wr[w].c \in Chunks /\ wr[w].c \in Parts[wr[w].s]
        /\ init[wr[w].s] = "live" /\ ~Busy(w) /\ UNCHANGED init
    BY <1>12 DEF ClaimChunk, At, PlaceInv, Busy
  <2>2. \A v \in Writers : v # w => wr'[v] = wr[v]
    BY <1>12, <1>0 DEF ClaimChunk, Goto, Return
  <2>3. CASE ~Claimable(wr[w].s, wr[w].c)
    <3>1. wr'[w] = IdleWriter /\ UNCHANGED <<sess, init>>
      BY <1>12, <2>3, <1>0 DEF ClaimChunk, Return
    <3>2. Busy(w)' = Busy(w) /\ wr'[w].pc = "idle"
      BY <2>1, <3>1 DEF Busy, IdleWriter
    <3> QED BY <2>1, <2>2, <3>1, <3>2, <1>b
  <2>4. CASE Claimable(wr[w].s, wr[w].c)
    <3>1. sess' = [sess EXCEPT ![wr[w].s].received[wr[w].c] = Writing] /\ wr' = [wr EXCEPT ![w].pc = "write"]
          /\ sess[wr[w].s].received[wr[w].c] = Free
      BY <1>12, <2>4 DEF ClaimChunk, Claimable, Goto
    <3>2. wr'[w].pc = "write" /\ wr'[w].s = wr[w].s /\ wr'[w].c = wr[w].c
      BY <3>1, <1>0
    <3>3. \A t \in Sessions, d \in Chunks : sess'[t].received[d] =
             IF t = wr[w].s /\ d = wr[w].c THEN Writing ELSE sess[t].received[d]
      BY <2>1, <3>1, <1>0
    <3>4. \A v \in Writers : v # w /\ Busy(v) => ~(wr[v].s = wr[w].s /\ wr[v].c = wr[w].c)
      BY <3>1 DEF MarkInv
    <3>5. PlaceInv'
      BY <2>1, <2>2, <3>2 DEF PlaceInv
    <3>6. MarkInv'
      BY <2>1, <2>2, <3>2, <3>3 DEF MarkInv, PlaceInv, Busy
    <3>7. SoleInv'
      BY <2>2, <3>2, <3>4 DEF SoleInv, Busy
    <3>8. HeldInv'
      BY <2>1, <2>2, <3>2, <3>3 DEF HeldInv, Busy
    <3> QED BY <3>5, <3>6, <3>7, <3>8
  <2> QED BY <2>3, <2>4
<1>13. ASSUME NEW w \in Writers, RefuseChunk(w) PROVE ClaimInv'
  <2>1. \A v \in Writers : v # w => wr'[v] = wr[v]
    BY <1>13, <1>0 DEF RefuseChunk, At, Return, IdleWriter
  <2>2. Busy(w)' = Busy(w) /\ (Busy(w) => wr'[w].s = wr[w].s /\ wr'[w].c = wr[w].c)
    BY <1>13, <1>0 DEF RefuseChunk, At, Return, IdleWriter, Busy
  <2>3. wr'[w].pc # "idle" => wr'[w].s \in Sessions /\ wr'[w].c \in Parts[wr'[w].s] /\ init[wr'[w].s] = "live"
    <3>1. wr'[w].pc = "idle" \/ (wr'[w].s = wr[w].s /\ wr'[w].c = wr[w].c)
      BY <1>13, <1>0 DEF RefuseChunk, At, Return, IdleWriter
    <3>2. wr[w].pc # "idle"
      BY <1>13 DEF RefuseChunk, At
    <3> QED BY <3>1, <3>2 DEF PlaceInv
  <2> QED BY <1>13, <2>1, <2>2, <2>3, <1>b DEF RefuseChunk
<1>14. ASSUME NEW w \in Writers, BeginWrite(w) PROVE ClaimInv'
  <2>1. \A v \in Writers : v # w => wr'[v] = wr[v]
    BY <1>14, <1>0 DEF BeginWrite, At, Goto
  <2>2. Busy(w)' = Busy(w) /\ (Busy(w) => wr'[w].s = wr[w].s /\ wr'[w].c = wr[w].c)
    BY <1>14, <1>0 DEF BeginWrite, At, Goto, Busy
  <2>3. wr'[w].pc # "idle" => wr'[w].s \in Sessions /\ wr'[w].c \in Parts[wr'[w].s] /\ init[wr'[w].s] = "live"
    <3>1. wr'[w].pc = "idle" \/ (wr'[w].s = wr[w].s /\ wr'[w].c = wr[w].c)
      BY <1>14, <1>0 DEF BeginWrite, At, Goto
    <3>2. wr[w].pc # "idle"
      BY <1>14 DEF BeginWrite, At
    <3> QED BY <3>1, <3>2 DEF PlaceInv
  <2> QED BY <1>14, <2>1, <2>2, <2>3, <1>b DEF BeginWrite
<1>15. ASSUME NEW w \in Writers, EndWrite(w) PROVE ClaimInv'
  <2>1. \A v \in Writers : v # w => wr'[v] = wr[v]
    BY <1>15, <1>0 DEF EndWrite, At, Goto
  <2>2. Busy(w)' = Busy(w) /\ (Busy(w) => wr'[w].s = wr[w].s /\ wr'[w].c = wr[w].c)
    BY <1>15, <1>0 DEF EndWrite, At, Goto, Busy
  <2>3. wr'[w].pc # "idle" => wr'[w].s \in Sessions /\ wr'[w].c \in Parts[wr'[w].s] /\ init[wr'[w].s] = "live"
    <3>1. wr'[w].pc = "idle" \/ (wr'[w].s = wr[w].s /\ wr'[w].c = wr[w].c)
      BY <1>15, <1>0 DEF EndWrite, At, Goto
    <3>2. wr[w].pc # "idle"
      BY <1>15 DEF EndWrite, At
    <3> QED BY <3>1, <3>2 DEF PlaceInv
  <2> QED BY <1>15, <2>1, <2>2, <2>3, <1>b DEF EndWrite
<1>16. ASSUME NEW w \in Writers, InterruptWrite(w) PROVE ClaimInv'
  <2>1. \A v \in Writers : v # w => wr'[v] = wr[v]
    BY <1>16, <1>0 DEF InterruptWrite, At, Goto
  <2>2. Busy(w)' = Busy(w) /\ (Busy(w) => wr'[w].s = wr[w].s /\ wr'[w].c = wr[w].c)
    BY <1>16, <1>0 DEF InterruptWrite, At, Goto, Busy
  <2>3. wr'[w].pc # "idle" => wr'[w].s \in Sessions /\ wr'[w].c \in Parts[wr'[w].s] /\ init[wr'[w].s] = "live"
    <3>1. wr'[w].pc = "idle" \/ (wr'[w].s = wr[w].s /\ wr'[w].c = wr[w].c)
      BY <1>16, <1>0 DEF InterruptWrite, At, Goto
    <3>2. wr[w].pc # "idle"
      BY <1>16 DEF InterruptWrite, At
    <3> QED BY <3>1, <3>2 DEF PlaceInv
  <2> QED BY <1>16, <2>1, <2>2, <2>3, <1>b DEF InterruptWrite
<1>17. ASSUME NEW w \in Writers, ReleaseClaim(w) PROVE ClaimInv'
  <2>1. wr[w].s \in Sessions /\ wr[w].c \in Chunks /\ Busy(w) /\ UNCHANGED init
    BY <1>17 DEF ReleaseClaim, At, PlaceInv, Busy
  <2>2. (\A v \in Writers : v # w => wr'[v] = wr[v]) /\ wr'[w].pc = "idle"
    BY <1>17, <1>0 DEF ReleaseClaim, Return, IdleWriter
  <2>3. PICK x \in {Free, Done} : sess' = [sess EXCEPT ![wr[w].s].received[wr[w].c] = x]
    BY <1>17, <2>1, ZenonT(30) DEF ReleaseClaim, MarkInv
  <2>4. \A t \in Sessions, d \in Chunks : sess'[t].received[d] =
           IF t = wr[w].s /\ d = wr[w].c THEN x ELSE sess[t].received[d]
    BY <2>1, <2>3, <1>0
  <2>5. \A v \in Writers : v # w /\ Busy(v) => ~(wr[v].s = wr[w].s /\ wr[v].c = wr[w].c)
    BY <2>1 DEF SoleInv
  <2>6. PlaceInv'
    BY <2>1, <2>2 DEF PlaceInv
  <2>7. MarkInv'
    BY <2>1, <2>2, <2>4, <2>5 DEF MarkInv, PlaceInv, Busy
  <2>8. SoleInv'
    BY <2>2 DEF SoleInv, Busy
  <2>9. HeldInv'
    BY <2>1, <2>2, <2>4 DEF HeldInv, Busy
  <2> QED BY <2>6, <2>7, <2>8, <2>9
<1>18. ASSUME NEW w \in Writers, FinishChunk(w) PROVE ClaimInv'
  <2>1. wr[w].s \in Sessions /\ wr[w].c \in Chunks /\ Busy(w) /\ UNCHANGED init
    BY <1>18 DEF FinishChunk, At, PlaceInv, Busy
  <2>2. (\A v \in Writers : v # w => wr'[v] = wr[v]) /\ wr'[w].pc = "idle"
    BY <1>18, <1>0 DEF FinishChunk, Return, IdleWriter
  <2>3. PICK x \in {Free, Done} : sess' = [sess EXCEPT ![wr[w].s].received[wr[w].c] = x]
    BY <1>18, <2>1 DEF FinishChunk, MarkInv
  <2>4. \A t \in Sessions, d \in Chunks : sess'[t].received[d] =
           IF t = wr[w].s /\ d = wr[w].c THEN x ELSE sess[t].received[d]
    BY <2>1, <2>3, <1>0
  <2>5. \A v \in Writers : v # w /\ Busy(v) => ~(wr[v].s = wr[w].s /\ wr[v].c = wr[w].c)
    BY <2>1 DEF SoleInv
  <2>6. PlaceInv'
    BY <2>1, <2>2 DEF PlaceInv
  <2>7. MarkInv'
    BY <2>1, <2>2, <2>4, <2>5 DEF MarkInv, PlaceInv, Busy
  <2>8. SoleInv'
    BY <2>2 DEF SoleInv, Busy
  <2>9. HeldInv'
    BY <2>1, <2>2, <2>4 DEF HeldInv, Busy
  <2> QED BY <2>6, <2>7, <2>8, <2>9
<1>19. CASE Crash
  BY <1>19 DEF Crash, Startup, IdleWriter, FreshSession, TypeOK, ClaimInv, PlaceInv, MarkInv,
         SoleInv, HeldInv, Busy
<1>20. CASE UNCHANGED <<wr, sess, init>>
  BY <1>20 DEF ClaimInv, PlaceInv, MarkInv, SoleInv, HeldInv, Busy
<1>21. ASSUME NEW s \in Sessions,
              AbortRemove(s) \/ AbortOwned(s) \/ CloseFile(s) \/ Reject(s) \/ DeliverStorage(s)
              \/ DeliveryFails(s) \/ ExtractPackage(s) \/ RemovePackage(s) \/ AbortExpired(s) \/ ExpiredAborted(s)
              \/ VisitPartial(s) \/ Expire(s) \/ AgeFile(s)
       PROVE  UNCHANGED <<wr, sess, init>>
  BY <1>21 DEF AbortRemove, Fault, AbortOwned, CloseFile, GiveUp, Reject, DeliverStorage,
         DeliveryFails, ExtractPackage, RemovePackage, AbortExpired, ExpiredAborted, VisitPartial, Expire, AgeFile
<1>22. CASE CleanupExpired \/ StartWalk \/ EndWalk
  BY <1>22, <1>20 DEF CleanupExpired, StartWalk, EndWalk
<1>23. CASE UNCHANGED vars
  BY <1>23, <1>20 DEF vars
<1> QED
  BY <1>1, <1>2, <1>3, <1>4, <1>5, <1>6, <1>7, <1>8, <1>9, <1>10, <1>11, <1>12, <1>13, <1>14, <1>15,
     <1>16, <1>17, <1>18, <1>19, <1>20, <1>21, <1>22, <1>23
  DEF Next, CreateNext, WriterNext, AbortNext, FinalizeNext, SweepNext

\* A step keeps marks and contents together.
LEMMA WholeStep == TypeOK /\ ClaimInv /\ WholeInv /\ [Next]_vars => WholeInv'
<1> SUFFICES ASSUME TypeOK, ClaimInv, WholeInv, [Next]_vars PROVE WholeInv'
  OBVIOUS
<1> USE PartsAssumption, NoneAssumption DEF managerVars, fileVars, boundVars, ClaimInv, WholeInv, Free, Writing, Done, Taken
<1>0. /\ sess \in [Sessions -> [received : [Chunks -> {0, 1, 2}], done : BOOLEAN,
                                closed : BOOLEAN, aborting : BOOLEAN]]
      /\ wr \in [Writers -> [pc : {"idle", "load", "claim", "write", "writing", "wrote", "short"},
                             s : Sessions \union {None}, c : Chunks \union {None}]]
      /\ data \in [Sessions -> [Chunks -> {"hole", "torn", "whole"}]]
      /\ comp \in [Sessions -> {"no", "check", "owned", "deliver", "remove", "mark", "over"}]
      /\ DOMAIN delivered = Sessions
  BY DEF TypeOK, SessionRecords, WriterRecords, ChunkData
<1>s. sess \in [Sessions -> [received : [Chunks -> {0, 1, 2}], done : BOOLEAN,
                             closed : BOOLEAN, aborting : BOOLEAN]]
  BY <1>0
<1>a. ASSUME UNCHANGED <<wr, data, delivered>>, \A t \in Sessions : sess'[t].received = sess[t].received,
             \A t \in Sessions : comp'[t] \in Taken => comp[t] \in Taken
      PROVE  WholeInv'
  BY <1>a DEF WroteInv, DoneInv, TakenInv, AllReceived, DeliveredWhole
<1>1. ASSUME NEW s \in Sessions, AbortClaim(s) PROVE WholeInv'
  <2>1. sess' = sess \/ sess' = [sess EXCEPT ![s].aborting = TRUE, ![s].closed = TRUE]
    BY <1>1 DEF AbortClaim
  <2>2. \A t \in Sessions : sess'[t].received = sess[t].received
    <3>1. CASE sess' = [sess EXCEPT ![s].aborting = TRUE, ![s].closed = TRUE]
      BY <3>1, <1>0
    <3> QED BY <2>1, <3>1
  <2> QED BY <1>1, <2>2, <1>a DEF AbortClaim
<1>2. ASSUME NEW s \in Sessions, AbortStore(s) PROVE WholeInv'
  <2>1. \A t \in Sessions : sess'[t].received = sess[t].received
    BY <1>2, <1>0 DEF AbortStore
  <2>2. \A t \in Sessions : comp'[t] \in Taken => comp[t] \in Taken
    BY <1>2, <1>0 DEF AbortStore
  <2> QED BY <1>2, <2>1, <2>2, <1>a DEF AbortStore
<1>3. ASSUME NEW s \in Sessions, BeginCompletion(s) PROVE WholeInv'
  <2>1. \A t \in Sessions : sess'[t].received = sess[t].received
    BY <1>3, <1>0 DEF BeginCompletion
  <2>2. \A t \in Sessions : comp'[t] \in Taken => comp[t] \in Taken
    BY <1>3, <1>0 DEF BeginCompletion
  <2> QED BY <1>3, <2>1, <2>2, <1>a DEF BeginCompletion
<1>4. ASSUME NEW s \in Sessions, CheckComplete(s) PROVE WholeInv'
  <2>1. \A t \in Sessions : sess'[t].received = sess[t].received
    <3>1. sess' = sess \/ sess' = [sess EXCEPT ![s].done = sess[s].closed \/ sess[s].aborting]
      BY <1>4 DEF CheckComplete, Unfinished, TakeOver
    <3> QED BY <3>1, <1>s
  <2>2. CASE Unfinished(s)
    <3>1. \A t \in Sessions : comp'[t] \in Taken => comp[t] \in Taken
      BY <2>2, <1>0 DEF Unfinished
    <3> QED BY <1>4, <2>1, <3>1, <1>a DEF CheckComplete
  <2>3. CASE TakeOver(s)
    <3>1. AllReceived(s) /\ \A t \in Sessions : t # s => comp'[t] = comp[t]
      BY <2>3, <1>0 DEF TakeOver
    <3>2. UNCHANGED <<wr, data, delivered>>
      BY <1>4 DEF CheckComplete
    <3>3. WroteInv' /\ DoneInv' /\ DeliveredWhole'
      BY <2>1, <3>2 DEF WroteInv, DoneInv, DeliveredWhole
    <3>4. TakenInv'
      BY <2>1, <3>1, <3>2 DEF TakenInv, AllReceived
    <3> QED BY <3>3, <3>4
  <2> QED BY <1>4, <2>2, <2>3 DEF CheckComplete
<1>5. ASSUME NEW s \in Sessions, CloseFile(s) PROVE WholeInv'
  <2>1. \A t \in Sessions : comp'[t] \in Taken => comp[t] \in Taken
    BY <1>5, <1>0 DEF CloseFile, GiveUp
  <2> QED BY <1>5, <2>1, <1>a DEF CloseFile
<1>6. ASSUME NEW s \in Sessions, Reject(s) PROVE WholeInv'
  <2>1. \A t \in Sessions : comp'[t] \in Taken => comp[t] \in Taken
    BY <1>6, <1>0 DEF Reject, GiveUp
  <2> QED BY <1>6, <2>1, <1>a DEF Reject
<1>7. ASSUME NEW s \in Sessions, DeliverStorage(s) PROVE WholeInv'
  <2>1. UNCHANGED <<wr, data, sess>>
    BY <1>7 DEF DeliverStorage
  <2>2. \A t \in Sessions : comp'[t] \in Taken => comp[t] \in Taken
    BY <1>7, <1>0 DEF DeliverStorage
  <2>3. WroteInv' /\ DoneInv' /\ TakenInv'
    BY <2>1, <2>2 DEF WroteInv, DoneInv, TakenInv, AllReceived
  <2>4. \A c \in Parts[s] : data[s][c] = "whole"
    BY <1>7 DEF DeliverStorage, DoneInv, TakenInv, AllReceived
  <2>5. \A t \in Sessions : delivered'[t] = delivered[t] \/ (t = s /\ delivered'[t] = data[s])
    BY <1>7, <1>0 DEF DeliverStorage
  <2> QED BY <2>3, <2>4, <2>5 DEF DeliveredWhole
<1>7a. ASSUME NEW s \in Sessions, DeliveryFails(s) PROVE WholeInv'
  <2>1. UNCHANGED <<wr, data, sess>>
    BY <1>7a DEF DeliveryFails
  <2>2. \A t \in Sessions : comp'[t] \in Taken => comp[t] \in Taken
    BY <1>7a, <1>0 DEF DeliveryFails, GiveUp
  <2>3. WroteInv' /\ DoneInv' /\ TakenInv'
    BY <2>1, <2>2 DEF WroteInv, DoneInv, TakenInv, AllReceived
  <2>4. \A c \in Parts[s] : data[s][c] = "whole"
    BY <1>7a DEF DeliveryFails, DoneInv, TakenInv, AllReceived
  <2>5. \A t \in Sessions : delivered'[t] = delivered[t] \/ (t = s /\ delivered'[t] = data[s])
    BY <1>7a, <1>0 DEF DeliveryFails
  <2> QED BY <2>3, <2>4, <2>5 DEF DeliveredWhole
<1>8. ASSUME NEW s \in Sessions, ExtractPackage(s) PROVE WholeInv'
  <2>1. UNCHANGED <<wr, data, sess>>
    BY <1>8 DEF ExtractPackage
  <2>2. \A t \in Sessions : comp'[t] \in Taken => comp[t] \in Taken
    BY <1>8, <1>0 DEF ExtractPackage
  <2>3. WroteInv' /\ DoneInv' /\ TakenInv'
    BY <2>1, <2>2 DEF WroteInv, DoneInv, TakenInv, AllReceived
  <2>4. \A c \in Parts[s] : data[s][c] = "whole"
    BY <1>8 DEF ExtractPackage, DoneInv, TakenInv, AllReceived
  <2>5. \A t \in Sessions : delivered'[t] = delivered[t] \/ (t = s /\ delivered'[t] = data[s])
    BY <1>8, <1>0 DEF ExtractPackage
  <2> QED BY <2>3, <2>4, <2>5 DEF DeliveredWhole
<1>9. ASSUME NEW s \in Sessions, RemovePackage(s) PROVE WholeInv'
  <2>1. \A t \in Sessions : comp'[t] \in Taken => comp[t] \in Taken
    BY <1>9, <1>0 DEF RemovePackage
  <2> QED BY <1>9, <2>1, <1>a DEF RemovePackage
<1>10. ASSUME NEW s \in Sessions, MarkCompleted(s) PROVE WholeInv'
  <2>1. \A t \in Sessions : sess'[t].received = sess[t].received
    BY <1>10, <1>0 DEF MarkCompleted
  <2>2. \A t \in Sessions : comp'[t] \in Taken => comp[t] \in Taken
    BY <1>10, <1>0 DEF MarkCompleted
  <2> QED BY <1>10, <2>1, <2>2, <1>a DEF MarkCompleted
<1>11. ASSUME NEW w \in Writers, NEW s \in Sessions, NEW c \in Chunks, Get(w, s, c) PROVE WholeInv'
  <2>1. \A v \in Writers : v # w => wr'[v] = wr[v]
    BY <1>11, <1>0 DEF Get, At
  <2>2. wr'[w].pc # "wrote"
    BY <1>11, <1>0 DEF Get, At
  <2> QED BY <1>11, <2>1, <2>2 DEF Get, WroteInv, DoneInv, TakenInv, AllReceived, DeliveredWhole
<1>12. ASSUME NEW w \in Writers, LoadDone(w) PROVE WholeInv'
  <2>1. \A v \in Writers : v # w => wr'[v] = wr[v]
    BY <1>12, <1>0 DEF LoadDone, At, Goto, Return, IdleWriter
  <2>2. wr'[w].pc # "wrote"
    BY <1>12, <1>0 DEF LoadDone, At, Goto, Return, IdleWriter
  <2> QED BY <1>12, <2>1, <2>2 DEF LoadDone, WroteInv, DoneInv, TakenInv, AllReceived, DeliveredWhole
<1>13. ASSUME NEW w \in Writers, ClaimChunk(w) PROVE WholeInv'
  <2>1. (\A v \in Writers : v # w => wr'[v] = wr[v]) /\ wr'[w].pc # "wrote"
    BY <1>13, <1>0 DEF ClaimChunk, Goto, Return, IdleWriter
  <2>2. wr[w].s \in Sessions /\ wr[w].c \in Chunks /\ UNCHANGED <<data, comp, delivered>>
    BY <1>13 DEF ClaimChunk, At, PlaceInv
  <2>3. \A t \in Sessions, d \in Chunks :
           \/ sess'[t].received[d] = sess[t].received[d]
           \/ sess[t].received[d] = Free /\ sess'[t].received[d] = Writing
    <3>1. \/ sess' = sess
          \/ /\ sess[wr[w].s].received[wr[w].c] = Free
             /\ sess' = [sess EXCEPT ![wr[w].s].received[wr[w].c] = Writing]
      BY <1>13 DEF ClaimChunk, Claimable
    <3>2. CASE /\ sess[wr[w].s].received[wr[w].c] = Free
               /\ sess' = [sess EXCEPT ![wr[w].s].received[wr[w].c] = Writing]
      <4>1. \A t \in Sessions, d \in Chunks : sess'[t].received[d] =
               IF t = wr[w].s /\ d = wr[w].c THEN Writing ELSE sess[t].received[d]
        BY <2>2, <3>2, <1>s
      <4> QED BY <3>2, <4>1
    <3>3. CASE sess' = sess
      BY <3>3
    <3> QED BY <3>1, <3>2, <3>3, <2>2
  <2>4. WroteInv' /\ DoneInv' /\ DeliveredWhole'
    BY <2>1, <2>2, <2>3 DEF WroteInv, DoneInv, DeliveredWhole
  <2>5. TakenInv'
    BY <2>2, <2>3 DEF TakenInv, AllReceived
  <2> QED BY <2>4, <2>5
<1>14. ASSUME NEW w \in Writers, RefuseChunk(w) PROVE WholeInv'
  <2>1. \A v \in Writers : v # w => wr'[v] = wr[v]
    BY <1>14, <1>0 DEF RefuseChunk, At, Return, IdleWriter
  <2>2. wr'[w].pc # "wrote"
    BY <1>14, <1>0 DEF RefuseChunk, At, Return, IdleWriter
  <2> QED BY <1>14, <2>1, <2>2 DEF RefuseChunk, WroteInv, DoneInv, TakenInv, AllReceived, DeliveredWhole
<1>15. ASSUME NEW w \in Writers, BeginWrite(w) PROVE WholeInv'
  <2>1. wr[w].s \in Sessions /\ wr[w].c \in Chunks /\ Busy(w) /\ UNCHANGED <<sess, comp, delivered>>
    BY <1>15 DEF BeginWrite, At, PlaceInv, Busy
  <2>2. data' = data \/ data' = [data EXCEPT ![wr[w].s][wr[w].c] = "torn"]
    BY <1>15 DEF BeginWrite
  <2>3. \A t \in Sessions, d \in Chunks :
           data'[t][d] = data[t][d] \/ (t = wr[w].s /\ d = wr[w].c)
    BY <2>1, <2>2, <1>0
  <2>4. DoneInv' /\ TakenInv' /\ DeliveredWhole'
    BY <2>1, <2>3 DEF DoneInv, TakenInv, AllReceived, DeliveredWhole, MarkInv
  <2>5. \A v \in Writers : v # w => wr'[v] = wr[v] /\ (wr[v].pc = "wrote" =>
           wr[v].s \in Sessions /\ wr[v].c \in Chunks /\ ~(wr[v].s = wr[w].s /\ wr[v].c = wr[w].c))
    BY <1>15, <2>1, <1>0 DEF BeginWrite, At, Goto, PlaceInv, SoleInv, Busy
  <2>6. wr'[w].pc # "wrote"
    BY <1>15, <2>1, <1>0 DEF BeginWrite, At, Goto
  <2>7. WroteInv'
    BY <2>3, <2>5, <2>6 DEF WroteInv
  <2> QED BY <2>4, <2>7
<1>16. ASSUME NEW w \in Writers, EndWrite(w) PROVE WholeInv'
  <2>1. wr[w].s \in Sessions /\ wr[w].c \in Chunks /\ Busy(w) /\ UNCHANGED <<sess, comp, delivered>>
    BY <1>16 DEF EndWrite, At, PlaceInv, Busy
  <2>2. data' = data \/ data' = [data EXCEPT ![wr[w].s][wr[w].c] = "whole"]
    BY <1>16 DEF EndWrite
  <2>3. \A t \in Sessions, d \in Chunks :
           data'[t][d] = data[t][d] \/ (t = wr[w].s /\ d = wr[w].c)
    BY <2>1, <2>2, <1>0
  <2>4. DoneInv' /\ TakenInv' /\ DeliveredWhole'
    BY <2>1, <2>3 DEF DoneInv, TakenInv, AllReceived, DeliveredWhole, MarkInv
  <2>5. \A v \in Writers : v # w => wr'[v] = wr[v] /\ (wr[v].pc = "wrote" =>
           wr[v].s \in Sessions /\ wr[v].c \in Chunks /\ ~(wr[v].s = wr[w].s /\ wr[v].c = wr[w].c))
    BY <1>16, <2>1, <1>0 DEF EndWrite, At, Goto, PlaceInv, SoleInv, Busy
  <2>6. wr'[w].s = wr[w].s /\ wr'[w].c = wr[w].c /\ data'[wr[w].s][wr[w].c] = "whole"
    BY <1>16, <2>1, <1>0 DEF EndWrite, At, Goto
  <2>7. WroteInv'
    BY <2>3, <2>5, <2>6 DEF WroteInv
  <2> QED BY <2>4, <2>7
<1>17. ASSUME NEW w \in Writers, InterruptWrite(w) PROVE WholeInv'
  <2>1. \A v \in Writers : v # w => wr'[v] = wr[v]
    BY <1>17, <1>0 DEF InterruptWrite, At, Goto
  <2>2. wr'[w].pc # "wrote"
    BY <1>17, <1>0 DEF InterruptWrite, At, Goto
  <2> QED BY <1>17, <2>1, <2>2 DEF InterruptWrite, WroteInv, DoneInv, TakenInv, AllReceived, DeliveredWhole
<1>18. ASSUME NEW w \in Writers, ReleaseClaim(w) PROVE WholeInv'
  <2>1. wr[w].s \in Sessions /\ wr[w].c \in Parts[wr[w].s] /\ Busy(w) /\ UNCHANGED <<data, comp, delivered>>
    BY <1>18 DEF ReleaseClaim, At, PlaceInv, Busy
  <2>2. (\A v \in Writers : v # w => wr'[v] = wr[v]) /\ wr'[w].pc # "wrote"
    BY <1>18, <1>0 DEF ReleaseClaim, Return, IdleWriter
  <2>3. sess[wr[w].s].received[wr[w].c] = Writing
    BY <2>1 DEF MarkInv
  <2>4. PICK x \in {Free} : sess' = [sess EXCEPT ![wr[w].s].received[wr[w].c] = x]
    BY <1>18, <2>3 DEF ReleaseClaim
  <2>5. \A t \in Sessions, d \in Chunks : sess'[t].received[d] =
           IF t = wr[w].s /\ d = wr[w].c THEN x ELSE sess[t].received[d]
    BY <2>1, <2>4, <1>0
  <2>6. UNCHANGED data
    BY <1>18 DEF ReleaseClaim, At, WroteInv
  <2>7. WroteInv' /\ DoneInv' /\ DeliveredWhole'
    BY <2>1, <2>2, <2>5, <2>6 DEF WroteInv, DoneInv, DeliveredWhole
  <2>8. TakenInv'
    <3>1. comp[wr[w].s] \notin Taken
      BY <2>1, <2>3 DEF TakenInv, AllReceived
    <3> QED BY <2>1, <2>5, <3>1 DEF TakenInv, AllReceived
  <2> QED BY <2>7, <2>8
<1>19. ASSUME NEW w \in Writers, FinishChunk(w) PROVE WholeInv'
  <2>1. wr[w].s \in Sessions /\ wr[w].c \in Parts[wr[w].s] /\ Busy(w) /\ UNCHANGED <<data, comp, delivered>>
    BY <1>19 DEF FinishChunk, At, PlaceInv, Busy
  <2>2. (\A v \in Writers : v # w => wr'[v] = wr[v]) /\ wr'[w].pc # "wrote"
    BY <1>19, <1>0 DEF FinishChunk, Return, IdleWriter
  <2>3. sess[wr[w].s].received[wr[w].c] = Writing
    BY <2>1 DEF MarkInv
  <2>4. PICK x \in {Free, Done} : sess' = [sess EXCEPT ![wr[w].s].received[wr[w].c] = x]
    BY <1>19, <2>3 DEF FinishChunk
  <2>5. \A t \in Sessions, d \in Chunks : sess'[t].received[d] =
           IF t = wr[w].s /\ d = wr[w].c THEN x ELSE sess[t].received[d]
    BY <2>1, <2>4, <1>0
  <2>6. data[wr[w].s][wr[w].c] = "whole"
    BY <1>19 DEF FinishChunk, At, WroteInv
  <2>7. WroteInv' /\ DoneInv' /\ DeliveredWhole'
    BY <2>1, <2>2, <2>5, <2>6 DEF WroteInv, DoneInv, DeliveredWhole
  <2>8. TakenInv'
    <3>1. comp[wr[w].s] \notin Taken
      BY <2>1, <2>3 DEF TakenInv, AllReceived
    <3> QED BY <2>1, <2>5, <3>1 DEF TakenInv, AllReceived
  <2> QED BY <2>7, <2>8
<1>20. CASE Crash
  BY <1>20 DEF Crash, Startup, IdleWriter, FreshSession, TypeOK, WroteInv, DoneInv, TakenInv,
         DeliveredWhole, AllReceived
<1>21. CASE UNCHANGED <<wr, sess, data, comp, delivered>>
  BY <1>21 DEF WroteInv, DoneInv, TakenInv, DeliveredWhole, AllReceived
<1>22. ASSUME NEW s \in Sessions,
              Reserve(s) \/ CreateFile(s) \/ CreateFails(s) \/ Register(s) \/ AbortRemove(s)
              \/ AbortOwned(s) \/ AbortExpired(s) \/ ExpiredAborted(s) \/ VisitPartial(s)
              \/ Expire(s) \/ AgeFile(s)
       PROVE  UNCHANGED <<wr, sess, data, comp, delivered>>
  BY <1>22 DEF Reserve, CreateFile, CreateFails, Fault, Register, AbortRemove, AbortOwned,
         AbortExpired, ExpiredAborted, VisitPartial, Expire, AgeFile
<1>23. CASE CleanupExpired \/ StartWalk \/ EndWalk
  BY <1>23, <1>21 DEF CleanupExpired, StartWalk, EndWalk
<1>24. CASE UNCHANGED vars
  BY <1>24, <1>21 DEF vars
<1> QED
  BY <1>1, <1>2, <1>3, <1>4, <1>5, <1>6, <1>7, <1>7a, <1>8, <1>9, <1>10, <1>11, <1>12, <1>13, <1>14, <1>15,
     <1>16, <1>17, <1>18, <1>19, <1>20, <1>21, <1>22, <1>23, <1>24
  DEF Next, CreateNext, WriterNext, AbortNext, FinalizeNext, SweepNext

-----------------------------------------------------------------------------
(* The theorems.                                                          *)

\* The initial states satisfy the inductive invariant.
LEMMA InitInv == Init => IInv
<1> SUFFICES ASSUME Init PROVE IInv
  OBVIOUS
<1> USE NoneAssumption, BoundAssumption DEF Init, Free, Writing, Done, FreshSession, IdleWriter, Startup
<1>1. TypeOK
  BY DEF TypeOK, SessionRecords, ChunkData, WriterRecords, SweepRecords
<1>2. OwnerInv /\ UsableInv
  BY DEF OwnerInv, UsableInv, Expired, Taken
<1>3. LimitKept
  <2>1. Creating = {} /\ sessions \union Creating = {}
    BY DEF Creating
  <2> QED BY <2>1, FS_EmptySet DEF LimitKept
<1>4. ClaimInv /\ WholeInv
  BY DEF ClaimInv, PlaceInv, MarkInv, SoleInv, HeldInv, Busy, WholeInv, WroteInv, DoneInv, TakenInv,
         Taken, DeliveredWhole
<1> QED BY <1>1, <1>2, <1>3, <1>4 DEF IInv

\* IInv is an invariant.
LEMMA Invariance == Spec => []IInv
<1>1. IInv /\ [Next]_vars => IInv'
  BY LimitStep, TypeStep, OwnerStep, UsableStep, ClaimStep, WholeStep DEF IInv
<1> QED BY <1>1, InitInv, PTL DEF Spec

\* The state of the upload service keeps its types.
THEOREM TypeCorrect == Spec => []TypeOK
<1>1. IInv => TypeOK
  BY DEF IInv
<1> QED BY <1>1, Invariance, PTL

\* What a completion hands over was written to the end, chunk by chunk.
THEOREM CompleteIsWhole == Spec => []DeliveredWhole
<1>1. IInv => DeliveredWhole
  BY DEF IInv, WholeInv
<1> QED BY <1>1, Invariance, PTL

\* Completion, cancellation and expiry exclude each other, and only a completion
\* that fails after the move aborts a session whose file was handed over.
THEOREM ExclusiveOwner == Spec => []OneOwner
<1>1. IInv => OneOwner
  BY DEF IInv, OwnerInv, OneOwner, Taken
<1> QED BY <1>1, Invariance, PTL

\* MaxSessions holds with the sessions that are being created.
THEOREM SessionLimit == Spec => []LimitKept
<1>1. IInv => LimitKept
  BY DEF IInv
<1> QED BY <1>1, Invariance, PTL

\* A session in the table can be written to and completed.
THEOREM TableUsable == Spec => []RetryPossible
<1>1. IInv => RetryPossible
  BY DEF IInv, TypeOK, UsableInv, RetryPossible
<1> QED BY <1>1, Invariance, PTL

\* Every mark of a chunk being written has exactly one writer.
THEOREM ClaimsMatch == Spec => []ClaimsHeld
<1>1. ASSUME IInv PROVE ClaimsHeld
  <2> SUFFICES ASSUME NEW s \in Sessions, NEW c \in Chunks
               PROVE  Cardinality(Holders(s, c)) = IF sess[s].received[c] = Writing THEN 1 ELSE 0
    BY DEF ClaimsHeld
  <2>1. MarkInv /\ SoleInv /\ HeldInv
    BY <1>1 DEF IInv, ClaimInv
  <2>2. CASE sess[s].received[c] = Writing
    <3>1. PICK w \in Writers : Busy(w) /\ wr[w].s = s /\ wr[w].c = c
      BY <2>1, <2>2 DEF HeldInv
    <3>2. Holders(s, c) = {w}
      BY <2>1, <3>1 DEF SoleInv, Holders
    <3> QED BY <2>2, <3>2, FS_Singleton
  <2>3. CASE sess[s].received[c] # Writing
    <3>1. Holders(s, c) = {}
      BY <2>1, <2>3 DEF MarkInv, Holders
    <3> QED BY <2>3, <3>1, FS_EmptySet
  <2> QED BY <2>2, <2>3
<1> QED BY <1>1, Invariance, PTL

-----------------------------------------------------------------------------
(* The refinement.  An abstract step is about one session, or ends several. *)

\* What the mapping says of one session: phase, stored chunks and publication.
Published(s) == delivered[s] # None /\ \A c \in Parts[s] : delivered[s][c] = "whole"
SameView(s) == Phase(s)' = Phase(s) /\ Stored(s)' = Stored(s) /\ Published(s)' = Published(s)
OthersKeepView(s) == \A t \in Sessions : t # s => SameView(t)

\* The abstract variables under the mapping.
PhaseMap == [s \in Sessions |-> Phase(s)]
StoredMap == [s \in Sessions |-> Stored(s)]
PublishedMap == [s \in Sessions |-> Published(s)]

AbstractNext == Abstract!SessionNext
Stutter == UNCHANGED Abstract!sessionVars

\* Sessions whose view does not change make a stuttering step.
LEMMA MapStutter == (\A s \in Sessions : SameView(s)) => Stutter
<1> SUFFICES ASSUME \A s \in Sessions : SameView(s) PROVE Stutter
  OBVIOUS
<1>1. PhaseMap' = PhaseMap
  BY DEF SameView, PhaseMap
<1>2. StoredMap' = StoredMap
  BY DEF SameView, StoredMap
<1>3. PublishedMap' = PublishedMap
  BY DEF SameView, PublishedMap
<1> QED BY <1>1, <1>2, <1>3 DEF Stutter, Abstract!sessionVars, PhaseMap, StoredMap, PublishedMap, Published

\* A step that opens one session and leaves the views of the others alone.
LEMMA MapOpen ==
    ASSUME NEW s \in Sessions, OthersKeepView(s), Phase(s) = "none", Phase(s)' = "open",
           Stored(s)' = Stored(s), Published(s)' = Published(s)
    PROVE  AbstractNext
<1>1. PhaseMap' = [PhaseMap EXCEPT ![s] = "open"]
  BY DEF OthersKeepView, SameView, PhaseMap
<1>2. StoredMap' = StoredMap /\ PublishedMap' = PublishedMap
  BY DEF OthersKeepView, SameView, StoredMap, PublishedMap
<1>3. Abstract!OpenSession(s)
  BY <1>1, <1>2 DEF Abstract!OpenSession, PhaseMap, StoredMap, PublishedMap, Published
<1> QED BY <1>3 DEF AbstractNext, Abstract!SessionNext

\* A step that stores one more chunk of an open session.
LEMMA MapStore ==
    ASSUME NEW s \in Sessions, NEW c \in Parts[s], OthersKeepView(s),
           Phase(s) = "open", c \notin Stored(s),
           Phase(s)' = "open", Stored(s)' = Stored(s) \union {c}, Published(s)' = Published(s)
    PROVE  AbstractNext
<1>1. StoredMap' = [StoredMap EXCEPT ![s] = @ \union {c}]
  BY DEF OthersKeepView, SameView, StoredMap
<1>2. PhaseMap' = PhaseMap /\ PublishedMap' = PublishedMap
  BY DEF OthersKeepView, SameView, PhaseMap, PublishedMap
<1>3. Abstract!StoreChunk(s, c)
  BY <1>1, <1>2 DEF Abstract!StoreChunk, PhaseMap, StoredMap, PublishedMap, Published
<1> QED BY <1>3 DEF AbstractNext, Abstract!SessionNext

\* A step that closes a session all of whose chunks are stored.
LEMMA MapClose ==
    ASSUME NEW s \in Sessions, OthersKeepView(s), Phase(s) = "open", Stored(s) = Parts[s],
           Phase(s)' = "closing", Stored(s)' = Stored(s), Published(s)' = Published(s)
    PROVE  AbstractNext
<1>1. PhaseMap' = [PhaseMap EXCEPT ![s] = "closing"]
  BY DEF OthersKeepView, SameView, PhaseMap
<1>2. StoredMap' = StoredMap /\ PublishedMap' = PublishedMap
  BY DEF OthersKeepView, SameView, StoredMap, PublishedMap
<1>3. Abstract!CloseSession(s)
  BY <1>1, <1>2 DEF Abstract!CloseSession, PhaseMap, StoredMap, PublishedMap, Published
<1> QED BY <1>3 DEF AbstractNext, Abstract!SessionNext

\* A step that publishes the file of a session.
LEMMA MapPublish ==
    ASSUME NEW s \in Sessions, OthersKeepView(s), Phase(s) = "closing",
           Phase(s)' = "over", Published(s)'
    PROVE  AbstractNext
<1>1. Stored(s)' = {}
  BY DEF Stored
<1>2. PhaseMap' = [PhaseMap EXCEPT ![s] = "over"] /\ StoredMap' = [StoredMap EXCEPT ![s] = {}]
  BY <1>1 DEF OthersKeepView, SameView, PhaseMap, StoredMap
<1>3. PublishedMap' = [PublishedMap EXCEPT ![s] = TRUE]
  <2>1. Published(s)' = TRUE
    BY DEF Published
  <2> QED BY <2>1 DEF OthersKeepView, SameView, PublishedMap
<1>4. Abstract!PublishFile(s)
  BY <1>2, <1>3 DEF Abstract!PublishFile, PhaseMap, StoredMap, PublishedMap, Published
<1> QED BY <1>4 DEF AbstractNext, Abstract!SessionNext

\* A step that ends the sessions of a set without a result.
LEMMA MapEnd ==
    ASSUME NEW S \in SUBSET Sessions, \A t \in Sessions \ S : SameView(t),
           \A s \in S : Phase(s) # "over" /\ Phase(s)' = "over" /\ Published(s)' = Published(s)
    PROVE  Stutter \/ AbstractNext
<1>1. CASE S = {}
  BY <1>1, MapStutter
<1>2. CASE S # {}
  <2>1. \A s \in S : Stored(s)' = {}
    BY DEF Stored
  <2>2. PhaseMap' = [s \in Sessions |-> IF s \in S THEN "over" ELSE PhaseMap[s]]
    BY DEF SameView, PhaseMap
  <2>3. StoredMap' = [s \in Sessions |-> IF s \in S THEN {} ELSE StoredMap[s]]
    BY <2>1 DEF SameView, StoredMap
  <2>4. PublishedMap' = PublishedMap
    BY DEF SameView, PublishedMap
  <2>5. \A s \in S : PhaseMap[s] # "over"
    BY DEF PhaseMap
  <2>6. Abstract!EndSessions(S)
    BY <1>2, <2>2, <2>3, <2>4, <2>5 DEF Abstract!EndSessions, PhaseMap, StoredMap, PublishedMap, Published
  <2> QED BY <2>6 DEF AbstractNext, Abstract!SessionNext
<1> QED BY <1>1, <1>2

\* One session ends without a result.
LEMMA MapEndOne ==
    ASSUME NEW s \in Sessions, OthersKeepView(s), Phase(s) # "over", Phase(s)' = "over",
           Published(s)' = Published(s)
    PROVE  Stutter \/ AbstractNext
<1>1. \A t \in Sessions \ {s} : SameView(t)
  BY DEF OthersKeepView
<1>2. /\ {s} \in SUBSET Sessions
      /\ \A t \in {s} : Phase(t) # "over" /\ Phase(t)' = "over" /\ Published(t)' = Published(t)
  OBVIOUS
<1> HIDE DEF Stutter, AbstractNext
<1> QED BY <1>1, <1>2, MapEnd

\* The phase of a session depends on where its creation and its completion are, and on the table.
LEMMA PhaseKept ==
    ASSUME NEW s \in Sessions, init'[s] = init[s], comp'[s] = comp[s], s \in sessions' <=> s \in sessions
    PROVE  Phase(s)' = Phase(s)
BY DEF Phase

\* The stored chunks depend on the phase, the marks and the contents.
LEMMA ViewKept ==
    ASSUME NEW s \in Sessions, Phase(s)' = Phase(s), sess'[s].received = sess[s].received,
           data'[s] = data[s], delivered'[s] = delivered[s]
    PROVE  SameView(s)
<1>1. Stored(s)' = Stored(s)
  BY DEF Stored
<1>2. Published(s)' = Published(s)
  BY DEF Published
<1> QED BY <1>1, <1>2 DEF SameView

\* What a step has to leave alone so that the view of a session stays.
Untouched(t) ==
    /\ init'[t] = init[t] /\ comp'[t] = comp[t] /\ (t \in sessions' <=> t \in sessions)
    /\ sess'[t].received = sess[t].received /\ data'[t] = data[t] /\ delivered'[t] = delivered[t]

\* A session that a step does not touch keeps what the abstract specification sees of it.
LEMMA UntouchedKept == ASSUME NEW t \in Sessions, Untouched(t) PROVE SameView(t)
<1>1. Phase(t)' = Phase(t)
  BY PhaseKept DEF Untouched
<1> QED BY <1>1, ViewKept DEF Untouched

\* Every step that touches no session at all is a stuttering step.
LEMMA UntouchedStutter == (\A t \in Sessions : Untouched(t)) => Stutter
BY UntouchedKept, MapStutter

\* The steps of CreateSession.
LEMMA RefineCreate ==
    ASSUME IInv, NEW s \in Sessions, CreateNext(s)
    PROVE  Stutter \/ AbstractNext
<1> USE DEF managerVars, fileVars, boundVars
<1>0. TypeOK /\ OwnerInv /\ UsableInv
  BY DEF IInv
<1>1. CASE Reserve(s)
  <2>1. init[s] = "none" /\ init' = [init EXCEPT ![s] = "reserved"] /\ UNCHANGED <<sessions, sess, data, comp, delivered>>
    BY <1>1 DEF Reserve
  <2>2. \A t \in Sessions : t # s => SameView(t)
    BY <2>1, <1>0, UntouchedKept DEF Untouched, TypeOK
  <2>3. Phase(s) = "none" /\ Phase(s)' = "none"
    BY <2>1, <1>0 DEF Phase, OwnerInv, TypeOK
  <2>4. SameView(s)
    BY <2>1, <2>3, ViewKept
  <2> QED BY <2>2, <2>4, MapStutter
<1>2. CASE CreateFile(s)
  <2>1. init[s] = "reserved" /\ init' = [init EXCEPT ![s] = "created"] /\ UNCHANGED <<sessions, sess, data, comp, delivered>>
    BY <1>2 DEF CreateFile
  <2>2. \A t \in Sessions : t # s => SameView(t)
    BY <2>1, <1>0, UntouchedKept DEF Untouched, TypeOK
  <2>3. Phase(s) = "none" /\ Phase(s)' = "none"
    BY <2>1, <1>0 DEF Phase, OwnerInv, TypeOK
  <2>4. SameView(s)
    BY <2>1, <2>3, ViewKept
  <2> QED BY <2>2, <2>4, MapStutter
<1>3. CASE CreateFails(s)
  <2>1. init[s] \in {"reserved", "created"} /\ init' = [init EXCEPT ![s] = "gone"]
        /\ UNCHANGED <<sessions, sess, data, comp, delivered>>
    BY <1>3 DEF CreateFails
  <2>2. OthersKeepView(s)
    BY <2>1, <1>0, UntouchedKept DEF OthersKeepView, Untouched, TypeOK
  <2>3. s \notin sessions /\ comp[s] = "no"
    BY <2>1, <1>0 DEF OwnerInv
  <2>4. Phase(s) = "none" /\ Phase(s)' = "over"
    BY <2>1, <2>3, <1>0 DEF Phase, TypeOK
  <2>5. Published(s)' = Published(s)
    BY <2>1 DEF Published
  <2> QED BY <2>2, <2>4, <2>5, MapEndOne
<1>4. CASE Register(s)
  <2>1. init[s] = "created" /\ init' = [init EXCEPT ![s] = "live"] /\ sessions' = sessions \union {s}
        /\ UNCHANGED <<sess, data, comp, delivered>>
    BY <1>4 DEF Register
  <2>2. OthersKeepView(s)
    BY <2>1, <1>0, UntouchedKept DEF OthersKeepView, Untouched, TypeOK
  <2>3. Phase(s) = "none" /\ Phase(s)' = "open"
    BY <2>1, <1>0 DEF Phase, OwnerInv, TypeOK
  <2>4. Stored(s) = {} /\ Stored(s)' = {}
    <3>1. \A c \in Parts[s] : sess[s].received[c] # Done
      BY <2>1, <1>0, PartsAssumption DEF UsableInv, FreshSession, Free, Done
    <3> QED BY <2>1, <2>3, <3>1 DEF Stored
  <2>5. Published(s)' = Published(s)
    BY <2>1 DEF Published
  <2> QED BY <2>2, <2>3, <2>4, <2>5, MapOpen
<1> QED BY <1>1, <1>2, <1>3, <1>4 DEF CreateNext

\* The steps of Session.Abort, and of time, touch nothing the view depends on.
LEMMA RefineAbort ==
    ASSUME IInv, NEW s \in Sessions, AbortNext(s) \/ AbortExpired(s) \/ Expire(s) \/ AgeFile(s)
    PROVE  Stutter
<1> USE DEF managerVars, fileVars, boundVars
<1>0. sess \in [Sessions -> SessionRecords]
  BY DEF IInv, TypeOK
<1>1. UNCHANGED <<sessions, init, data, comp, delivered>>
  BY DEF AbortNext, AbortClaim, AbortRemove, AbortStore, AbortExpired, Expire, AgeFile
<1>2. \/ sess' = sess
      \/ sess' = [sess EXCEPT ![s].aborting = TRUE, ![s].closed = TRUE]
      \/ sess' = [sess EXCEPT ![s].done = TRUE]
  BY DEF AbortNext, AbortClaim, AbortRemove, AbortStore, AbortExpired, Expire, AgeFile
<1>3. \A t \in Sessions : sess'[t].received = sess[t].received
  <2>1. CASE sess' = [sess EXCEPT ![s].aborting = TRUE, ![s].closed = TRUE]
    BY <2>1, <1>0 DEF SessionRecords
  <2>2. CASE sess' = [sess EXCEPT ![s].done = TRUE]
    BY <2>2, <1>0 DEF SessionRecords
  <2> QED BY <1>2, <2>1, <2>2
<1> QED BY <1>1, <1>3, UntouchedStutter DEF Untouched

\* The steps of the requests that write chunks.
LEMMA RefineWriter ==
    ASSUME IInv, NEW w \in Writers, WriterNext(w)
    PROVE  Stutter \/ AbstractNext
<1> USE DEF managerVars, fileVars, boundVars
<1>0. /\ TypeOK /\ OwnerInv /\ PlaceInv /\ MarkInv /\ WroteInv /\ TakenInv
      /\ sess \in [Sessions -> SessionRecords] /\ data \in [Sessions -> ChunkData]
  BY DEF IInv, TypeOK, ClaimInv, WholeInv
<1> DEFINE s == wr[w].s  c == wr[w].c
<1>1. CASE (\E t \in Sessions, d \in Chunks : Get(w, t, d)) \/ LoadDone(w) \/ RefuseChunk(w) \/ InterruptWrite(w)
  <2>1. UNCHANGED <<sessions, init, sess, data, comp, delivered>>
    BY <1>1 DEF Get, LoadDone, RefuseChunk, InterruptWrite
  <2> QED BY <2>1, UntouchedStutter DEF Untouched
<1>2. ASSUME w \in Writers, wr[w].pc # "idle"
      PROVE  s \in Sessions /\ c \in Parts[s] /\ c \in Chunks /\ init[s] = "live"
  BY <1>0, <1>2, PartsAssumption DEF PlaceInv
<1>3. CASE ClaimChunk(w)
  <2>1. /\ wr[w].pc = "claim" /\ UNCHANGED <<sessions, init, data, comp, delivered>>
        /\ \/ sess' = sess
           \/ sess[s].received[c] = Free /\ sess' = [sess EXCEPT ![s].received[c] = Writing]
    BY <1>3 DEF ClaimChunk, Claimable, At
  <2>2. ASSUME sess[s].received[c] = Free, sess' = [sess EXCEPT ![s].received[c] = Writing],
               NEW t \in Sessions
        PROVE  SameView(t)
    <3> HIDE DEF s, c
    <3>0. \A d \in Chunks : sess'[t].received[d] = Done <=> sess[t].received[d] = Done
      BY <2>2, <1>0 DEF SessionRecords, Free, Writing, Done
    <3>1. Phase(t)' = Phase(t)
      BY <2>1, PhaseKept
    <3>2. Stored(t)' = Stored(t)
      BY <2>1, <3>0, <3>1, PartsAssumption DEF Stored
    <3> QED BY <2>1, <3>1, <3>2 DEF SameView, Published
  <2>3. CASE sess' = sess
    BY <2>1, <2>3, UntouchedStutter DEF Untouched
  <2> QED BY <2>1, <2>2, <2>3, MapStutter
<1>4. CASE BeginWrite(w) \/ EndWrite(w)
  <2>1. /\ wr[w].pc \in {"write", "writing"} /\ UNCHANGED <<sessions, init, sess, comp, delivered>>
        /\ \E v \in {"torn", "whole"} : data' = data \/ data' = [data EXCEPT ![s][c] = v]
    BY <1>4 DEF BeginWrite, EndWrite, At
  <2>2. s \in Sessions /\ c \in Chunks /\ sess[s].received[c] # Done
    BY <1>0, <1>2, <2>1 DEF MarkInv, Busy, Writing, Done
  <2>3. ASSUME NEW t \in Sessions PROVE SameView(t)
    <3> HIDE DEF s, c
    <3>1. \A d \in Chunks : data'[t][d] = data[t][d] \/ sess[t].received[d] # Done
      BY <2>1, <2>2, <1>0 DEF ChunkData
    <3>2. Phase(t)' = Phase(t)
      BY <2>1, PhaseKept
    <3>3. Stored(t)' = Stored(t)
      BY <2>1, <3>1, <3>2, PartsAssumption DEF Stored
    <3> QED BY <2>1, <3>2, <3>3 DEF SameView, Published
  <2> QED BY <2>3, MapStutter
<1>5. CASE ReleaseClaim(w) \/ FinishChunk(w)
  <2>1. /\ wr[w].pc \in {"short", "wrote"} /\ UNCHANGED <<sessions, init, data, comp, delivered>>
        /\ Busy(w)
    BY <1>5 DEF ReleaseClaim, FinishChunk, At, Busy
  <2>0. PICK x \in Sessions, y \in Chunks : x = s /\ y = c
    BY <1>2, <2>1
  <2>2. y \in Parts[x] /\ sess[x].received[y] = Writing /\ init[x] = "live"
    BY <1>0, <1>2, <2>0, <2>1 DEF MarkInv
  <2>3. \/ sess' = [sess EXCEPT ![x].received[y] = Free]
        \/ wr[w].pc = "wrote" /\ sess' = [sess EXCEPT ![x].received[y] = Done]
    BY <1>5, <2>0, <2>2 DEF ReleaseClaim, FinishChunk, At
  <2>4. \A t \in Sessions : Phase(t)' = Phase(t) /\ Published(t)' = Published(t)
    BY <2>1, PhaseKept DEF Published
  <2>5. ASSUME NEW v \in {Free, Done}, sess' = [sess EXCEPT ![x].received[y] = v]
        PROVE  \A t \in Sessions, d \in Chunks :
                  sess'[t].received[d] = IF t = x /\ d = y THEN v ELSE sess[t].received[d]
    BY <2>5, <2>2, <1>0 DEF SessionRecords
  <2>6. CASE sess' = [sess EXCEPT ![x].received[y] = Free]
    <3>1. \A t \in Sessions, d \in Chunks : sess'[t].received[d] = Done <=> sess[t].received[d] = Done
      BY <2>2, <2>5, <2>6 DEF Free, Writing, Done
    <3>2. \A t \in Sessions : Stored(t)' = Stored(t)
      BY <2>1, <2>4, <3>1, PartsAssumption DEF Stored
    <3> QED BY <2>4, <3>2, MapStutter DEF SameView
  <2>7. CASE wr[w].pc = "wrote" /\ sess' = [sess EXCEPT ![x].received[y] = Done]
    <3>1. \A t \in Sessions, d \in Chunks :
             sess'[t].received[d] = IF t = x /\ d = y THEN Done ELSE sess[t].received[d]
      BY <2>5, <2>7
    <3>2. data[x][y] = "whole"
      BY <2>0, <2>7, <1>0 DEF WroteInv
    <3>3. \A t \in Sessions : t # x => Stored(t)' = Stored(t)
      BY <2>1, <2>4, <3>1, PartsAssumption DEF Stored
    <3>4. comp[x] \notin Taken
      BY <2>2, <1>0 DEF TakenInv, AllReceived, Writing, Done
    <3>5. CASE x \in sessions
      <4>1. Phase(x) = "open"
        BY <3>4, <3>5, <2>2 DEF Phase, Taken
      <4>2. y \notin Stored(x) /\ Stored(x)' = Stored(x) \union {y}
        BY <2>1, <2>2, <2>4, <3>1, <3>2, <4>1, PartsAssumption DEF Stored, Writing, Done
      <4>3. OthersKeepView(x) /\ Phase(x)' = "open" /\ Published(x)' = Published(x)
        BY <2>4, <3>3, <4>1 DEF OthersKeepView, SameView
      <4> QED BY <2>2, <4>1, <4>2, <4>3, MapStore
    <3>6. CASE x \notin sessions
      <4>1. Phase(x) = "over"
        BY <3>4, <3>6, <2>2 DEF Phase, Taken
      <4>2. Stored(x) = {} /\ Stored(x)' = {}
        BY <2>2, <2>4, <4>1 DEF Stored
      <4> QED BY <2>4, <3>3, <4>2, MapStutter DEF SameView
    <3> QED BY <3>5, <3>6
  <2> QED BY <2>3, <2>6, <2>7
<1> QED BY <1>1, <1>3, <1>4, <1>5 DEF WriterNext

\* The steps of handleComplete and handleAbort.
LEMMA RefineCompletion ==
    ASSUME IInv, NEW s \in Sessions, BeginCompletion(s) \/ FinalizeNext(s) \/ AbortOwned(s)
    PROVE  Stutter \/ AbstractNext
<1> USE DEF managerVars, fileVars, boundVars
<1>0. /\ TypeOK /\ OwnerInv /\ UsableInv /\ DoneInv /\ TakenInv
      /\ sess \in [Sessions -> SessionRecords]
      /\ comp \in [Sessions -> {"no", "check", "owned", "deliver", "remove", "mark", "over"}]
  BY DEF IInv, TypeOK, WholeInv
<1>a. ASSUME \A t \in Sessions : t # s => comp'[t] = comp[t] /\ (t \in sessions' <=> t \in sessions)
                                          /\ delivered'[t] = delivered[t],
             \A t \in Sessions : sess'[t].received = sess[t].received,
             UNCHANGED <<init, data>>
      PROVE  OthersKeepView(s)
  BY <1>a, UntouchedKept DEF OthersKeepView, Untouched
<1>1. CASE BeginCompletion(s)
  <2>1. /\ s \in sessions /\ comp' = [comp EXCEPT ![s] = "check"] /\ sess' = [sess EXCEPT ![s].done = TRUE]
        /\ UNCHANGED <<sessions, init, data, delivered>>
    BY <1>1 DEF BeginCompletion
  <2>2. \A t \in Sessions : sess'[t].received = sess[t].received
    BY <2>1, <1>0 DEF SessionRecords
  <2>3. OthersKeepView(s)
    BY <2>1, <2>2, <1>0, <1>a
  <2>4. Phase(s) = "open" /\ Phase(s)' = "open"
    BY <2>1, <1>0 DEF Phase, OwnerInv
  <2>5. SameView(s)
    BY <2>1, <2>2, <2>4, ViewKept
  <2> QED BY <2>3, <2>5, MapStutter DEF OthersKeepView
<1>2. CASE CheckComplete(s)
  <2>1. s \in sessions /\ comp[s] = "check" /\ init[s] = "live" /\ UNCHANGED <<init, data, delivered>>
    BY <1>2, <1>0 DEF CheckComplete, OwnerInv
  <2>2. Phase(s) = "open"
    BY <2>1 DEF Phase
  <2>3. CASE Unfinished(s)
    <3>1. /\ comp' = [comp EXCEPT ![s] = "no"] /\ sessions' = sessions
          /\ sess' = [sess EXCEPT ![s].done = sess[s].closed \/ sess[s].aborting]
      BY <2>3 DEF Unfinished
    <3>2. \A t \in Sessions : sess'[t].received = sess[t].received
      BY <3>1, <1>0 DEF SessionRecords
    <3>3. OthersKeepView(s)
      BY <2>1, <3>1, <3>2, <1>0, <1>a
    <3>4. Phase(s)' = "open"
      BY <2>1, <3>1, <1>0 DEF Phase
    <3>5. SameView(s)
      BY <2>1, <2>2, <3>2, <3>4, ViewKept
    <3> QED BY <3>3, <3>5, MapStutter DEF OthersKeepView
  <2>4. CASE TakeOver(s)
    <3>1. /\ AllReceived(s) /\ comp' = [comp EXCEPT ![s] = "owned"] /\ sessions' = sessions \ {s} /\ sess' = sess
      BY <2>4 DEF TakeOver
    <3>2. OthersKeepView(s)
      BY <2>1, <3>1, <1>0, <1>a
    <3>3. Phase(s)' = "closing"
      BY <2>1, <3>1, <1>0 DEF Phase
    <3>4. Stored(s) = Parts[s] /\ Stored(s)' = Parts[s]
      BY <2>1, <2>2, <3>1, <3>3, <1>0, PartsAssumption DEF Stored, AllReceived, DoneInv
    <3>5. Published(s)' = Published(s)
      BY <2>1 DEF Published
    <3> QED BY <2>2, <3>2, <3>3, <3>4, <3>5, MapClose
  <2> QED BY <1>2, <2>3, <2>4 DEF CheckComplete
<1>3. CASE CloseFile(s)
  <2>1. /\ comp[s] = "owned" /\ UNCHANGED <<sessions, init, sess, data, delivered>>
        /\ comp' = [comp EXCEPT ![s] = "deliver"] \/ comp' = [comp EXCEPT ![s] = "over"]
    BY <1>3 DEF CloseFile, GiveUp
  <2>2. OthersKeepView(s)
    BY <2>1, <1>0, <1>a
  <2>3. s \notin sessions /\ init[s] \notin {"none", "reserved", "created"}
    BY <2>1, <1>0 DEF OwnerInv, Taken
  <2>4. Phase(s) = "closing" /\ Published(s)' = Published(s)
    BY <2>1, <2>3 DEF Phase, Published
  <2>5. CASE comp' = [comp EXCEPT ![s] = "deliver"]
    <3>1. Phase(s)' = "closing"
      BY <2>1, <2>3, <2>5, <1>0 DEF Phase
    <3>2. SameView(s)
      BY <2>1, <2>4, <3>1, ViewKept
    <3> QED BY <2>2, <3>2, MapStutter DEF OthersKeepView
  <2>6. CASE comp' = [comp EXCEPT ![s] = "over"]
    <3>1. Phase(s)' = "over"
      BY <2>1, <2>3, <2>6, <1>0 DEF Phase
    <3> QED BY <2>2, <2>4, <3>1, MapEndOne
  <2> QED BY <2>1, <2>5, <2>6
<1>4. CASE Reject(s) \/ ((ExtractPackage(s) \/ DeliveryFails(s)) /\ delivered' = delivered)
  <2>1. /\ comp[s] = "deliver" /\ UNCHANGED <<sessions, init, sess, data, delivered>>
        /\ \E pc \in {"over", "remove"} : comp' = [comp EXCEPT ![s] = pc]
    BY <1>4 DEF Reject, GiveUp, ExtractPackage, DeliveryFails
  <2>2. OthersKeepView(s)
    BY <2>1, <1>0, <1>a
  <2>3. s \notin sessions /\ init[s] \notin {"none", "reserved", "created"}
    BY <2>1, <1>0 DEF OwnerInv, Taken
  <2>4. Phase(s) = "closing" /\ Phase(s)' = "over" /\ Published(s)' = Published(s)
    BY <2>1, <2>3, <1>0 DEF Phase, Published
  <2> QED BY <2>2, <2>4, MapEndOne
<1>5. CASE \/ DeliverStorage(s)
           \/ (ExtractPackage(s) \/ DeliveryFails(s)) /\ delivered' # delivered
  <2>1. /\ comp[s] = "deliver" /\ UNCHANGED <<sessions, init, sess, data>>
        /\ \E pc \in {"mark", "remove", "over"} : comp' = [comp EXCEPT ![s] = pc]
        /\ delivered' = [delivered EXCEPT ![s] = data[s]]
    BY <1>5 DEF DeliverStorage, ExtractPackage, DeliveryFails, GiveUp
  <2>2. OthersKeepView(s)
    BY <2>1, <1>0, <1>a DEF TypeOK
  <2>3. s \notin sessions /\ init[s] \notin {"none", "reserved", "created"} /\ AllReceived(s)
    BY <2>1, <1>0 DEF OwnerInv, TakenInv, Taken
  <2>4. Phase(s) = "closing" /\ Phase(s)' = "over"
    BY <2>1, <2>3, <1>0 DEF Phase
  <2>5. delivered'[s] = data[s] /\ data[s] # None
    BY <2>1, <1>0, NoneAssumption DEF TypeOK
  <2>6. Published(s)'
    BY <2>3, <2>5, <1>0, PartsAssumption DEF Published, AllReceived, DoneInv
  <2> QED BY <2>2, <2>4, <2>6, MapPublish
<1>6. CASE RemovePackage(s) \/ MarkCompleted(s)
  <2>1. /\ comp[s] \in {"remove", "mark"} /\ UNCHANGED <<sessions, init, data, delivered>>
        /\ \E pc \in {"mark", "over"} : comp' = [comp EXCEPT ![s] = pc]
        /\ sess' = sess \/ sess' = [sess EXCEPT ![s].closed = TRUE, ![s].done = TRUE]
    BY <1>6 DEF RemovePackage, MarkCompleted
  <2>2. \A t \in Sessions : sess'[t].received = sess[t].received
    BY <2>1, <1>0 DEF SessionRecords
  <2>3. OthersKeepView(s)
    BY <2>1, <2>2, <1>0, <1>a
  <2>4. s \notin sessions /\ init[s] \notin {"none", "reserved", "created"}
    BY <2>1, <1>0 DEF OwnerInv, Taken
  <2>5. Phase(s) = "over" /\ Phase(s)' = "over"
    BY <2>1, <2>4, <1>0 DEF Phase
  <2>6. SameView(s)
    BY <2>1, <2>2, <2>5, ViewKept
  <2> QED BY <2>3, <2>6, MapStutter DEF OthersKeepView
<1>7. CASE AbortOwned(s)
  <2>1. /\ s \in sessions /\ comp[s] # "check" /\ sessions' = sessions \ {s}
        /\ UNCHANGED <<init, sess, data, comp, delivered>>
    BY <1>7 DEF AbortOwned, MuFree
  <2>2. OthersKeepView(s)
    BY <2>1, <1>a
  <2>3. init[s] = "live" /\ comp[s] = "no"
    BY <2>1, <1>0 DEF OwnerInv
  <2>4. Phase(s) = "open" /\ Phase(s)' = "over" /\ Published(s)' = Published(s)
    BY <2>1, <2>3 DEF Phase, Published
  <2> QED BY <2>2, <2>4, MapEndOne
<1> QED BY <1>1, <1>2, <1>3, <1>4, <1>5, <1>6, <1>7 DEF FinalizeNext

\* The steps of the cleanup task, and crashes.
LEMMA RefineSweep ==
    ASSUME IInv, SweepNext \/ Crash
    PROVE  Stutter \/ AbstractNext
<1> USE DEF managerVars, fileVars, boundVars
<1>0. TypeOK /\ OwnerInv
  BY DEF IInv
<1>1. CASE CleanupExpired
  <2> DEFINE S == {s \in sessions : old[s]}
  <2>1. /\ sessions' = sessions \ S /\ UNCHANGED <<init, sess, data, comp, delivered>>
        /\ \A s \in Sessions : comp[s] # "check"
    BY <1>1 DEF CleanupExpired, MuFree
  <2>2. S \in SUBSET Sessions
    BY <1>0 DEF TypeOK
  <2>3. \A t \in Sessions \ S : SameView(t)
    BY <2>1, UntouchedKept DEF Untouched
  <2>4. \A s \in S : init[s] = "live" /\ comp[s] = "no" /\ s \in sessions /\ s \notin sessions'
    BY <2>1, <2>2, <1>0 DEF OwnerInv
  <2>5. \A s \in S : Phase(s) = "open" /\ Phase(s)' = "over" /\ Published(s)' = Published(s)
    BY <2>1, <2>4 DEF Phase, Published
  <2> HIDE DEF S
  <2> QED BY <2>2, <2>3, <2>5, MapEnd
<1>2. CASE Crash
  <2> DEFINE S == {s \in Sessions : Phase(s) \in {"open", "closing"} \/ init[s] \in {"reserved", "created"}}
  <2>1. /\ sessions' = {} /\ init' = [s \in Sessions |-> IF init[s] = "none" THEN "none" ELSE "gone"]
        /\ comp' = [s \in Sessions |-> "no"] /\ delivered' = delivered
    BY <1>2 DEF Crash
  <2>2. \A s \in Sessions : Published(s)' = Published(s)
    BY <2>1 DEF Published
  <2>3. \A s \in Sessions : Phase(s)' = IF init[s] = "none" THEN "none" ELSE "over"
    BY <2>1 DEF Phase
  <2>4. \A s \in Sessions : init[s] = "none" => Phase(s) = "none"
    BY <1>0 DEF OwnerInv, Phase
  <2>5. \A s \in Sessions : init[s] \in {"reserved", "created"} => Phase(s) = "none"
    BY <1>0 DEF OwnerInv, Phase
  <2>6. \A s \in Sessions : init[s] \notin {"none", "reserved", "created"} => Phase(s) \in {"open", "closing", "over"}
    BY DEF Phase
  <2>7. \A s \in S : s \in Sessions /\ Phase(s) # "over" /\ Phase(s)' = "over"
    BY <2>3, <2>4, <2>5
  <2>8. ASSUME NEW t \in Sessions \ S PROVE SameView(t)
    <3>1. Phase(t)' = Phase(t) /\ Phase(t) \in {"none", "over"}
      BY <2>3, <2>4, <2>6
    <3>2. Stored(t)' = Stored(t)
      BY <3>1 DEF Stored
    <3> QED BY <2>2, <3>1, <3>2 DEF SameView
  <2>9. S \in SUBSET Sessions
    OBVIOUS
  <2> HIDE DEF S
  <2> QED BY <2>2, <2>7, <2>8, <2>9, MapEnd
<1>3. CASE StartWalk \/ EndWalk \/ \E s \in Sessions : AbortExpired(s) \/ ExpiredAborted(s) \/ VisitPartial(s)
  <2>1. UNCHANGED <<sessions, init, sess, data, comp, delivered>>
    BY <1>3 DEF StartWalk, EndWalk, AbortExpired, ExpiredAborted, VisitPartial
  <2> QED BY <2>1, UntouchedStutter DEF Untouched
<1> QED BY <1>1, <1>2, <1>3 DEF SweepNext

\* Initial states map to initial states.
LEMMA RefineInit == Init => Abstract!SessionInit
<1> SUFFICES ASSUME Init PROVE Abstract!SessionInit
  OBVIOUS
<1>1. \A s \in Sessions : Phase(s) = "none" /\ Stored(s) = {} /\ Published(s) = FALSE
  BY DEF Init, Phase, Stored, Published
<1> QED BY <1>1 DEF Abstract!SessionInit, Published

\* Every step is a step of UploadSession or a stutter.
LEMMA RefineStep == IInv /\ [Next]_vars => [Abstract!SessionNext]_(Abstract!sessionVars)
<1> SUFFICES ASSUME IInv, [Next]_vars PROVE Stutter \/ AbstractNext
  BY DEF Stutter, AbstractNext
<1>1. CASE UNCHANGED vars
  <2>1. UNCHANGED <<sessions, init, sess, data, comp, delivered>>
    BY <1>1 DEF vars
  <2> QED BY <2>1, UntouchedStutter DEF Untouched
<1>2. CASE Next
  BY <1>2, RefineCreate, RefineAbort, RefineWriter, RefineCompletion, RefineSweep DEF Next, SweepNext
<1> QED BY <1>1, <1>2

\* The session manager keeps the promise of UploadSession: chunks of an open session are not
\* lost, it closes only when all are stored, and it publishes the whole file once or nothing,
\* whatever requests, expiry, failing file operations and crashes do.
THEOREM PromiseKept == Spec => KeepsPromise
<1> QED BY RefineInit, RefineStep, Invariance, PTL DEF Spec, KeepsPromise, Abstract!SessionSpec
=============================================================================
