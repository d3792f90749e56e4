------------------------ MODULE ClientTransfer_proofs ------------------------
(***************************************************************************)
(* How the web client sends files and settings, for any files, chunks,     *)
(* workers, repositories and every bound: TransferSafe, conjunct by        *)
(* conjunct, and that no request follows an error.                         *)
(***************************************************************************)
EXTENDS MC_ClientTransfer, FiniteSetTheorems, SequenceTheorems, TLAPS

-----------------------------------------------------------------------------
(* ReviewBundle                                                            *)

\* Every file before the cursor has come, has failed or is being waited for.
TakenAccounted ==
    \A i \in 1..cursor : i \in fetched \/ i \in failedFiles \/ \E d \in Downloaders : downloading[d] = i

TakenBeforeCursor == \A d \in Downloaders : downloading[d] <= cursor

BundleInv == BundleTypeOK /\ TakenAccounted /\ TakenBeforeCursor /\ FileTakenOnce /\ BundleWhole

LEMMA ReviewFileNumbers ==
    LET n == Cardinality(ReviewFiles) IN n \in Nat /\ ReviewFiles = 1..n
BY ReviewFilesAssumption, FS_CardinalityType

LEMMA BundleStarts == BundleInit => BundleInv
<1> SUFFICES ASSUME BundleInit PROVE BundleInv
  OBVIOUS
<1>1. BundleTypeOK
  BY ReviewFileNumbers, AttemptsAssumption DEF BundleInit, BundleTypeOK
<1>2. TakenAccounted /\ TakenBeforeCursor /\ FileTakenOnce /\ BundleWhole
  BY DEF BundleInit, TakenAccounted, TakenBeforeCursor, FileTakenOnce, BundleWhole
<1> QED BY <1>1, <1>2 DEF BundleInv

LEMMA TakeFileKeeps == ASSUME BundleInv, NEW d \in Downloaders, TakeFile(d) PROVE BundleInv'
<1> DEFINE n == Cardinality(ReviewFiles)
<1>n. n \in Nat /\ ReviewFiles = 1..n
  BY ReviewFileNumbers
<1> HIDE DEF n
<1>t. /\ cursor \in Nat /\ downloading \in [Downloaders -> ReviewFiles \union {0}]
      /\ attempts \in [Downloaders -> 0..MaxAttempts]
      /\ fetched \subseteq ReviewFiles /\ failedFiles \subseteq ReviewFiles
  BY <1>n DEF BundleInv, BundleTypeOK, n
<1>1. /\ bundleState = "fetching" /\ downloading[d] = 0 /\ cursor < n
      /\ downloading' = [downloading EXCEPT ![d] = cursor + 1]
      /\ attempts' = [attempts EXCEPT ![d] = 0]
      /\ cursor' = cursor + 1
      /\ UNCHANGED <<bundleState, fetched, failedFiles>>
  BY DEF TakeFile, n
<1>2. cursor' \in 0..n /\ cursor + 1 \in ReviewFiles
  BY <1>1, <1>n, <1>t
<1>3. downloading' \in [Downloaders -> ReviewFiles \union {0}] /\ attempts' \in [Downloaders -> 0..MaxAttempts]
  BY <1>1, <1>2, <1>t, AttemptsAssumption
<1>4. \A e \in Downloaders : downloading'[e] = IF e = d THEN cursor + 1 ELSE downloading[e]
  BY <1>1, <1>t
<1>5. BundleTypeOK'
  BY <1>1, <1>2, <1>3, <1>t DEF BundleInv, BundleTypeOK, n
<1>6. \A e \in Downloaders : downloading[e] \in Nat /\ downloading[e] <= cursor
  BY <1>t, <1>n DEF BundleInv, TakenBeforeCursor
<1>7. TakenAccounted'
  <2>1. ASSUME NEW i \in 1..cursor'
        PROVE  i \in fetched' \/ i \in failedFiles' \/ \E e \in Downloaders : downloading'[e] = i
    <3>1. CASE i = cursor + 1
      BY <3>1, <1>4
    <3>2. CASE i # cursor + 1
      <4>1. i \in 1..cursor
        BY <3>2, <1>1, <1>t
      <4>2. i \in fetched \/ i \in failedFiles \/ \E e \in Downloaders : downloading[e] = i
        BY <4>1 DEF BundleInv, TakenAccounted
      <4>3. \A e \in Downloaders : downloading[e] = i => e # d
        BY <4>1, <1>1, <1>t
      <4> QED BY <4>2, <4>3, <1>1, <1>4
    <3> QED BY <3>1, <3>2
  <2> QED BY <2>1 DEF TakenAccounted
<1>8. TakenBeforeCursor'
  BY <1>1, <1>4, <1>6, <1>t DEF TakenBeforeCursor
<1>9. FileTakenOnce'
  BY <1>4, <1>6, <1>t DEF BundleInv, FileTakenOnce
<1>10. BundleWhole'
  BY <1>1 DEF BundleWhole
<1> QED BY <1>5, <1>7, <1>8, <1>9, <1>10 DEF BundleInv

LEMMA FileArrivesKeeps == ASSUME BundleInv, NEW d \in Downloaders, FileArrives(d) PROVE BundleInv'
<1>n. Cardinality(ReviewFiles) \in Nat /\ ReviewFiles = 1..Cardinality(ReviewFiles)
  BY ReviewFileNumbers
<1>t. /\ cursor \in Nat /\ downloading \in [Downloaders -> ReviewFiles \union {0}]
      /\ attempts \in [Downloaders -> 0..MaxAttempts]
      /\ fetched \subseteq ReviewFiles /\ failedFiles \subseteq ReviewFiles
  BY <1>n DEF BundleInv, BundleTypeOK
<1>1. /\ bundleState = "fetching" /\ downloading[d] # 0 /\ UNCHANGED <<bundleState, cursor>>
  BY DEF FileArrives
<1>2. CASE /\ attempts[d] + 1 < MaxAttempts /\ attempts' = [attempts EXCEPT ![d] = @ + 1]
           /\ UNCHANGED <<downloading, fetched, failedFiles>>
  <2>1. attempts' \in [Downloaders -> 0..MaxAttempts]
    BY <1>2, <1>t, AttemptsAssumption
  <2>2. BundleTypeOK'
    BY <2>1, <1>1, <1>2, <1>t DEF BundleInv, BundleTypeOK
  <2>3. TakenAccounted' /\ TakenBeforeCursor' /\ FileTakenOnce' /\ BundleWhole'
    BY <1>1, <1>2 DEF BundleInv, TakenAccounted, TakenBeforeCursor, FileTakenOnce, BundleWhole
  <2> QED BY <2>2, <2>3 DEF BundleInv
<1>3. ASSUME downloading' = [downloading EXCEPT ![d] = 0], UNCHANGED attempts,
             \/ fetched' = fetched \union {downloading[d]} /\ UNCHANGED failedFiles
             \/ failedFiles' = failedFiles \union {downloading[d]} /\ UNCHANGED fetched
      PROVE  BundleInv'
  <2>1. downloading[d] \in ReviewFiles
    BY <1>1, <1>t
  <2>2. \A e \in Downloaders : downloading'[e] = IF e = d THEN 0 ELSE downloading[e]
    BY <1>3, <1>t
  <2>3. downloading' \in [Downloaders -> ReviewFiles \union {0}]
    BY <1>3, <1>t
  <2>4. fetched' \subseteq ReviewFiles /\ failedFiles' \subseteq ReviewFiles
    BY <1>3, <2>1, <1>t
  <2>5. BundleTypeOK'
    BY <1>1, <1>3, <2>3, <2>4 DEF BundleInv, BundleTypeOK
  <2>6. TakenAccounted'
    BY <1>1, <1>3, <2>2 DEF BundleInv, TakenAccounted
  <2>7. TakenBeforeCursor'
    BY <1>1, <2>2, <1>t DEF BundleInv, TakenBeforeCursor
  <2>8. FileTakenOnce'
    BY <2>2 DEF BundleInv, FileTakenOnce
  <2>9. BundleWhole'
    BY <1>1 DEF BundleWhole
  <2> QED BY <2>5, <2>6, <2>7, <2>8, <2>9 DEF BundleInv
<1> QED BY <1>2, <1>3 DEF FileArrives

LEMMA BundleStays == ASSUME BundleInv, [BundleNext]_bundleVars PROVE BundleInv'
<1>n. Cardinality(ReviewFiles) \in Nat /\ ReviewFiles = 1..Cardinality(ReviewFiles)
  BY ReviewFileNumbers
<1>1. ASSUME UNCHANGED <<cursor, downloading, attempts, fetched, failedFiles>>,
             bundleState' \in {"fetching", "failed", "partial"} \/ bundleState' = bundleState \/
             (bundleState' = "saved" /\ fetched = ReviewFiles)
      PROVE  BundleInv'
  BY <1>1 DEF BundleInv, BundleTypeOK, TakenAccounted, TakenBeforeCursor, FileTakenOnce, BundleWhole
<1>2. CASE FilesListed
  BY <1>1, <1>2 DEF FilesListed
<1>3. CASE EndBundle
  <2>1. /\ cursor = Cardinality(ReviewFiles) /\ \A d \in Downloaders : downloading[d] = 0
        /\ bundleState' = IF failedFiles = {} THEN "saved" ELSE "partial"
        /\ UNCHANGED <<cursor, downloading, attempts, fetched, failedFiles>>
    BY <1>3 DEF EndBundle
  <2>2. failedFiles = {} => fetched = ReviewFiles
    <3>1. \A i \in ReviewFiles : i \in 1..cursor /\ i # 0
      BY <2>1, <1>n
    <3>2. failedFiles = {} => \A i \in ReviewFiles : i \in fetched
      BY <2>1, <3>1 DEF BundleInv, TakenAccounted
    <3> QED BY <3>2 DEF BundleInv, BundleTypeOK
  <2> QED BY <2>1, <2>2, <1>1
<1>4. CASE UNCHANGED bundleVars
  BY <1>1, <1>4 DEF bundleVars
<1> QED BY <1>2, <1>3, <1>4, TakeFileKeeps, FileArrivesKeeps DEF BundleNext

-----------------------------------------------------------------------------
(* RepositoryForm                                                          *)

RepositoryInv ==
    /\ RepositoryTypeOK /\ NoStaleFeedback
    /\ \A r \in deletions : life[r] = 0
    /\ \A s \in saves : ~s.late

LEMMA RepositoryStarts == RepositoryInit => RepositoryInv
<1> SUFFICES ASSUME RepositoryInit PROVE RepositoryInv
  OBVIOUS
<1>1. {configured, currentConfig, initialRepos} \subseteq [Repositories -> Value]
  BY DEF RepositoryInit, Value
<1>2. feedback \in Messages /\ NoStaleFeedback
  BY Zenon DEF RepositoryInit, NoFeedback, NoStaleFeedback, Messages
<1>3. /\ saveSeq \in [Repositories -> 0..MaxRepositorySaves] /\ saves \subseteq Saves
      /\ deletions = {} /\ reads \subseteq [Repositories -> Value] /\ life \in [Repositories -> 0..1]
  BY RepositorySavesAssumption DEF RepositoryInit
<1>4. saves = {}
  BY DEF RepositoryInit
<1> QED BY <1>1, <1>2, <1>3, <1>4 DEF RepositoryInv, RepositoryTypeOK

\* A save with a later one has another number than the last.
LEMMA OutdatedOvertaken ==
    ASSUME RepositoryInv, NEW s \in saves
    PROVE  Outdated(s) \in BOOLEAN /\ (Outdated(s) => Overtaken(s))
<1>1. s.repository \in Repositories /\ s.seq \in Nat /\ saveSeq[s.repository] \in Nat
  BY RepositorySavesAssumption DEF RepositoryInv, RepositoryTypeOK, Saves
<1>2. Outdated(s) => Overtaken(s)
  BY <1>1 DEF Outdated, Overtaken
<1>3. Outdated(s) \in BOOLEAN
  BY Zenon DEF Outdated
<1> QED BY <1>2, <1>3

\* The records of messages.
LEMMA MessageTypes ==
    ASSUME NEW stale \in BOOLEAN, NEW late \in BOOLEAN, NEW refusal \in BOOLEAN
    PROVE  LET m == [stale |-> stale, late |-> late, refusal |-> refusal]
           IN  m \in Messages /\ (m.stale <=> stale) /\ (m.late <=> late) /\ (m.refusal <=> refusal)
BY Zenon DEF Messages

\* A report of a save that was not overtaken when its answer came is not late, and is
\* out of date only if it is that of a refusal.
LEMMA ReportsHonest ==
    ASSUME RepositoryInv, NEW s \in saves, NEW late \in BOOLEAN, NEW refusal \in BOOLEAN,
           ~late, ~Overtaken(s) \/ refusal
    PROVE  LET m == Report(s, late, refusal)
           IN  m \in Messages /\ ~m.late /\ (m.stale => m.refusal)
<1>1. Outdated(s) \in BOOLEAN /\ (Outdated(s) => Overtaken(s))
  BY OutdatedOvertaken
<1>2. LET m == [stale |-> Outdated(s), late |-> late, refusal |-> refusal]
      IN  m \in Messages /\ (m.stale <=> Outdated(s)) /\ (m.late <=> late) /\ (m.refusal <=> refusal)
  BY <1>1, MessageTypes, Zenon
<1> QED BY <1>1, <1>2, Zenon DEF Report

LEMMA UndoTypes == ASSUME RepositoryInv, NEW s \in saves PROVE Undo(s) \in [Repositories -> Value]
<1>1. s.repository \in Repositories /\ s.before \in Value /\ currentConfig \in [Repositories -> Value]
      /\ Absent \in Value
  BY DEF RepositoryInv, RepositoryTypeOK, Saves, Value
<1> QED BY <1>1 DEF Undo

\* What is sent, edited or lost.
LEMMA SaveMakes ==
    ASSUME RepositoryInv, NEW r \in Repositories, NEW v \in Settings, NEW kind \in SaveKinds, NEW before \in Value,
           Save(r, v, kind, before), currentConfig' = [currentConfig EXCEPT ![r] = v],
           UNCHANGED <<configured, initialRepos, deletions, reads, life>>
    PROVE  RepositoryInv'
<1>t. /\ RepositoryTypeOK /\ NoStaleFeedback /\ \A q \in deletions : life[q] = 0
      /\ \A q \in saves : ~q.late
      /\ saveSeq \in [Repositories -> 0..MaxRepositorySaves] /\ life \in [Repositories -> 0..1]
      /\ saves \subseteq Saves /\ currentConfig \in [Repositories -> Value]
  BY DEF RepositoryInv, RepositoryTypeOK
<1>1. /\ saveSeq[r] < MaxRepositorySaves /\ saveSeq' = [saveSeq EXCEPT ![r] = @ + 1]
      /\ \/ feedback' = NoFeedback /\ UNCHANGED saves
         \/ /\ saves' = saves \union
                   {[repository |-> r, seq |-> saveSeq'[r], value |-> v, kind |-> kind,
                     before |-> before, life |-> life[r], late |-> FALSE, at |-> "asked"]}
            /\ UNCHANGED feedback
  BY DEF Save
<1>2. saveSeq' \in [Repositories -> 0..MaxRepositorySaves] /\ saveSeq'[r] \in 1..MaxRepositorySaves
  BY <1>1, <1>t, RepositorySavesAssumption
<1>3. saves' \subseteq Saves
  <2>1. life[r] \in 0..1
    BY <1>t
  <2>2. [repository |-> r, seq |-> saveSeq'[r], value |-> v, kind |-> kind,
         before |-> before, life |-> life[r], late |-> FALSE, at |-> "asked"] \in Saves
    BY <1>2, <2>1 DEF Saves
  <2> QED BY <1>1, <2>2, <1>t
<1>4. currentConfig' \in [Repositories -> Value]
  BY <1>t DEF Value
<1>3a. \A q \in saves' : ~q.late
  BY <1>1, <1>t
<1>5. feedback' \in Messages /\ ~feedback'.late /\ (feedback'.stale => feedback'.refusal)
  <2>1. FALSE \in BOOLEAN
    OBVIOUS
  <2>2. CASE feedback' = NoFeedback
    BY <2>1, <2>2, MessageTypes, Zenon DEF NoFeedback
  <2>3. CASE UNCHANGED feedback
    BY <2>3, <1>t DEF RepositoryTypeOK, NoStaleFeedback
  <2> QED BY <1>1, <2>2, <2>3
<1>6. RepositoryTypeOK'
  BY <1>2, <1>3, <1>4, <1>5, <1>t DEF RepositoryTypeOK
<1> QED BY <1>3a, <1>5, <1>6, <1>t DEF RepositoryInv, NoStaleFeedback

LEMMA EditsKeep ==
    ASSUME RepositoryInv, NEW r \in Repositories, NEW v \in Settings,
           Edit(r, v) \/ EditCapacity(r, v) \/ Create(r, v)
    PROVE  RepositoryInv'
<1>1. Absent \in Value /\ currentConfig[r] \in Value
  BY DEF RepositoryInv, RepositoryTypeOK, Value
<1>2. PICK kind \in SaveKinds, before \in Value :
         /\ Save(r, v, kind, before) /\ currentConfig' = [currentConfig EXCEPT ![r] = v]
         /\ UNCHANGED <<configured, initialRepos, deletions, reads, life>>
  BY <1>1 DEF Edit, EditCapacity, Create, SaveKinds
<1> QED BY <1>2, SaveMakes

\* A save changes its state, returns or is lost.
LEMMA AnswersKeep ==
    ASSUME RepositoryInv, NEW s \in saves, ServeSave(s) \/ SaveReturns(s) \/ SaveLost(s)
    PROVE  RepositoryInv'
<1>t. /\ RepositoryTypeOK /\ NoStaleFeedback /\ \A q \in deletions : life[q] = 0
      /\ \A q \in saves : ~q.late
      /\ {configured, currentConfig, initialRepos} \subseteq [Repositories -> Value]
      /\ saves \subseteq Saves /\ feedback \in Messages
  BY DEF RepositoryInv, RepositoryTypeOK
<1>s. /\ s \in Saves /\ s.repository \in Repositories /\ s.value \in Value
      /\ Undo(s) \in [Repositories -> Value]
  BY <1>t, UndoTypes DEF Saves, Value
<1>o. Outdated(s) \in BOOLEAN /\ (Outdated(s) => Overtaken(s))
  BY OutdatedOvertaken
<1>at. ASSUME NEW a \in {"asked", "accepted", "refused", "reading"}
       PROVE  /\ [s EXCEPT !.at = a] \in Saves /\ ([s EXCEPT !.at = a].late <=> s.late)
              /\ [s EXCEPT !.at = a, !.late = FALSE] \in Saves
              /\ [s EXCEPT !.at = a, !.late = FALSE].late = FALSE
  BY <1>s DEF Saves
<1>1. UNCHANGED <<saveSeq, deletions, reads, life>>
  BY DEF ServeSave, SaveReturns, SaveAccepted, SaveRefused, RefusalRead, SaveLost
<1>2. saves' \subseteq Saves /\ \A q \in saves' : ~q.late
  <2>1. CASE ServeSave(s)
    BY <2>1, <1>t, <1>at DEF ServeSave
  <2>2. CASE SaveRefused(s)
    <3>1. CASE Overtaken(s)
      BY <2>2, <3>1, <1>t DEF SaveRefused
    <3>2. CASE ~Overtaken(s)
      <4>1. Outdated(s) = FALSE
        BY <3>2, <1>o
      <4>2. saves' = (saves \ {s}) \union {[s EXCEPT !.at = "reading", !.late = FALSE]}
        BY <2>2, <3>2, <4>1 DEF SaveRefused
      <4> QED BY <4>2, <1>t, <1>at
    <3> QED BY <3>1, <3>2
  <2>3. CASE SaveAccepted(s) \/ RefusalRead(s) \/ SaveLost(s)
    BY <2>3, <1>t DEF SaveAccepted, RefusalRead, SaveLost
  <2> QED BY <2>1, <2>2, <2>3 DEF SaveReturns
<1>3. {configured', currentConfig', initialRepos'} \subseteq [Repositories -> Value]
  <2>1. /\ configured' \in {configured, [configured EXCEPT ![s.repository] = s.value]}
        /\ currentConfig' \in {currentConfig, Undo(s)}
        /\ initialRepos' \in {initialRepos, [initialRepos EXCEPT ![s.repository] = s.value]}
    BY DEF ServeSave, SaveReturns, SaveAccepted, SaveRefused, RefusalRead, SaveLost
  <2>2. ASSUME NEW c \in [Repositories -> Value] PROVE [c EXCEPT ![s.repository] = s.value] \in [Repositories -> Value]
    BY <1>s
  <2> QED BY <2>1, <2>2, <1>t, <1>s
<1>4. \/ UNCHANGED feedback
      \/ feedback' = Report(s, Outdated(s), FALSE) /\ ~Overtaken(s)
      \/ feedback' = Report(s, s.late, TRUE)
  BY Zenon DEF ServeSave, SaveReturns, SaveAccepted, SaveRefused, RefusalRead, SaveLost
<1>5. feedback' \in Messages /\ ~feedback'.late /\ (feedback'.stale => feedback'.refusal)
  <2>1. TRUE \in BOOLEAN /\ FALSE \in BOOLEAN /\ s.late \in BOOLEAN /\ ~s.late
    BY <1>s, <1>t DEF Saves
  <2>2. CASE UNCHANGED feedback
    BY <2>2, <1>t DEF NoStaleFeedback
  <2>3. CASE feedback' = Report(s, Outdated(s), FALSE) /\ ~Overtaken(s)
    BY <2>1, <2>3, <1>o, ReportsHonest, Zenon
  <2>4. CASE feedback' = Report(s, s.late, TRUE)
    BY <2>1, <2>4, ReportsHonest, Zenon
  <2> QED BY <1>4, <2>2, <2>3, <2>4
<1>6. RepositoryTypeOK'
  BY <1>1, <1>2, <1>3, <1>5, <1>t DEF RepositoryTypeOK
<1> QED BY <1>1, <1>2, <1>5, <1>6, <1>t DEF RepositoryInv, NoStaleFeedback

LEMMA RepositoryStays == ASSUME RepositoryInv, [RepositoryNext]_repositoryVars PROVE RepositoryInv'
<1>t. /\ RepositoryTypeOK /\ NoStaleFeedback /\ \A q \in deletions : life[q] = 0
      /\ \A q \in saves : ~q.late
      /\ {configured, currentConfig, initialRepos} \subseteq [Repositories -> Value]
      /\ saveSeq \in [Repositories -> 0..MaxRepositorySaves]
      /\ deletions \subseteq Repositories /\ life \in [Repositories -> 0..1]
      /\ reads \subseteq [Repositories -> Value]
  BY DEF RepositoryInv, RepositoryTypeOK
<1>1. ASSUME UNCHANGED <<saves, feedback>>,
             {configured', currentConfig', initialRepos'} \subseteq [Repositories -> Value],
             saveSeq' \in [Repositories -> 0..MaxRepositorySaves],
             deletions' \subseteq Repositories, life' \in [Repositories -> 0..1],
             reads' \subseteq [Repositories -> Value], \A q \in deletions' : life'[q] = 0
      PROVE  RepositoryInv'
  BY <1>1, <1>t DEF RepositoryInv, RepositoryTypeOK, NoStaleFeedback
<1>2. ASSUME NEW r \in Repositories, DeleteRepository(r) PROVE RepositoryInv'
  BY <1>1, <1>2, <1>t DEF DeleteRepository
<1>3. ASSUME NEW r \in deletions, Deleted(r) PROVE RepositoryInv'
  <2>1. r \in Repositories /\ life[r] = 0 /\ Absent \in Value
    BY <1>t DEF Value
  <2>2. /\ deletions' = deletions \ {r} /\ UNCHANGED <<saves, reads, feedback>>
        /\ \/ /\ configured' = [configured EXCEPT ![r] = Absent]
              /\ currentConfig' = [currentConfig EXCEPT ![r] = Absent]
              /\ initialRepos' = [initialRepos EXCEPT ![r] = Absent]
              /\ saveSeq' = [saveSeq EXCEPT ![r] = 0]
              /\ life' = [life EXCEPT ![r] = @ + 1]
           \/ /\ configured' \in {configured, [configured EXCEPT ![r] = Absent]}
              /\ UNCHANGED <<currentConfig, initialRepos, saveSeq, life>>
    BY <1>3 DEF Deleted
  <2>3. {configured', currentConfig', initialRepos'} \subseteq [Repositories -> Value]
    BY <2>1, <2>2, <1>t
  <2>4. saveSeq' \in [Repositories -> 0..MaxRepositorySaves] /\ life' \in [Repositories -> 0..1]
    BY <2>1, <2>2, <1>t, RepositorySavesAssumption
  <2>5. \A q \in deletions' : q # r /\ life'[q] = life[q]
    BY <2>1, <2>2, <1>t
  <2> QED BY <2>2, <2>3, <2>4, <2>5, <1>1, <1>t
<1>4. CASE ReadSettings
  BY <1>1, <1>4, <1>t DEF ReadSettings
<1>5. ASSUME NEW c \in reads, SettingsRead(c) PROVE RepositoryInv'
  BY <1>1, <1>5, <1>t DEF SettingsRead
<1>6. CASE UNCHANGED repositoryVars
  BY <1>1, <1>6, <1>t DEF repositoryVars
<1> QED BY <1>2, <1>3, <1>4, <1>5, <1>6, EditsKeep, AnswersKeep DEF RepositoryNext

-----------------------------------------------------------------------------
(* ChunkTransfer: the server's session                                     *)

Stored == stored[Upload]
Published == published[Upload]

ServerTyped ==
    /\ phase \in [{Upload} -> {"none", "open", "closing", "over"}]
    /\ stored \in [{Upload} -> SUBSET (1..ChunkCount)]
    /\ published \in [{Upload} -> BOOLEAN]

LEMMA SessionOpens ==
    ASSUME ServerTyped, Server!OpenSession(Upload)
    PROVE  ServerTyped' /\ Phase = "none" /\ Phase' = "open" /\ Stored' = Stored /\ Published' = Published
BY DEF ServerTyped, Server!OpenSession, Phase, Stored, Published

LEMMA SessionStores ==
    ASSUME ServerTyped, NEW c, Server!StoreChunk(Upload, c)
    PROVE  /\ ServerTyped' /\ Phase = "open" /\ Phase' = Phase
           /\ Stored' = Stored \union {c} /\ Published' = Published
BY DEF ServerTyped, Server!StoreChunk, Phase, Stored, Published

LEMMA SessionCloses ==
    ASSUME ServerTyped, Server!CloseSession(Upload)
    PROVE  ServerTyped' /\ Phase = "open" /\ Phase' = "closing" /\ Stored' = Stored /\ Published' = Published
BY DEF ServerTyped, Server!CloseSession, Phase, Stored, Published

LEMMA SessionPublishes ==
    ASSUME ServerTyped, Server!PublishFile(Upload)
    PROVE  ServerTyped' /\ Phase = "closing" /\ Phase' = "over" /\ Published'
<1>1. /\ phase[Upload] = "closing" /\ phase' = [phase EXCEPT ![Upload] = "over"]
      /\ stored' = [stored EXCEPT ![Upload] = {}]
      /\ published' = [published EXCEPT ![Upload] = TRUE]
  BY DEF Server!PublishFile
<1>2. ASSUME NEW b \in BOOLEAN
      PROVE  LET p == [published EXCEPT ![Upload] = b] IN p \in [{Upload} -> BOOLEAN] /\ p[Upload] = b
  BY DEF ServerTyped
<1>3. published' \in [{Upload} -> BOOLEAN] /\ published'[Upload] = TRUE
  BY <1>1, <1>2, Zenon
<1>4. Published'
  BY <1>3, Zenon DEF Published
<1> QED BY <1>1, <1>3, <1>4 DEF ServerTyped, Phase

LEMMA SessionEnds ==
    ASSUME ServerTyped, Server!EndSessions({Upload})
    PROVE  ServerTyped' /\ Phase # "over" /\ Phase' = "over" /\ Published' = Published
<1>1. /\ phase[Upload] # "over"
      /\ phase' = [s \in {Upload} |-> IF s \in {Upload} THEN "over" ELSE phase[s]]
      /\ stored' = [s \in {Upload} |-> IF s \in {Upload} THEN {} ELSE stored[s]]
      /\ published' = published
  BY DEF Server!EndSessions
<1> QED BY <1>1 DEF ServerTyped, Phase, Published

-----------------------------------------------------------------------------
(* ChunkTransfer: the invariant                                            *)

TransferWorker == [pc : {"next", "put", "delay", "stop"}, index : 0..ChunkCount,
                   attempt : 0..ChunkMaxRetries, reply : PutResults \union {"none"}]
Put == [index : 1..ChunkCount, attempt : 0..ChunkMaxRetries, at : {"sent", "writing"}]

CallTyped ==
    /\ transfer \in {"init", "chunks", "complete", "completing", "abort", "abort_throw",
                     "ok", "failed", "thrown"}
    /\ sessionKnown \in BOOLEAN
    /\ nextIndex \in 1..(ChunkCount + 1)
    /\ firstError \in {"none", "fatal", "transient"}
    /\ worker \in [TransferWorkers -> TransferWorker]
    /\ puts \subseteq Put
    /\ finish \in {"none", "sent", "owned", "published", "stored", "refused", "dropped"}
    /\ cancelled \in {"none", "sent", "served", "lost"}

\* Nothing has been sent before the answer to init.
BeforeInit ==
    transfer = "init" =>
        /\ Phase = "none" /\ ~sessionKnown /\ nextIndex = 1 /\ firstError = "none" /\ puts = {}
        /\ \A w \in TransferWorkers : worker[w].pc = "next"

\* What became of the request to complete.
FinishTrue ==
    /\ Phase = "closing" => finish = "owned"
    /\ finish = "owned" => Phase = "closing"
    /\ Published => finish \in {"published", "stored"}
    /\ finish = "published" => Published /\ Phase = "over"
    /\ transfer \in {"init", "chunks", "complete"} => finish = "none"
    /\ transfer \in {"abort", "failed"} => finish \notin {"sent", "owned", "published"}
    /\ transfer = "ok" => finish = "published"

\* What became of the cancellation.
CancelTrue ==
    /\ transfer \notin {"abort", "abort_throw", "failed", "thrown"} => cancelled = "none"
    /\ transfer = "thrown" \/ (transfer = "failed" /\ sessionKnown) => cancelled \in {"served", "lost"}
    /\ cancelled = "served" => Phase # "open"

\* A chunk that was taken is stored, on its way, or lost with the call or the session.
Settled(i) ==
    \/ i \in Stored \/ Phase # "open" \/ firstError # "none"
    \/ \E w \in TransferWorkers : worker[w].pc \in {"put", "delay"} /\ worker[w].index = i

ChunksHeld ==
    /\ transfer = "chunks" =>
         /\ \A i \in 1..ChunkCount : i < nextIndex => Settled(i)
         /\ \A w \in TransferWorkers :
              worker[w].pc = "stop" => firstError # "none" \/ nextIndex = ChunkCount + 1
    /\ transfer \in {"chunks", "complete", "completing"} => Phase # "none"
    /\ transfer \in {"complete", "completing"} => Phase # "open" \/ Stored = 1..ChunkCount

\* A worker that waits has a chunk, and one that is acknowledged is stored.
RepliesTrue ==
    \A w \in TransferWorkers :
        /\ worker[w].pc \in {"put", "delay"} => worker[w].index # 0
        /\ worker[w].pc = "put" /\ worker[w].reply = "ok" => worker[w].index \in Stored \/ Phase # "open"

TransferInv ==
    /\ CallTyped /\ ServerTyped /\ BeforeInit /\ FinishTrue /\ CancelTrue /\ ChunksHeld /\ RepliesTrue

LEMMA TransferIsSafe ==
    ASSUME TransferInv
    PROVE  TransferTypeOK /\ OutcomeTrue /\ CompleteOnlyWhole /\ FailureCleansUp
<1>1. /\ CallTyped /\ ServerTyped /\ FinishTrue /\ CancelTrue /\ ChunksHeld
  BY DEF TransferInv
<1>2. TransferTypeOK
  BY <1>1 DEF CallTyped, ServerTyped, TransferTypeOK, TransferWorker, Put, Phase
<1>3. Phase \in {"none", "open", "closing", "over"}
  BY <1>1 DEF ServerTyped, Phase
<1>4. OutcomeTrue
  BY <1>1 DEF FinishTrue, OutcomeTrue, Published
<1>5. CompleteOnlyWhole
  BY <1>1, <1>3 DEF ChunksHeld, CompleteOnlyWhole, Stored
<1>6. FailureCleansUp
  BY <1>1 DEF FinishTrue, CancelTrue, FailureCleansUp
<1> QED BY <1>2, <1>4, <1>5, <1>6

LEMMA TransferStarts == TransferInit => TransferInv
<1> SUFFICES ASSUME TransferInit PROVE TransferInv
  OBVIOUS
<1> USE ChunksAssumption, RetriesAssumption
<1>1. /\ transfer = "init" /\ nextIndex = 1 /\ firstError = "none"
      /\ worker = [w \in TransferWorkers |-> IdleWorker] /\ puts = {} /\ finish = "none" /\ cancelled = "none"
      /\ phase = [s \in {Upload} |-> "none"] /\ stored = [s \in {Upload} |-> {}]
  BY DEF TransferInit, Server!SessionInit
<1>2. sessionKnown \in BOOLEAN /\ ~sessionKnown
  BY Zenon DEF TransferInit
<1>3. published \in [{Upload} -> BOOLEAN] /\ ~Published
  <2>1. published = [s \in {Upload} |-> FALSE]
    BY DEF TransferInit, Server!SessionInit
  <2> QED BY <2>1, Zenon DEF Published
<1>4. IdleWorker \in TransferWorker /\ IdleWorker.pc = "next"
  BY DEF IdleWorker, TransferWorker
<1>5. CallTyped /\ ServerTyped
  BY <1>1, <1>2, <1>3, <1>4 DEF CallTyped, ServerTyped
<1>6. Phase = "none"
  BY <1>1 DEF Phase
<1>7. BeforeInit /\ FinishTrue /\ CancelTrue /\ ChunksHeld /\ RepliesTrue
  BY <1>1, <1>2, <1>3, <1>4, <1>6 DEF BeforeInit, FinishTrue, CancelTrue, ChunksHeld, RepliesTrue
<1> QED BY <1>5, <1>7 DEF TransferInv

LEMMA ServerRests ==
    UNCHANGED serverVars => /\ Phase' = Phase /\ Stored' = Stored /\ Published' = Published
                            /\ (ServerTyped => ServerTyped')
BY DEF serverVars, Phase, Stored, Published, ServerTyped

-----------------------------------------------------------------------------
(* ChunkTransfer: the steps                                                *)

\* No request for a chunk is new once an error is known.
NoNewPut ==
    firstError # "none" =>
        \A p \in puts' \ puts : \E q \in puts : q.index = p.index /\ q.attempt = p.attempt

\* What the invariant says about the chunks and their workers.
LEMMA TransferFacts ==
    ASSUME TransferInv
    PROVE  /\ CallTyped /\ ServerTyped /\ BeforeInit /\ FinishTrue /\ CancelTrue /\ ChunksHeld /\ RepliesTrue
           /\ Phase \in {"none", "open", "closing", "over"} /\ Stored \subseteq 1..ChunkCount
           /\ Published \in BOOLEAN /\ nextIndex \in Nat /\ nextIndex <= ChunkCount + 1
<1>1. /\ CallTyped /\ ServerTyped /\ BeforeInit /\ FinishTrue /\ CancelTrue /\ ChunksHeld /\ RepliesTrue
  BY DEF TransferInv
<1>2. Phase \in {"none", "open", "closing", "over"} /\ Stored \subseteq 1..ChunkCount
  BY <1>1 DEF ServerTyped, Phase, Stored
<1>3. Published \in BOOLEAN
  BY <1>1, Zenon DEF ServerTyped, Published
<1>4. nextIndex \in Nat /\ nextIndex <= ChunkCount + 1
  BY <1>1, ChunksAssumption DEF CallTyped
<1> QED BY <1>1, <1>2, <1>3, <1>4

LEMMA InitFailsKeeps == ASSUME TransferInv, InitFails PROVE TransferInv'
<1>f. /\ CallTyped /\ ServerTyped /\ BeforeInit /\ FinishTrue /\ CancelTrue /\ ChunksHeld /\ RepliesTrue
      /\ Phase \in {"none", "open", "closing", "over"}
  BY TransferFacts
<1>1. /\ transfer = "init" /\ transfer' = "failed"
      /\ UNCHANGED <<sessionKnown, nextIndex, firstError, worker, puts, finish, cancelled>>
      /\ Server!OpenSession(Upload) \/ UNCHANGED serverVars
  BY DEF InitFails
<1>2. /\ ServerTyped' /\ Phase' \in {Phase, "open"} /\ Stored' = Stored /\ Published' = Published
  BY <1>1, <1>f, SessionOpens, ServerRests
<1>3. Phase = "none" /\ ~sessionKnown /\ finish = "none" /\ ~Published /\ cancelled = "none"
      /\ \A w \in TransferWorkers : worker[w].pc = "next"
  BY <1>1, <1>f DEF BeforeInit, FinishTrue, CancelTrue
<1>4. CallTyped'
  BY <1>1, <1>f DEF CallTyped
<1>5. BeforeInit' /\ FinishTrue' /\ CancelTrue' /\ ChunksHeld'
  BY <1>1, <1>2, <1>3 DEF BeforeInit, FinishTrue, CancelTrue, ChunksHeld
<1>6. RepliesTrue'
  BY <1>1, <1>3 DEF RepliesTrue
<1> QED BY <1>2, <1>4, <1>5, <1>6 DEF TransferInv

LEMMA InitAnsweredKeeps == ASSUME TransferInv, InitAnswered PROVE TransferInv'
<1>f. /\ CallTyped /\ ServerTyped /\ BeforeInit /\ FinishTrue /\ CancelTrue /\ Stored \subseteq 1..ChunkCount
  BY TransferFacts
<1>1. /\ transfer = "init" /\ transfer' = IF ChunkCount > 0 THEN "chunks" ELSE "complete"
      /\ sessionKnown' = TRUE
      /\ UNCHANGED <<nextIndex, firstError, worker, puts, finish, cancelled>>
      /\ Server!OpenSession(Upload)
  BY DEF InitAnswered
<1>2. ServerTyped' /\ Phase' = "open" /\ Stored' = Stored /\ Published' = Published
  BY <1>1, <1>f, SessionOpens
<1>3. /\ finish = "none" /\ ~Published /\ cancelled = "none" /\ nextIndex = 1
      /\ \A w \in TransferWorkers : worker[w].pc = "next"
  BY <1>1, <1>f DEF BeforeInit, FinishTrue, CancelTrue
<1>4. CallTyped'
  <2>1. sessionKnown' \in BOOLEAN
    BY <1>1, Zenon
  <2> QED BY <2>1, <1>1, <1>f DEF CallTyped
<1>5. BeforeInit' /\ FinishTrue' /\ CancelTrue'
  BY <1>1, <1>2, <1>3 DEF BeforeInit, FinishTrue, CancelTrue
<1>6. ChunksHeld'
  <2>1. ChunkCount > 0 \/ Stored = 1..ChunkCount
    <3>1. ChunkCount > 0 \/ \A i \in 1..ChunkCount : FALSE
      BY ChunksAssumption
    <3> QED BY <3>1, <1>f
  <2>2. \A i \in 1..ChunkCount : ~(i < nextIndex)
    BY <1>3, ChunksAssumption
  <2> QED BY <2>1, <2>2, <1>1, <1>2, <1>3 DEF ChunksHeld
<1>7. RepliesTrue'
  BY <1>1, <1>3 DEF RepliesTrue
<1> QED BY <1>2, <1>4, <1>5, <1>6, <1>7 DEF TransferInv

\* The call itself: its workers, requests and session stay as they are.
LEMMA CallKeeps == ASSUME TransferInv, CallNext PROVE TransferInv' /\ UNCHANGED puts
<1>f. /\ CallTyped /\ ServerTyped /\ BeforeInit /\ FinishTrue /\ CancelTrue /\ ChunksHeld /\ RepliesTrue
      /\ Phase \in {"none", "open", "closing", "over"} /\ Stored \subseteq 1..ChunkCount
  BY TransferFacts
<1>1. UNCHANGED <<sessionKnown, nextIndex, firstError, worker, puts, serverVars>>
  BY DEF CallNext, WorkersDone, SendComplete, CompleteAnswered, CompleteErrors, SendAbort, TransferReturns,
         clientVars
<1>2. ServerTyped' /\ Phase' = Phase /\ Stored' = Stored /\ Published' = Published
  BY <1>1, <1>f, ServerRests
<1>3. RepliesTrue'
  BY <1>1, <1>2, <1>f DEF RepliesTrue
<1>4. ASSUME CallTyped', BeforeInit', FinishTrue', CancelTrue', ChunksHeld' PROVE TransferInv'
  BY <1>2, <1>3, <1>4 DEF TransferInv
<1>5. CASE WorkersDone
  <2>1. /\ transfer = "chunks" /\ \A w \in TransferWorkers : worker[w].pc = "stop"
        /\ transfer' = IF firstError = "none" THEN "complete" ELSE "abort"
        /\ UNCHANGED <<finish, cancelled>>
    BY <1>5 DEF WorkersDone
  <2>2. CallTyped' /\ BeforeInit' /\ FinishTrue' /\ CancelTrue'
    BY <2>1, <1>1, <1>2, <1>f DEF CallTyped, BeforeInit, FinishTrue, CancelTrue
  <2>3. firstError = "none" /\ Phase = "open" => Stored = 1..ChunkCount
    <3> SUFFICES ASSUME firstError = "none", Phase = "open", NEW i \in 1..ChunkCount PROVE i \in Stored
      BY <1>f
    <3>1. PICK w \in TransferWorkers : TRUE
      BY WorkersAssumption, ChunksAssumption
    <3>2. nextIndex = ChunkCount + 1
      BY <2>1, <3>1, <1>f DEF ChunksHeld
    <3>3. Settled(i)
      BY <2>1, <3>2, <1>f, ChunksAssumption DEF ChunksHeld
    <3> QED BY <3>3, <2>1 DEF Settled
  <2>4. ChunksHeld'
    BY <2>1, <2>3, <1>1, <1>2, <1>f DEF ChunksHeld
  <2> QED BY <2>2, <2>4, <1>1, <1>4
<1>6. CASE SendComplete
  <2>1. transfer = "complete" /\ transfer' = "completing" /\ finish' = "sent" /\ cancelled' = cancelled
    BY <1>6 DEF SendComplete
  <2> QED BY <2>1, <1>1, <1>2, <1>4, <1>f DEF CallTyped, BeforeInit, FinishTrue, CancelTrue, ChunksHeld
<1>7. CASE CompleteAnswered
  <2>1. /\ transfer = "completing" /\ finish \in {"published", "stored", "refused"}
        /\ transfer' = IF finish = "published" THEN "ok" ELSE "abort"
        /\ UNCHANGED <<finish, cancelled>>
    BY <1>7 DEF CompleteAnswered
  <2> QED BY <2>1, <1>1, <1>2, <1>4, <1>f DEF CallTyped, BeforeInit, FinishTrue, CancelTrue, ChunksHeld
<1>8. CASE CompleteErrors
  <2>1. transfer = "completing" /\ transfer' = "abort_throw" /\ UNCHANGED <<finish, cancelled>>
    BY <1>8 DEF CompleteErrors
  <2> QED BY <2>1, <1>1, <1>2, <1>4, <1>f DEF CallTyped, BeforeInit, FinishTrue, CancelTrue, ChunksHeld
<1>9. CASE SendAbort
  <2>1. /\ transfer \in {"abort", "abort_throw"} /\ cancelled = "none" /\ cancelled' = "sent"
        /\ UNCHANGED <<transfer, finish>>
    BY <1>9 DEF SendAbort, clientVars
  <2> QED BY <2>1, <1>1, <1>2, <1>4, <1>f DEF CallTyped, BeforeInit, FinishTrue, CancelTrue, ChunksHeld
<1>10. CASE TransferReturns
  <2>1. /\ transfer \in {"abort", "abort_throw"} /\ cancelled \in {"served", "lost"}
        /\ transfer' = IF transfer = "abort" THEN "failed" ELSE "thrown"
        /\ UNCHANGED <<finish, cancelled>>
    BY <1>10 DEF TransferReturns
  <2> QED BY <2>1, <1>1, <1>2, <1>4, <1>f DEF CallTyped, BeforeInit, FinishTrue, CancelTrue, ChunksHeld
<1> QED BY <1>1, <1>5, <1>6, <1>7, <1>8, <1>9, <1>10 DEF CallNext

\* The server closes, publishes or ends the session; the workers do not see it.
LEMMA ServerKeeps == ASSUME TransferInv, ServerNext PROVE TransferInv' /\ UNCHANGED puts
<1>f. /\ CallTyped /\ ServerTyped /\ BeforeInit /\ FinishTrue /\ CancelTrue /\ ChunksHeld /\ RepliesTrue
      /\ Phase \in {"none", "open", "closing", "over"} /\ Stored \subseteq 1..ChunkCount
  BY TransferFacts
<1>1. UNCHANGED <<transfer, sessionKnown, nextIndex, firstError, worker, puts>>
  BY DEF ServerNext, ServeComplete, Finalize, ServeAbort, LoseAbort, ServerEnds, clientVars
<1>2. ASSUME ServerTyped', finish' \in {"none", "sent", "owned", "published", "stored", "refused", "dropped"},
             cancelled' \in {"none", "sent", "served", "lost"}, FinishTrue', CancelTrue',
             transfer # "init",
             (Phase' = Phase /\ Stored' = Stored) \/ Phase' \in {"closing", "over"}
      PROVE  TransferInv'
  <2>1. CallTyped' /\ BeforeInit'
    BY <1>1, <1>2, <1>f DEF CallTyped, BeforeInit
  <2>2. ChunksHeld'
    BY <1>1, <1>2, <1>f DEF ChunksHeld, Settled
  <2>3. RepliesTrue'
    BY <1>1, <1>2, <1>f DEF RepliesTrue
  <2> QED BY <1>2, <2>1, <2>2, <2>3 DEF TransferInv
<1>3. CASE ServeComplete
  <2>1. /\ finish = "sent" /\ UNCHANGED cancelled
        /\ \/ Server!CloseSession(Upload) /\ finish' = "owned"
           \/ UNCHANGED serverVars /\ finish' = "refused"
    BY <1>3 DEF ServeComplete
  <2>2. /\ ServerTyped' /\ Published' = Published
        /\ \/ Phase = "open" /\ Phase' = "closing" /\ finish' = "owned"
           \/ Phase' = Phase /\ Stored' = Stored /\ finish' = "refused"
    BY <2>1, <1>f, SessionCloses, ServerRests
  <2>3. /\ FinishTrue' /\ CancelTrue' /\ transfer # "init"
        /\ finish' \in {"none", "sent", "owned", "published", "stored", "refused", "dropped"}
        /\ cancelled' \in {"none", "sent", "served", "lost"}
    BY <2>1, <2>2, <1>1, <1>f DEF CallTyped, FinishTrue, CancelTrue
  <2> QED BY <2>2, <2>3, <1>1, <1>2
<1>4. CASE Finalize
  <2>1. /\ finish = "owned" /\ Phase = "closing" /\ UNCHANGED cancelled
        /\ \/ Server!PublishFile(Upload) /\ finish' \in {"published", "stored"}
           \/ Server!EndSessions({Upload}) /\ finish' = "refused"
    BY <1>4 DEF Finalize
  <2>2. /\ ServerTyped' /\ Phase' = "over"
        /\ (Published' /\ finish' \in {"published", "stored"}) \/ (Published' = Published /\ finish' = "refused")
    BY <2>1, <1>f, SessionPublishes, SessionEnds
  <2>3. /\ FinishTrue' /\ CancelTrue' /\ transfer # "init"
        /\ finish' \in {"none", "sent", "owned", "published", "stored", "refused", "dropped"}
        /\ cancelled' \in {"none", "sent", "served", "lost"}
    BY <2>1, <2>2, <1>1, <1>f DEF CallTyped, FinishTrue, CancelTrue
  <2> QED BY <2>2, <2>3, <1>1, <1>2
<1>5. CASE ServeAbort
  <2>1. /\ cancelled = "sent" /\ cancelled' = "served" /\ UNCHANGED finish
        /\ IF Phase = "open" THEN Server!EndSessions({Upload}) ELSE UNCHANGED serverVars
    BY <1>5 DEF ServeAbort
  <2>2. /\ ServerTyped' /\ Published' = Published
        /\ (Phase = "open" /\ Phase' = "over") \/ (Phase # "open" /\ Phase' = Phase /\ Stored' = Stored)
    BY <2>1, <1>f, SessionEnds, ServerRests
  <2>3. /\ FinishTrue' /\ CancelTrue' /\ transfer # "init"
        /\ finish' \in {"none", "sent", "owned", "published", "stored", "refused", "dropped"}
        /\ cancelled' \in {"none", "sent", "served", "lost"}
    BY <2>1, <2>2, <1>1, <1>f DEF CallTyped, FinishTrue, CancelTrue
  <2> QED BY <2>2, <2>3, <1>1, <1>2
<1>6. CASE LoseAbort
  <2>1. cancelled = "sent" /\ cancelled' = "lost" /\ UNCHANGED finish /\ UNCHANGED serverVars
    BY <1>6 DEF LoseAbort
  <2>2. ServerTyped' /\ Published' = Published /\ Phase' = Phase /\ Stored' = Stored
    BY <2>1, <1>f, ServerRests
  <2>3. /\ FinishTrue' /\ CancelTrue' /\ transfer # "init"
        /\ finish' \in {"none", "sent", "owned", "published", "stored", "refused", "dropped"}
        /\ cancelled' \in {"none", "sent", "served", "lost"}
    BY <2>1, <2>2, <1>1, <1>f DEF CallTyped, FinishTrue, CancelTrue
  <2> QED BY <2>2, <2>3, <1>1, <1>2
<1>7. CASE ServerEnds
  <2>1. /\ Phase \in {"open", "closing"} /\ UNCHANGED cancelled /\ Server!EndSessions({Upload})
        /\ finish' = IF finish = "owned" THEN "dropped" ELSE finish
    BY <1>7 DEF ServerEnds
  <2>2. ServerTyped' /\ Published' = Published /\ Phase' = "over"
    BY <2>1, <1>f, SessionEnds
  <2>3. transfer # "init"
    BY <2>1, <1>f DEF BeforeInit
  <2>4. finish' \in {"none", "sent", "owned", "published", "stored", "refused", "dropped"}
    BY <2>1, <1>f DEF CallTyped
  <2>5. FinishTrue' /\ CancelTrue'
    BY <2>1, <2>2, <1>1, <1>f DEF FinishTrue, CancelTrue
  <2>6. cancelled' \in {"none", "sent", "served", "lost"}
    BY <2>1, <1>f DEF CallTyped
  <2> QED BY <2>2, <2>3, <2>4, <2>5, <2>6, <1>1, <1>2
<1> QED BY <1>1, <1>3, <1>4, <1>5, <1>6, <1>7 DEF ServerNext

-----------------------------------------------------------------------------
(* ChunkTransfer: the workers and their requests                           *)

\* One worker moves on: it gives its chunk up, keeps it or takes the next one.
LEMMA WorkerMoves ==
    ASSUME TransferInv, NEW w \in TransferWorkers, NEW r \in TransferWorker, transfer # "init",
           worker' = [worker EXCEPT ![w] = r],
           UNCHANGED <<transfer, sessionKnown, finish, cancelled, serverVars>>,
           puts' \subseteq Put, firstError' \in {"none", "fatal", "transient"},
           firstError # "none" => firstError' # "none",
           nextIndex' \in 1..(ChunkCount + 1), nextIndex <= nextIndex',
           \A i \in 1..ChunkCount :
               i < nextIndex' => i < nextIndex \/ (r.pc \in {"put", "delay"} /\ r.index = i),
           worker[w].pc \in {"put", "delay"} =>
               \/ r.pc \in {"put", "delay"} /\ r.index = worker[w].index
               \/ worker[w].index \in Stored \/ Phase # "open" \/ firstError' # "none",
           r.pc = "stop" => firstError' # "none" \/ nextIndex' = ChunkCount + 1,
           r.pc \in {"put", "delay"} => r.index # 0,
           r.pc = "put" /\ r.reply = "ok" => r.index \in Stored \/ Phase # "open"
    PROVE  TransferInv'
<1>f. /\ CallTyped /\ ServerTyped /\ BeforeInit /\ FinishTrue /\ CancelTrue /\ ChunksHeld /\ RepliesTrue
      /\ nextIndex \in Nat
  BY TransferFacts
<1>1. ServerTyped' /\ Phase' = Phase /\ Stored' = Stored /\ Published' = Published
  BY <1>f, ServerRests
<1>2. \A x \in TransferWorkers : worker'[x] = IF x = w THEN r ELSE worker[x]
  BY <1>f DEF CallTyped
<1>3. CallTyped'
  <2>1. worker' \in [TransferWorkers -> TransferWorker]
    BY <1>f DEF CallTyped
  <2> QED BY <2>1, <1>f DEF CallTyped
<1>4. BeforeInit' /\ FinishTrue' /\ CancelTrue'
  BY <1>1, <1>f DEF BeforeInit, FinishTrue, CancelTrue
<1>5. RepliesTrue'
  BY <1>1, <1>2, <1>f DEF RepliesTrue
<1>6. ASSUME NEW i \in 1..ChunkCount, transfer = "chunks", i < nextIndex' PROVE Settled(i)'
  <2>1. CASE r.pc \in {"put", "delay"} /\ r.index = i
    BY <2>1, <1>2 DEF Settled
  <2>2. CASE i < nextIndex
    <3>1. Settled(i)
      BY <2>2, <1>6, <1>f DEF ChunksHeld
    <3>2. CASE i \in Stored \/ Phase # "open" \/ firstError # "none"
      BY <3>2, <1>1 DEF Settled
    <3>3. ASSUME NEW x \in TransferWorkers, worker[x].pc \in {"put", "delay"}, worker[x].index = i
          PROVE  Settled(i)'
      <4>1. CASE x # w
        BY <4>1, <3>3, <1>2 DEF Settled
      <4>2. CASE x = w
        BY <4>2, <3>3, <1>1, <1>2 DEF Settled
      <4> QED BY <4>1, <4>2
    <3> QED BY <3>1, <3>2, <3>3 DEF Settled
  <2> QED BY <2>1, <2>2, <1>6
<1>7. ChunksHeld'
  <2>1. ASSUME transfer = "chunks", NEW x \in TransferWorkers, worker'[x].pc = "stop"
        PROVE  firstError' # "none" \/ nextIndex' = ChunkCount + 1
    <3>1. CASE x = w
      BY <3>1, <2>1, <1>2
    <3>2. CASE x # w
      <4>1. firstError # "none" \/ nextIndex = ChunkCount + 1
        BY <3>2, <2>1, <1>2, <1>f DEF ChunksHeld
      <4> QED BY <4>1, <1>f, ChunksAssumption
    <3> QED BY <3>1, <3>2
  <2> QED BY <2>1, <1>1, <1>6, <1>f DEF ChunksHeld
<1> QED BY <1>1, <1>3, <1>4, <1>5, <1>7 DEF TransferInv

LEMMA TakeIndexKeeps ==
    ASSUME TransferInv, NEW w \in TransferWorkers, TakeIndex(w) \/ DelayOver(w)
    PROVE  TransferInv' /\ NoNewPut
<1>f. CallTyped /\ RepliesTrue /\ nextIndex \in Nat /\ nextIndex <= ChunkCount + 1
  BY TransferFacts
<1>t. /\ worker \in [TransferWorkers -> TransferWorker] /\ worker[w] \in TransferWorker /\ puts \subseteq Put
      /\ firstError \in {"none", "fatal", "transient"} /\ nextIndex \in 1..(ChunkCount + 1)
  BY <1>f DEF CallTyped
<1>1. /\ transfer = "chunks"
      /\ UNCHANGED <<transfer, sessionKnown, firstError, finish, cancelled, serverVars>>
  BY DEF TakeIndex, DelayOver
<1>2. CASE /\ firstError # "none" \/ (nextIndex > ChunkCount /\ worker[w].pc = "next")
           /\ worker[w].pc \in {"next", "delay"}
           /\ worker' = [worker EXCEPT ![w].pc = "stop"] /\ UNCHANGED <<nextIndex, puts>>
  <2> DEFINE r == [worker[w] EXCEPT !.pc = "stop"]
  <2>1. r \in TransferWorker /\ r.pc = "stop" /\ worker' = [worker EXCEPT ![w] = r]
    BY <1>2, <1>t DEF TransferWorker
  <2> HIDE DEF r
  <2>2. worker[w].pc \in {"put", "delay"} => firstError # "none"
    BY <1>2
  <2>3. firstError # "none" \/ nextIndex = ChunkCount + 1
    BY <1>2, <1>f, ChunksAssumption
  <2>4. nextIndex <= nextIndex' /\ UNCHANGED <<nextIndex, puts, firstError>>
    BY <1>2, <1>1, <1>f
  <2>5. TransferInv'
    BY <2>1, <2>2, <2>3, <2>4, <1>1, <1>t, WorkerMoves
  <2> QED BY <2>4, <2>5 DEF NoNewPut
<1>3. CASE /\ worker[w].pc = "next" /\ firstError = "none" /\ nextIndex <= ChunkCount
           /\ nextIndex' = nextIndex + 1
           /\ worker' = [worker EXCEPT ![w] = [pc |-> "put", index |-> nextIndex, attempt |-> 0, reply |-> "none"]]
           /\ puts' = puts \union {[index |-> nextIndex, attempt |-> 0, at |-> "sent"]}
  <2> DEFINE r == [pc |-> "put", index |-> nextIndex, attempt |-> 0, reply |-> "none"]
  <2>1. nextIndex \in 1..ChunkCount /\ nextIndex' \in 1..(ChunkCount + 1)
    BY <1>3, <1>t, ChunksAssumption
  <2>2. r \in TransferWorker /\ r.pc = "put" /\ r.index = nextIndex /\ r.reply = "none" /\ nextIndex # 0
    BY <2>1, ChunksAssumption, RetriesAssumption DEF TransferWorker, PutResults
  <2>3. puts' \subseteq Put
    BY <2>1, <1>3, <1>t, ChunksAssumption, RetriesAssumption DEF Put
  <2>4. worker' = [worker EXCEPT ![w] = r]
    BY <1>3
  <2> HIDE DEF r
  <2>5. \A i \in 1..ChunkCount : i < nextIndex' => i < nextIndex \/ r.index = i
    BY <1>3, <1>f, <2>2, ChunksAssumption
  <2>6. nextIndex <= nextIndex' /\ UNCHANGED firstError
    BY <1>3, <1>1, <1>f
  <2>7. TransferInv'
    BY <2>1, <2>2, <2>3, <2>4, <2>5, <2>6, <1>1, <1>3, <1>t, WorkerMoves
  <2> QED BY <2>7, <1>3 DEF NoNewPut
<1>4. CASE /\ worker[w].pc = "delay" /\ firstError = "none" /\ UNCHANGED nextIndex
           /\ worker' = [worker EXCEPT ![w].pc = "put", ![w].reply = "none"]
           /\ puts' = puts \union {[index |-> worker[w].index, attempt |-> worker[w].attempt, at |-> "sent"]}
  <2> DEFINE r == [worker[w] EXCEPT !.pc = "put", !.reply = "none"]
  <2>1. /\ r \in TransferWorker /\ r.pc = "put" /\ r.index = worker[w].index /\ r.reply = "none"
        /\ worker' = [worker EXCEPT ![w] = r]
    BY <1>4, <1>t DEF TransferWorker
  <2> HIDE DEF r
  <2>2. worker[w].index # 0
    BY <1>4, <1>f DEF RepliesTrue
  <2>3. puts' \subseteq Put
    BY <2>2, <1>4, <1>t, ChunksAssumption DEF Put, TransferWorker
  <2>4. nextIndex <= nextIndex' /\ UNCHANGED firstError /\ nextIndex' \in 1..(ChunkCount + 1)
    BY <1>4, <1>1, <1>f, <1>t
  <2>5. TransferInv'
    BY <2>1, <2>2, <2>3, <2>4, <1>1, <1>4, <1>t, WorkerMoves
  <2> QED BY <2>5, <1>4 DEF NoNewPut
<1>5. nextIndex > ChunkCount \/ nextIndex <= ChunkCount
  BY <1>f, ChunksAssumption
<1> QED BY <1>2, <1>3, <1>4, <1>5 DEF TakeIndex, DelayOver

LEMMA AnswerKeeps ==
    ASSUME TransferInv, NEW w \in TransferWorkers, PutLoads(w) \/ PutErrors(w)
    PROVE  TransferInv' /\ UNCHANGED puts
<1>f. CallTyped /\ BeforeInit /\ RepliesTrue /\ nextIndex \in Nat
  BY TransferFacts
<1>t. /\ worker \in [TransferWorkers -> TransferWorker] /\ worker[w] \in TransferWorker /\ puts \subseteq Put
      /\ firstError \in {"none", "fatal", "transient"} /\ nextIndex \in 1..(ChunkCount + 1)
  BY <1>f DEF CallTyped
<1>1. PICK reply \in PutResults :
        /\ worker[w].pc = "put" /\ PutAnswered(w, reply)
        /\ reply = "ok" => worker[w].reply = "ok"
        /\ UNCHANGED <<transfer, sessionKnown, nextIndex, puts, finish, cancelled, serverVars>>
  BY <1>t DEF PutLoads, PutErrors, TransferWorker, PutResults
<1>2. transfer # "init" /\ nextIndex <= nextIndex' /\ nextIndex' \in 1..(ChunkCount + 1) /\ puts' \subseteq Put
      /\ worker[w].index # 0
  BY <1>1, <1>f, <1>t DEF BeforeInit, RepliesTrue
<1>3. CASE reply = "ok" /\ worker' = [worker EXCEPT ![w].pc = "next"] /\ UNCHANGED firstError
  <2> DEFINE r == [worker[w] EXCEPT !.pc = "next"]
  <2>1. r \in TransferWorker /\ r.pc = "next" /\ worker' = [worker EXCEPT ![w] = r]
    BY <1>3, <1>t DEF TransferWorker
  <2> HIDE DEF r
  <2>2. worker[w].index \in Stored \/ Phase # "open"
    BY <1>1, <1>3, <1>f DEF RepliesTrue
  <2> QED BY <2>1, <2>2, <1>1, <1>2, <1>3, <1>t, WorkerMoves
<1>4. CASE reply # "ok" /\ GiveUpChunk(w, reply)
  <2> DEFINE r == [worker[w] EXCEPT !.pc = "stop"]
  <2>1. r \in TransferWorker /\ r.pc = "stop" /\ worker' = [worker EXCEPT ![w] = r]
    BY <1>4, <1>t DEF TransferWorker, GiveUpChunk
  <2> HIDE DEF r
  <2>2. firstError' \in {"none", "fatal", "transient"} /\ firstError' # "none"
    BY <1>1, <1>4, <1>t DEF GiveUpChunk, PutResults
  <2> QED BY <2>1, <2>2, <1>1, <1>2, <1>t, WorkerMoves
<1>5. CASE /\ worker[w].attempt # ChunkMaxRetries /\ UNCHANGED firstError
           /\ worker' = [worker EXCEPT ![w].pc = "delay", ![w].attempt = @ + 1]
  <2> DEFINE r == [worker[w] EXCEPT !.pc = "delay", !.attempt = @ + 1]
  <2>1. worker[w].attempt + 1 \in 0..ChunkMaxRetries
    BY <1>5, <1>t, RetriesAssumption DEF TransferWorker
  <2>2. /\ r \in TransferWorker /\ r.pc = "delay" /\ r.index = worker[w].index
        /\ worker' = [worker EXCEPT ![w] = r]
    BY <2>1, <1>5, <1>t DEF TransferWorker
  <2> HIDE DEF r
  <2> QED BY <2>2, <1>1, <1>2, <1>5, <1>t, WorkerMoves
<1> QED BY <1>1, <1>3, <1>4, <1>5 DEF PutAnswered

\* The server answers a request, and may have stored its chunk.
LEMMA RepliesKeep ==
    ASSUME TransferInv, NEW p \in puts, NEW result \in PutResults, Reply(p, result),
           UNCHANGED <<transfer, sessionKnown, nextIndex, firstError, finish, cancelled>>,
           puts' \subseteq Put, ServerTyped', Phase' = Phase, Published' = Published, Stored \subseteq Stored',
           result = "ok" => p.index \in Stored' \/ Phase # "open"
    PROVE  TransferInv'
<1>f. /\ CallTyped /\ ServerTyped /\ BeforeInit /\ FinishTrue /\ CancelTrue /\ ChunksHeld /\ RepliesTrue
  BY TransferFacts
<1>1. \A w \in TransferWorkers : worker[w] \in TransferWorker
  BY <1>f DEF CallTyped
<1>2. /\ worker' \in [TransferWorkers -> TransferWorker]
      /\ \A w \in TransferWorkers :
           /\ worker'[w].pc = worker[w].pc /\ worker'[w].index = worker[w].index
           /\ \/ worker'[w].reply = worker[w].reply
              \/ worker'[w].reply = result /\ worker[w].index = p.index
  BY <1>1 DEF Reply, TransferWorker
<1>3. transfer # "init"
  BY <1>f DEF BeforeInit
<1>4. CallTyped' /\ BeforeInit' /\ FinishTrue' /\ CancelTrue'
  BY <1>2, <1>3, <1>f DEF CallTyped, BeforeInit, FinishTrue, CancelTrue
<1>5. Stored' \subseteq 1..ChunkCount
  BY DEF ServerTyped, Stored
<1>6. ChunksHeld'
  <2>1. ASSUME NEW i PROVE Settled(i) => Settled(i)'
    BY <1>2 DEF Settled
  <2> QED BY <2>1, <1>2, <1>5, <1>f DEF ChunksHeld
<1>7. RepliesTrue'
  BY <1>2, <1>f DEF RepliesTrue
<1> QED BY <1>4, <1>6, <1>7 DEF TransferInv

LEMMA PutsKeep == ASSUME TransferInv, NEW p \in puts, PutNext(p) PROVE TransferInv' /\ NoNewPut
<1>f. /\ CallTyped /\ ServerTyped /\ BeforeInit /\ FinishTrue /\ CancelTrue /\ ChunksHeld /\ RepliesTrue
  BY TransferFacts
<1>p. puts \subseteq Put /\ p \in Put
  BY <1>f DEF CallTyped
<1>1. /\ UNCHANGED <<transfer, sessionKnown, nextIndex, firstError, finish, cancelled>>
      /\ \/ puts' = puts \ {p}
         \/ puts' = (puts \ {p}) \union {[p EXCEPT !.at = "writing"]} /\ UNCHANGED <<worker, serverVars>>
  BY DEF PutNext, ServePut, StorePut, FailPut
<1>2. puts' \subseteq Put /\ NoNewPut
  <2>1. LET q == [p EXCEPT !.at = "writing"] IN q \in Put /\ q.index = p.index /\ q.attempt = p.attempt
    BY <1>p DEF Put
  <2> QED BY <2>1, <1>1, <1>p DEF NoNewPut
<1>3. CASE UNCHANGED <<worker, serverVars>>
  <2>1. ServerTyped' /\ Phase' = Phase /\ Stored' = Stored /\ Published' = Published
    BY <1>3, <1>f, ServerRests
  <2>2. transfer # "init"
    BY <1>f DEF BeforeInit
  <2>3. TransferInv'
    BY <2>1, <2>2, <1>1, <1>2, <1>3, <1>f DEF TransferInv, CallTyped, BeforeInit, FinishTrue, CancelTrue,
       ChunksHeld, Settled, RepliesTrue
  <2> QED BY <2>3, <1>2
<1>4. ASSUME NEW result \in PutResults, Reply(p, result), UNCHANGED serverVars,
             result = "ok" => p.index \in Stored
      PROVE  TransferInv'
  <2>1. ServerTyped' /\ Phase' = Phase /\ Stored' = Stored /\ Published' = Published
    BY <1>4, <1>f, ServerRests
  <2> QED BY <2>1, <1>1, <1>2, <1>4, RepliesKeep
<1>5. ASSUME Reply(p, "ok"), Server!StoreChunk(Upload, p.index) PROVE TransferInv'
  <2>1. ServerTyped' /\ Phase' = Phase /\ Stored' = Stored \union {p.index} /\ Published' = Published
    BY <1>5, <1>f, SessionStores
  <2>2. "ok" \in PutResults
    BY DEF PutResults
  <2> QED BY <2>1, <2>2, <1>1, <1>2, <1>5, RepliesKeep
<1>6. {"ok", "fatal", "transient"} = PutResults
  BY DEF PutResults
<1>7. CASE ServePut(p)
  BY <1>2, <1>3, <1>4, <1>6, <1>7 DEF ServePut, Stored
<1>8. CASE StorePut(p)
  BY <1>2, <1>4, <1>5, <1>6, <1>8 DEF StorePut
<1>9. CASE FailPut(p)
  BY <1>2, <1>4, <1>6, <1>9 DEF FailPut
<1> QED BY <1>7, <1>8, <1>9 DEF PutNext

LEMMA TransferStays == ASSUME TransferInv, [TransferNext]_transferVars PROVE TransferInv' /\ NoNewPut
<1>1. ASSUME UNCHANGED puts PROVE NoNewPut
  BY <1>1 DEF NoNewPut
<1>2. CASE InitFails
  BY <1>1, <1>2, InitFailsKeeps DEF InitFails
<1>3. CASE InitAnswered
  BY <1>1, <1>3, InitAnsweredKeeps DEF InitAnswered
<1>4. CASE CallNext \/ ServerNext
  BY <1>1, <1>4, CallKeeps, ServerKeeps
<1>5. ASSUME NEW w \in TransferWorkers, WorkerNext(w) PROVE TransferInv' /\ NoNewPut
  BY <1>1, <1>5, TakeIndexKeeps, AnswerKeeps DEF WorkerNext
<1>6. ASSUME NEW p \in puts, PutNext(p) PROVE TransferInv' /\ NoNewPut
  BY <1>6, PutsKeep
<1>7. CASE UNCHANGED transferVars
  <2>1. UNCHANGED <<transfer, sessionKnown, nextIndex, firstError, worker, puts, finish, cancelled, serverVars>>
    BY <1>7 DEF transferVars, serverVars
  <2>2. ServerTyped' /\ Phase' = Phase /\ Stored' = Stored /\ Published' = Published
    BY <2>1, ServerRests DEF TransferInv
  <2> QED BY <2>1, <2>2, <1>1 DEF TransferInv, CallTyped, BeforeInit, FinishTrue, CancelTrue,
       ChunksHeld, Settled, RepliesTrue
<1> QED BY <1>2, <1>3, <1>4, <1>5, <1>6, <1>7 DEF TransferNext

-----------------------------------------------------------------------------
(* UploadQueue: sequences of files                                         *)

\* The list holds each file once.
Once(files) == \A i, j \in 1..Len(files) : files[i] = files[j] => i = j

\* Signatures come after everything else.
SignaturesLast(order) ==
    \A i, j \in 1..Len(order) : IsSignature(order[i]) /\ ~IsSignature(order[j]) => j < i

LEMMA OnceIsShort ==
    ASSUME NEW files \in Seq(Files), Once(files)
    PROVE  Len(files) <= Cardinality(Files) /\ Cardinality(Files) \in Nat
<1>1. IsFiniteSet(Files) /\ Cardinality(Files) \in Nat
  BY FilesAssumption, FS_CardinalityType
<1>2. Len(files) \in Nat /\ files \in [1..Len(files) -> Files]
  BY LenProperties
<1>3. IsFiniteSet(1..Len(files)) /\ Cardinality(1..Len(files)) = Len(files)
  <2>1. ASSUME NEW n \in Nat PROVE IsFiniteSet(1..n) /\ Cardinality(1..n) = n
    <3>1. 1 \in Int /\ n \in Int
      OBVIOUS
    <3>2. IsFiniteSet(1..n) /\ Cardinality(1..n) = IF 1 > n THEN 0 ELSE n - 1 + 1
      BY <3>1, FS_Interval
    <3> QED BY <3>2
  <2> QED BY <2>1, <1>2
<1>4. ~(Cardinality(Files) < Cardinality(1..Len(files)))
  <2> SUFFICES ASSUME Cardinality(Files) < Cardinality(1..Len(files)) PROVE FALSE
    OBVIOUS
  <2>1. \E x, y \in 1..Len(files) : x # y /\ files[x] = files[y]
    BY <1>1, <1>2, <1>3, FS_PigeonHole
  <2> QED BY <2>1 DEF Once
<1> QED BY <1>1, <1>2, <1>3, <1>4

LEMMA RemoveAtProperties ==
    ASSUME NEW files \in Seq(Files), NEW i \in 1..Len(files)
    PROVE  /\ RemoveAt(files, i) \in Seq(Files) /\ Len(RemoveAt(files, i)) = Len(files) - 1
           /\ \A k \in 1..(Len(files) - 1) : RemoveAt(files, i)[k] = IF k < i THEN files[k] ELSE files[k + 1]
<1> DEFINE a == SubSeq(files, 1, i - 1)
           b == SubSeq(files, i + 1, Len(files))
<1>n. Len(files) \in Nat /\ i \in Nat /\ \A k \in 1..Len(files) : files[k] \in Files
  BY LenProperties, ElementOfSeq
<1>1. /\ a \in Seq(Files) /\ Len(a) = i - 1 /\ \A k \in 1..(i - 1) : a[k] = files[k]
  <2>1. 1 \in Int /\ i - 1 \in Int /\ \A k \in 1..(i - 1) : files[k] \in Files
    BY <1>n
  <2>2. /\ a \in Seq(Files) /\ Len(a) = IF 1 <= i - 1 THEN (i - 1) - 1 + 1 ELSE 0
        /\ \A k \in 1..((i - 1) - 1 + 1) : a[k] = files[1 + k - 1]
    BY <2>1, SubSeqProperties
  <2> HIDE DEF a
  <2> QED BY <2>2, <1>n
<1>2. /\ b \in Seq(Files) /\ Len(b) = Len(files) - i /\ \A k \in 1..(Len(files) - i) : b[k] = files[i + k]
  <2>1. i + 1 \in Int /\ Len(files) \in Int /\ \A k \in (i + 1)..Len(files) : files[k] \in Files
    BY <1>n
  <2>2. /\ b \in Seq(Files) /\ Len(b) = IF i + 1 <= Len(files) THEN Len(files) - (i + 1) + 1 ELSE 0
        /\ \A k \in 1..(Len(files) - (i + 1) + 1) : b[k] = files[(i + 1) + k - 1]
    BY <2>1, SubSeqProperties
  <2> HIDE DEF b
  <2>3. Len(files) - (i + 1) + 1 = Len(files) - i /\ i + 1 \in Nat
    BY <1>n
  <2>4. Len(b) = Len(files) - i
    BY <2>2, <1>n
  <2>5. ASSUME NEW k \in 1..(Len(files) - i) PROVE b[k] = files[i + k]
    <3>1. b[k] = files[(i + 1) + k - 1]
      BY <2>2, <2>3
    <3>2. (i + 1) + k - 1 = i + k
      BY <1>n
    <3> QED BY <3>1, <3>2
  <2> QED BY <2>2, <2>4, <2>5
<1> HIDE DEF a, b
<1>3. /\ a \o b \in Seq(Files) /\ Len(a \o b) = Len(a) + Len(b)
      /\ \A k \in 1..(Len(a) + Len(b)) : (a \o b)[k] = IF k <= Len(a) THEN a[k] ELSE b[k - Len(a)]
  BY <1>1, <1>2, ConcatProperties
<1>4. \A k \in 1..(Len(files) - 1) : (a \o b)[k] = IF k < i THEN files[k] ELSE files[k + 1]
  <2> TAKE k \in 1..(Len(files) - 1)
  <2>1. CASE k < i
    BY <2>1, <1>n, <1>1, <1>2, <1>3
  <2>2. CASE ~(k < i)
    <3>1. k - Len(a) \in 1..(Len(files) - i) /\ i + (k - Len(a)) = k + 1 /\ ~(k <= Len(a))
      BY <2>2, <1>n, <1>1
    <3>2. (a \o b)[k] = b[k - Len(a)]
      BY <3>1, <1>n, <1>1, <1>2, <1>3
    <3>3. b[k - Len(a)] = files[k + 1]
      BY <3>1, <1>2
    <3> QED BY <2>2, <3>2, <3>3
  <2> QED BY <2>1, <2>2
<1>5. RemoveAt(files, i) = a \o b
  BY DEF RemoveAt, a, b
<1>6. Len(a \o b) = Len(files) - 1
  BY <1>n, <1>1, <1>2, <1>3
<1> QED BY <1>3, <1>4, <1>5, <1>6

LEMMA RemovalKeepsOnce ==
    ASSUME NEW files \in Seq(Files), Once(files), NEW i \in 1..Len(files)
    PROVE  /\ RemoveAt(files, i) \in Seq(Files) /\ Once(RemoveAt(files, i))
           /\ \A k \in 1..Len(RemoveAt(files, i)) : \E l \in 1..Len(files) : RemoveAt(files, i)[k] = files[l]
<1> DEFINE r == RemoveAt(files, i)
<1>1. /\ r \in Seq(Files) /\ Len(r) = Len(files) - 1 /\ Len(files) \in Nat
      /\ \A k \in 1..(Len(files) - 1) : r[k] = IF k < i THEN files[k] ELSE files[k + 1]
  BY RemoveAtProperties, LenProperties
<1> HIDE DEF r
<1>2. ASSUME NEW k \in 1..Len(r)
      PROVE  \E l \in 1..Len(files) : r[k] = files[l] /\ l = IF k < i THEN k ELSE k + 1
  BY <1>1
<1>3. Once(r)
  <2> SUFFICES ASSUME NEW k \in 1..Len(r), NEW l \in 1..Len(r), r[k] = r[l] PROVE k = l
    BY DEF Once
  <2>1. PICK x \in 1..Len(files), y \in 1..Len(files) :
          /\ r[k] = files[x] /\ x = (IF k < i THEN k ELSE k + 1)
          /\ r[l] = files[y] /\ y = (IF l < i THEN l ELSE l + 1)
    BY <1>2
  <2>2. x = y
    BY <2>1 DEF Once
  <2> QED BY <2>1, <2>2, <1>1
<1> QED BY <1>1, <1>2, <1>3 DEF r

LEMMA AppendKeepsOnce ==
    ASSUME NEW files \in Seq(Files), Once(files), NEW f \in Files, \A k \in 1..Len(files) : files[k] # f
    PROVE  /\ Append(files, f) \in Seq(Files) /\ Once(Append(files, f))
           /\ \A k \in 1..Len(Append(files, f)) : Append(files, f)[k] = f \/ \E l \in 1..Len(files) : Append(files, f)[k] = files[l]
<1> DEFINE r == Append(files, f)
<1>1. /\ r \in Seq(Files) /\ Len(r) = Len(files) + 1 /\ Len(files) \in Nat
      /\ r[Len(files) + 1] = f /\ \A k \in 1..Len(files) : r[k] = files[k]
  BY AppendProperties, LenProperties
<1> HIDE DEF r
<1>2. Once(r)
  BY <1>1 DEF Once
<1>3. \A k \in 1..Len(r) : r[k] = f \/ \E l \in 1..Len(files) : r[k] = files[l]
  BY <1>1
<1> QED BY <1>1, <1>2, <1>3 DEF r

\* One file further, the order of the batch is the same.
LEMMA OrderStays ==
    ASSUME NEW sent \in Seq(Files), NEW left \in Seq(Files), left # <<>>
    PROVE  /\ Append(sent, Head(left)) \in Seq(Files) /\ Tail(left) \in Seq(Files)
           /\ Append(sent, Head(left)) \o Tail(left) = sent \o left
<1> DEFINE t == Tail(left)
           s == Append(sent, Head(left))
<1>1. /\ left[1] \in Files /\ Head(left) = left[1] /\ t \in Seq(Files) /\ Len(t) = Len(left) - 1
      /\ \A k \in 1..Len(t) : t[k] = left[k + 1]
      /\ Len(left) \in Nat \ {0} /\ Len(sent) \in Nat
  BY HeadTailProperties, EmptySeq, LenProperties, ElementOfSeq
<1>2. /\ s \in Seq(Files) /\ Len(s) = Len(sent) + 1 /\ s[Len(sent) + 1] = left[1]
      /\ \A k \in 1..Len(sent) : s[k] = sent[k]
  BY <1>1, AppendProperties
<1> HIDE DEF s, t
<1>3. /\ s \o t \in Seq(Files) /\ Len(s \o t) = Len(sent) + Len(left)
      /\ \A k \in 1..(Len(sent) + Len(left)) :
           (s \o t)[k] = IF k <= Len(sent) + 1 THEN s[k] ELSE t[k - (Len(sent) + 1)]
  <2>1. /\ s \o t \in Seq(Files) /\ Len(s \o t) = Len(s) + Len(t)
        /\ \A k \in 1..(Len(s) + Len(t)) : (s \o t)[k] = IF k <= Len(s) THEN s[k] ELSE t[k - Len(s)]
    BY <1>1, <1>2, ConcatProperties
  <2>2. Len(s) + Len(t) = Len(sent) + Len(left)
    BY <1>1, <1>2
  <2> QED BY <2>1, <2>2, <1>2
<1>4. /\ sent \o left \in Seq(Files) /\ Len(sent \o left) = Len(sent) + Len(left)
      /\ \A k \in 1..(Len(sent) + Len(left)) :
           (sent \o left)[k] = IF k <= Len(sent) THEN sent[k] ELSE left[k - Len(sent)]
  BY <1>1, ConcatProperties
<1>5. ASSUME NEW k \in 1..(Len(sent) + Len(left)) PROVE (s \o t)[k] = (sent \o left)[k]
  <2>0. k <= Len(sent) \/ k = Len(sent) + 1 \/ k > Len(sent) + 1
    BY <1>1
  <2>1. CASE k <= Len(sent)
    BY <2>1, <1>1, <1>2, <1>3, <1>4
  <2>2. CASE k = Len(sent) + 1
    BY <2>2, <1>1, <1>2, <1>3, <1>4
  <2>3. CASE k > Len(sent) + 1
    <3>1. k - (Len(sent) + 1) \in 1..Len(t) /\ (k - (Len(sent) + 1)) + 1 = k - Len(sent)
      BY <2>3, <1>1
    <3>2. (s \o t)[k] = t[k - (Len(sent) + 1)]
      BY <2>3, <1>1, <1>3
    <3>3. (sent \o left)[k] = left[k - Len(sent)]
      BY <2>3, <1>1, <1>4
    <3> QED BY <3>1, <3>2, <3>3, <1>1
  <2> QED BY <2>0, <2>1, <2>2, <2>3, Zenon
<1>6. s \o t = sent \o left
  BY <1>3, <1>4, <1>5, SeqEqual
<1> QED BY <1>1, <1>2, <1>6 DEF s, t

LEMMA OrdersSort ==
    ASSUME NEW files \in Seq(Files), NEW order \in UploadOrders(files)
    PROVE  order \in Seq(Files) /\ SignaturesLast(order)
<1>1. Len(files) \in Nat /\ DOMAIN files = 1..Len(files) /\ \A k \in 1..Len(files) : files[k] \in Files
  BY LenProperties, ElementOfSeq
<1>2. /\ order \in [1..Len(files) -> ToSet(files)] /\ ToSet(files) \subseteq Files
      /\ \A i, j \in 1..Len(files) : IsSignature(order[i]) /\ ~IsSignature(order[j]) => j < i
  BY <1>1 DEF UploadOrders, ToSet
<1>3. order \in Seq(Files)
  BY <1>1, <1>2
<1>4. Len(order) = Len(files)
  BY <1>1, <1>2, <1>3
<1> QED BY <1>2, <1>3, <1>4 DEF SignaturesLast

-----------------------------------------------------------------------------
(* UploadQueue: the invariant                                              *)

ClickState == [pc : {"idle", "space", "sending"}, left : Seq(Files), sent : Seq(Files),
               signed : SUBSET Protected, at : SUBSET Directories]

\* The list: every file in it was chosen, once, and so it is never longer than Files.
ListTyped ==
    /\ pendingFiles \in Seq(Files) /\ chosen \subseteq Files
    /\ Once(pendingFiles) /\ \A k \in 1..Len(pendingFiles) : pendingFiles[k] \in chosen
    /\ removing \subseteq [file : Files, index : 1..Cardinality(Files)]

\* The calls of the handler of the button; only one that sends has an order.
ClicksTyped ==
    /\ click \in [Clicks -> ClickState]
    /\ \A c \in Clicks : click[c].pc \in {"idle", "space"} => click[c].left = <<>> /\ click[c].sent = <<>>
    /\ \A c \in Clicks : SignaturesLast(click[c].sent \o click[c].left)
    /\ uploading => \E c \in Clicks : click[c].pc = "sending"

FlagsTyped ==
    /\ uploading \in BOOLEAN /\ disabled \in BOOLEAN /\ clearing \in BOOLEAN
    /\ checks \in 0..MaxChecks
    /\ refresh \subseteq [path : Directories, attempt : 0..2]

\* The panel: at most one request is of the directory on show, and its answer sets the policy.
PanelTyped ==
    /\ path \in Directories /\ repositoryPolicySeq \in 0..MaxNavigations
    /\ requests \subseteq [seq : 1..MaxNavigations, path : Directories]
    /\ destination \subseteq Directories /\ (destination = {} \/ \E d \in Directories : destination = {d})
    /\ repositoryRequiresGPG \in BOOLEAN /\ panelOpen \in BOOLEAN
    /\ \A z \in requests : z.seq <= repositoryPolicySeq /\ (z.seq = repositoryPolicySeq => z.path = path)
    /\ PanelFollowsDirectory

UploadInv == ListTyped /\ ClicksTyped /\ FlagsTyped /\ PanelTyped

LEMMA UploadIsSafe ==
    ASSUME UploadInv
    PROVE  UploadTypeOK /\ SignatureAfterArtifact /\ PanelFollowsDirectory /\ UploadingIsABatch
<1>1. ListTyped /\ ClicksTyped /\ FlagsTyped /\ PanelTyped
  BY DEF UploadInv
<1>2. Cardinality(destination) <= 1
  <2>1. Cardinality({}) = 0 /\ \A d : Cardinality({d}) = 1
    BY FS_EmptySet, FS_Singleton
  <2> QED BY <2>1, <1>1 DEF PanelTyped
<1>3. UploadTypeOK
  BY <1>1, <1>2 DEF ListTyped, ClicksTyped, ClickState, FlagsTyped, PanelTyped, UploadTypeOK
<1>4. SignatureAfterArtifact
  <2> SUFFICES ASSUME NEW c \in Clicks PROVE
                 LET order == click[c].sent \o click[c].left
                 IN  \A i, j \in DOMAIN order : SignatureOf[order[i]] = order[j] => j < i
    BY DEF SignatureAfterArtifact
  <2> DEFINE order == click[c].sent \o click[c].left
  <2>1. order \in Seq(Files) /\ SignaturesLast(order)
    BY <1>1, ConcatProperties DEF ClicksTyped, ClickState
  <2> HIDE DEF order
  <2>2. DOMAIN order = 1..Len(order) /\ \A k \in 1..Len(order) : order[k] \in Files
    BY <2>1, LenProperties, ElementOfSeq
  <2>3. ASSUME NEW i \in 1..Len(order), NEW j \in 1..Len(order), SignatureOf[order[i]] = order[j]
        PROVE  j < i
    <3>1. order[i] \in Files /\ order[j] \in Files
      BY <2>2
    <3>2. order[j] # NoFile /\ order[j] \in Protected
      BY <3>1, <2>3, FilesAssumption, SignaturesAssumption
    <3>3. IsSignature(order[i]) /\ ~IsSignature(order[j])
      BY <3>1, <3>2, <2>3, SignaturesAssumption DEF IsSignature
    <3> QED BY <3>3, <2>1 DEF SignaturesLast
  <2>4. \A i, j \in DOMAIN order : SignatureOf[order[i]] = order[j] => j < i
    BY <2>2, <2>3
  <2> QED BY <2>4 DEF order
<1> QED BY <1>1, <1>3, <1>4 DEF PanelTyped, ClicksTyped, UploadingIsABatch

LEMMA EmptyIsOnce == <<>> \in Seq(Files) /\ Len(<<>>) = 0 /\ Once(<<>>) /\ SignaturesLast(<<>> \o <<>>)
<1>1. <<>> \in Seq(Files) /\ Len(<<>>) = 0 /\ <<>> \o <<>> = <<>>
  BY EmptySeq, ConcatEmptySeq
<1>2. \A k \in 1..Len(<<>>) : FALSE
  BY <1>1
<1> QED BY <1>1, <1>2 DEF Once, SignaturesLast

LEMMA IdleTyped == Idle \in ClickState /\ Idle.pc = "idle" /\ Idle.left = <<>> /\ Idle.sent = <<>>
BY EmptyIsOnce DEF Idle, ClickState

LEMMA UploadStarts == UploadInit => UploadInv
<1> SUFFICES ASSUME UploadInit PROVE UploadInv
  OBVIOUS
<1>1. ListTyped
  <2>1. \A k \in 1..Len(<<>>) : FALSE
    BY EmptyIsOnce
  <2> QED BY <2>1, EmptyIsOnce DEF UploadInit, ListTyped
<1>2. FALSE \in BOOLEAN
  OBVIOUS
<1>3. uploading \in BOOLEAN /\ disabled \in BOOLEAN /\ clearing \in BOOLEAN /\ repositoryRequiresGPG \in BOOLEAN
      /\ panelOpen \in BOOLEAN /\ ~uploading /\ ~panelOpen
  BY <1>2, Zenon DEF UploadInit
<1>4. ClicksTyped
  <2>1. click \in [Clicks -> ClickState] /\ \A c \in Clicks : click[c] = Idle
    BY IdleTyped DEF UploadInit
  <2> QED BY <2>1, <1>3, IdleTyped, EmptyIsOnce DEF ClicksTyped
<1>5. FlagsTyped
  BY <1>3, ChecksAssumption DEF UploadInit, FlagsTyped
<1>6. PanelTyped
  BY <1>3, NavigationsAssumption DEF UploadInit, PanelTyped, PanelFollowsDirectory
<1> QED BY <1>1, <1>4, <1>5, <1>6 DEF UploadInv

-----------------------------------------------------------------------------
(* UploadQueue: the steps                                                  *)

LEMMA RenderedTypes ==
    ASSUME FlagsTyped, NEW files, Rendered(files) PROVE checks' \in 0..MaxChecks
BY ChecksAssumption DEF FlagsTyped, Rendered

LEMMA ListRests ==
    ASSUME ListTyped, UNCHANGED <<pendingFiles, chosen, removing>> PROVE ListTyped'
BY DEF ListTyped, Once

LEMMA ClicksRest ==
    ASSUME ClicksTyped, UNCHANGED <<click, uploading>> PROVE ClicksTyped'
BY DEF ClicksTyped

LEMMA PanelRests == ASSUME PanelTyped, UNCHANGED panelVars PROVE PanelTyped'
BY DEF PanelTyped, panelVars, PanelFollowsDirectory

\* The list loses some of its files.
LEMMA ListShrinks ==
    ASSUME ListTyped, NEW files \in Seq(Files), pendingFiles' = files, Once(files),
           \A k \in 1..Len(files) : \E l \in 1..Len(pendingFiles) : files[k] = pendingFiles[l],
           UNCHANGED chosen, removing' \subseteq removing
    PROVE  ListTyped'
<1>1. \A k \in 1..Len(files) : files[k] \in chosen
  BY DEF ListTyped
<1>2. removing' \subseteq [file : Files, index : 1..Cardinality(Files)] /\ chosen' \subseteq Files
  BY DEF ListTyped
<1>3. Once(pendingFiles)' /\ pendingFiles' \in Seq(Files) /\ \A k \in 1..Len(pendingFiles') : pendingFiles'[k] \in chosen'
  BY <1>1 DEF Once
<1> QED BY <1>2, <1>3 DEF ListTyped

LEMMA ListEmpties ==
    ASSUME ListTyped, pendingFiles' = <<>>, UNCHANGED <<chosen, removing>> PROVE ListTyped'
<1>1. \A k \in 1..Len(<<>>) : FALSE
  BY EmptyIsOnce
<1> QED BY <1>1, EmptyIsOnce, ListShrinks

LEMMA ListKeeps ==
    ASSUME UploadInv, \/ \E f \in Files : Choose(f) \/ RemoveClick(f)
                      \/ \E m \in removing : RemoveCleanup(m)
                      \/ ClearClick \/ ClearTimer \/ LanguageChanged \/ SpaceAnswer
    PROVE  UploadInv'
<1>f. /\ ListTyped /\ ClicksTyped /\ FlagsTyped /\ PanelTyped
      /\ pendingFiles \in Seq(Files) /\ Once(pendingFiles)
      /\ \A k \in 1..Len(pendingFiles) : pendingFiles[k] \in chosen
      /\ DOMAIN pendingFiles = 1..Len(pendingFiles)
  BY LenProperties DEF UploadInv, ListTyped
<1>1. ClicksTyped' /\ PanelTyped'
  <2>1. UNCHANGED <<click, uploading>> /\ UNCHANGED panelVars
    BY DEF Choose, RemoveClick, RemoveCleanup, ClearClick, ClearTimer, LanguageChanged, SpaceAnswer
  <2> QED BY <2>1, <1>f, ClicksRest, PanelRests
<1>2. FlagsTyped'
  <2>1. checks' \in 0..MaxChecks
    <3>1. \/ UNCHANGED checks \/ Rendered(pendingFiles') \/ Rendered(pendingFiles)
          \/ checks > 0 /\ checks' = checks - 1
      BY DEF Choose, AddPendingFiles, RemoveClick, RemoveCleanup, ClearClick, ClearTimer, LanguageChanged, SpaceAnswer
    <3>2. checks \in 0..MaxChecks
      BY <1>f DEF FlagsTyped
    <3>3. checks > 0 => checks - 1 \in 0..MaxChecks
      BY <3>2, ChecksAssumption
    <3> QED BY <3>1, <3>2, <3>3, <1>f, RenderedTypes
  <2>2. disabled' \in BOOLEAN /\ clearing' \in BOOLEAN /\ UNCHANGED <<uploading, refresh>>
    <3>1. /\ \/ UNCHANGED disabled
             \/ disabled' \in {TRUE, disabled} \cup (IF uploading THEN {} ELSE {FALSE})
          /\ clearing' \in {clearing, TRUE, FALSE} /\ UNCHANGED <<uploading, refresh>>
      BY DEF Choose, RemoveClick, RemoveCleanup, ClearClick, ClearTimer, LanguageChanged, SpaceAnswer
    <3>2. disabled \in BOOLEAN /\ clearing \in BOOLEAN
      BY <1>f DEF FlagsTyped
    <3> QED BY <3>1, <3>2
  <2> QED BY <2>1, <2>2, <1>f DEF FlagsTyped
<1>3. ASSUME NEW f \in Files, Choose(f) PROVE ListTyped'
  <2>1. /\ f \notin chosen /\ chosen' = chosen \cup {f} /\ pendingFiles' = Append(pendingFiles, f)
        /\ removing' = removing
    BY <1>3 DEF Choose, AddPendingFiles
  <2>2. \A k \in 1..Len(pendingFiles) : pendingFiles[k] # f
    BY <2>1, <1>f
  <2> DEFINE files == Append(pendingFiles, f)
  <2>3. /\ files \in Seq(Files) /\ Once(files)
        /\ \A k \in 1..Len(files) : files[k] = f \/ \E l \in 1..Len(pendingFiles) : files[k] = pendingFiles[l]
    BY <2>2, <1>f, AppendKeepsOnce
  <2>4. pendingFiles' = files
    BY <2>1
  <2> HIDE DEF files
  <2>5. \A k \in 1..Len(files) : files[k] \in chosen'
    BY <2>1, <2>3, <1>f
  <2>6. Once(pendingFiles)' /\ pendingFiles' \in Seq(Files)
        /\ \A k \in 1..Len(pendingFiles') : pendingFiles'[k] \in chosen'
    BY <2>3, <2>4, <2>5 DEF Once
  <2>7. chosen' \subseteq Files /\ removing' \subseteq [file : Files, index : 1..Cardinality(Files)]
    BY <2>1, <1>f DEF ListTyped
  <2> QED BY <2>6, <2>7 DEF ListTyped
<1>4. ASSUME NEW f \in Files, RemoveClick(f) PROVE ListTyped'
  <2>1. PICK i \in DOMAIN pendingFiles :
          /\ removing' = removing \cup {[file |-> f, index |-> i]} /\ UNCHANGED <<pendingFiles, chosen>>
    BY <1>4 DEF RemoveClick
  <2>2. i \in 1..Cardinality(Files)
    <3>1. Len(pendingFiles) \in Nat /\ Len(pendingFiles) <= Cardinality(Files) /\ Cardinality(Files) \in Nat
      BY <1>f, OnceIsShort, LenProperties
    <3> QED BY <3>1, <1>f
  <2>3. removing' \subseteq [file : Files, index : 1..Cardinality(Files)]
    BY <2>1, <2>2, <1>f DEF ListTyped
  <2> QED BY <2>1, <2>3, <1>f DEF ListTyped, Once
<1>5. ASSUME NEW m \in removing, RemoveCleanup(m) PROVE ListTyped'
  <2>1. /\ removing' \subseteq removing /\ UNCHANGED chosen
        /\ pendingFiles' = IF m.index \in DOMAIN pendingFiles THEN RemoveAt(pendingFiles, m.index) ELSE pendingFiles
    BY <1>5 DEF RemoveCleanup
  <2>2. CASE m.index \in DOMAIN pendingFiles
    <3> DEFINE files == RemoveAt(pendingFiles, m.index)
    <3>1. /\ files \in Seq(Files) /\ Once(files)
          /\ \A k \in 1..Len(files) : \E l \in 1..Len(pendingFiles) : files[k] = pendingFiles[l]
      BY <2>2, <1>f, RemovalKeepsOnce
    <3>2. pendingFiles' = files
      BY <2>1, <2>2
    <3> HIDE DEF files
    <3> QED BY <3>1, <3>2, <2>1, <1>f, ListShrinks
  <2>3. CASE m.index \notin DOMAIN pendingFiles
    BY <2>1, <2>3, <1>f, ListShrinks
  <2> QED BY <2>2, <2>3
<1>6. ASSUME ClearTimer PROVE ListTyped'
  BY <1>6, <1>f, ListEmpties DEF ClearTimer
<1>7. ASSUME ClearClick \/ LanguageChanged \/ SpaceAnswer PROVE ListTyped'
  BY <1>7, <1>f, ListRests DEF ClearClick, LanguageChanged, SpaceAnswer
<1>8. ListTyped'
  BY <1>3, <1>4, <1>5, <1>6, <1>7
<1> QED BY <1>1, <1>2, <1>8 DEF UploadInv

\* One call of the handler moves on.
LEMMA ClickMoves ==
    ASSUME ClicksTyped, NEW c \in Clicks, NEW r \in ClickState, click' = [click EXCEPT ![c] = r],
           r.pc \in {"idle", "space"} => r.left = <<>> /\ r.sent = <<>>,
           SignaturesLast(r.sent \o r.left),
           uploading' => r.pc = "sending" \/ (uploading /\ click[c].pc # "sending")
    PROVE  ClicksTyped'
<1>1. click' \in [Clicks -> ClickState] /\ \A x \in Clicks : click'[x] = IF x = c THEN r ELSE click[x]
  BY DEF ClicksTyped
<1>2. \A x \in Clicks : click'[x].pc \in {"idle", "space"} => click'[x].left = <<>> /\ click'[x].sent = <<>>
  BY <1>1 DEF ClicksTyped
<1>3. \A x \in Clicks : SignaturesLast(click'[x].sent \o click'[x].left)
  BY <1>1 DEF ClicksTyped
<1>4. uploading' => \E x \in Clicks : click'[x].pc = "sending"
  BY <1>1 DEF ClicksTyped
<1> QED BY <1>1, <1>2, <1>3, <1>4 DEF ClicksTyped, SignaturesLast

LEMMA ClicksKeep ==
    ASSUME UploadInv, NEW c \in Clicks,
           UploadClick(c) \/ SpaceShort(c) \/ StartBatch(c) \/ FileEnds(c) \/ FinishBatch(c)
    PROVE  UploadInv'
<1>f. /\ ListTyped /\ ClicksTyped /\ FlagsTyped /\ PanelTyped
      /\ pendingFiles \in Seq(Files) /\ click[c] \in ClickState
  BY DEF UploadInv, ListTyped, ClicksTyped
<1>1. PanelTyped'
  BY <1>f, PanelRests DEF UploadClick, SpaceShort, StartBatch, FileEnds, FinishBatch
<1>2. ListTyped'
  BY <1>f, ListRests, ListEmpties DEF UploadClick, SpaceShort, StartBatch, FileEnds, FinishBatch
<1>3. FlagsTyped'
  <2>1. UNCHANGED <<clearing, checks>> /\ uploading' \in {uploading, TRUE, FALSE} /\ disabled' \in {disabled, TRUE, FALSE}
    BY DEF UploadClick, SpaceShort, StartBatch, FileEnds, FinishBatch
  <2>2. refresh' \subseteq refresh \cup [path : click[c].at, attempt : {0}]
    BY DEF UploadClick, SpaceShort, StartBatch, FileEnds, FinishBatch
  <2>3. [path : click[c].at, attempt : {0}] \subseteq [path : Directories, attempt : 0..2]
    <3>1. click[c].at \subseteq Directories
      BY <1>f DEF ClickState
    <3> QED BY <3>1
  <2>4. refresh' \subseteq [path : Directories, attempt : 0..2]
    BY <2>2, <2>3, <1>f DEF FlagsTyped
  <2>5. uploading' \in BOOLEAN /\ disabled' \in BOOLEAN
    BY <2>1, <1>f DEF FlagsTyped
  <2> QED BY <2>1, <2>4, <2>5, <1>f DEF FlagsTyped
<1>4. ASSUME UploadClick(c) PROVE ClicksTyped'
  <2> DEFINE r == [Idle EXCEPT !.pc = "space", !.signed = SignedNames]
  <2>1. SignedNames \subseteq Protected
    <3>1. \A f \in ToSet(pendingFiles) : f \in Files
      BY <1>f, LenProperties, ElementOfSeq DEF ToSet
    <3> QED BY <3>1, SignaturesAssumption DEF SignedNames, IsSignature
  <2>2. r \in ClickState /\ r.pc = "space" /\ r.left = <<>> /\ r.sent = <<>>
    BY <2>1, EmptyIsOnce DEF Idle, ClickState
  <2>3. click' = [click EXCEPT ![c] = r] /\ uploading' = uploading /\ click[c].pc = "idle"
    BY <1>4 DEF UploadClick
  <2> HIDE DEF r
  <2> QED BY <2>2, <2>3, <1>f, EmptyIsOnce, ClickMoves
<1>5. ASSUME SpaceShort(c) PROVE ClicksTyped'
  <2>1. click' = [click EXCEPT ![c] = Idle] /\ uploading' = uploading /\ click[c].pc = "space"
    BY <1>5 DEF SpaceShort
  <2> QED BY <2>1, <1>f, EmptyIsOnce, IdleTyped, ClickMoves
<1>6. ASSUME StartBatch(c) PROVE ClicksTyped'
  <2>1. PICK order \in UploadOrders(pendingFiles) :
          click' = [click EXCEPT ![c].pc = "sending", ![c].left = order, ![c].at = {path}]
    BY <1>6 DEF StartBatch
  <2>2. order \in Seq(Files) /\ SignaturesLast(order) /\ path \in Directories
    BY <1>f, OrdersSort DEF PanelTyped
  <2>3. click[c].sent = <<>>
    BY <1>6, <1>f DEF StartBatch, ClicksTyped
  <2> DEFINE r == [click[c] EXCEPT !.pc = "sending", !.left = order, !.at = {path}]
  <2>4. /\ r \in ClickState /\ r.pc = "sending" /\ r.left = order /\ r.sent = <<>>
        /\ click' = [click EXCEPT ![c] = r]
    BY <2>1, <2>2, <2>3, <1>f DEF ClickState
  <2> HIDE DEF r
  <2>5. r.sent \o r.left = order
    BY <2>2, <2>4, ConcatEmptySeq
  <2> QED BY <2>2, <2>4, <2>5, <1>f, ClickMoves
<1>7. ASSUME FileEnds(c) PROVE ClicksTyped'
  <2>1. /\ click[c].pc = "sending" /\ click[c].left # <<>> /\ uploading' = uploading
        /\ click' = [click EXCEPT ![c].left = Tail(@), ![c].sent = Append(@, Head(click[c].left))]
    BY <1>7 DEF FileEnds
  <2>2. click[c].sent \in Seq(Files) /\ click[c].left \in Seq(Files) /\ SignaturesLast(click[c].sent \o click[c].left)
    BY <1>f DEF ClickState, ClicksTyped
  <2>3. /\ Append(click[c].sent, Head(click[c].left)) \in Seq(Files) /\ Tail(click[c].left) \in Seq(Files)
        /\ Append(click[c].sent, Head(click[c].left)) \o Tail(click[c].left) = click[c].sent \o click[c].left
    BY <2>1, <2>2, OrderStays
  <2> DEFINE r == [click[c] EXCEPT !.left = Tail(@), !.sent = Append(@, Head(click[c].left))]
  <2>4. /\ r \in ClickState /\ r.pc = "sending" /\ r.left = Tail(click[c].left)
        /\ r.sent = Append(click[c].sent, Head(click[c].left)) /\ click' = [click EXCEPT ![c] = r]
    BY <2>1, <2>3, <1>f DEF ClickState
  <2> HIDE DEF r
  <2> QED BY <2>1, <2>2, <2>3, <2>4, <1>f, ClickMoves
<1>8. ASSUME FinishBatch(c) PROVE ClicksTyped'
  <2>1. click' = [click EXCEPT ![c] = Idle] /\ uploading' = FALSE
    BY <1>8 DEF FinishBatch
  <2> QED BY <2>1, <1>f, EmptyIsOnce, IdleTyped, ClickMoves
<1>9. ClicksTyped'
  BY <1>4, <1>5, <1>6, <1>7, <1>8
<1> QED BY <1>1, <1>2, <1>3, <1>9 DEF UploadInv

LEMMA PanelKeeps ==
    ASSUME UploadInv, \/ \E d \in Directories : Navigate(d)
                      \/ \E z \in requests : ZoneAnswer(z)
    PROVE  UploadInv'
<1>f. /\ ListTyped /\ ClicksTyped /\ FlagsTyped /\ PanelTyped
  BY DEF UploadInv
<1>t. /\ path \in Directories /\ repositoryPolicySeq \in 0..MaxNavigations
      /\ requests \subseteq [seq : 1..MaxNavigations, path : Directories]
      /\ \A z \in requests : z.seq <= repositoryPolicySeq /\ (z.seq = repositoryPolicySeq => z.path = path)
      /\ repositoryRequiresGPG \in BOOLEAN /\ panelOpen \in BOOLEAN
      /\ destination \subseteq Directories /\ (destination = {} \/ \E d \in Directories : destination = {d})
      /\ PanelFollowsDirectory
  BY <1>f DEF PanelTyped
<1>1. ListTyped' /\ ClicksTyped' /\ FlagsTyped'
  <2>1. /\ UNCHANGED <<chosen, removing>> /\ (UNCHANGED pendingFiles \/ pendingFiles' = <<>>)
        /\ UNCHANGED <<uploading, disabled, click, clearing, checks, refresh>>
    BY DEF Navigate, ZoneAnswer, ApplyZone
  <2> QED BY <2>1, <1>f, ListRests, ListEmpties, ClicksRest DEF FlagsTyped
<1>2. ASSUME NEW d \in Directories, Navigate(d) PROVE PanelTyped'
  <2>1. /\ repositoryPolicySeq < MaxNavigations /\ path' = d /\ repositoryPolicySeq' = repositoryPolicySeq + 1
        /\ requests' = requests \cup {[seq |-> repositoryPolicySeq + 1, path |-> d]}
        /\ UNCHANGED <<destination, repositoryRequiresGPG, panelOpen>>
    BY <1>2 DEF Navigate
  <2>2. repositoryPolicySeq + 1 \in 1..MaxNavigations
    BY <2>1, <1>t, NavigationsAssumption
  <2>3. requests' \subseteq [seq : 1..MaxNavigations, path : Directories]
    BY <2>1, <2>2, <1>t
  <2>4. \A z \in requests : z.seq < repositoryPolicySeq' /\ z.seq \in Nat
    BY <2>1, <1>t, NavigationsAssumption
  <2>5. \A z \in requests' : z.seq <= repositoryPolicySeq' /\ (z.seq = repositoryPolicySeq' => z.path = path')
    BY <2>1, <2>2, <2>4
  <2>6. PanelFollowsDirectory'
    <3>1. LET z == [seq |-> repositoryPolicySeq + 1, path |-> d] IN z \in requests' /\ z.seq = repositoryPolicySeq'
      BY <2>1
    <3> QED BY <3>1 DEF PanelFollowsDirectory
  <2> QED BY <2>1, <2>2, <2>3, <2>5, <2>6, <1>t, NavigationsAssumption DEF PanelTyped
<1>3. ASSUME NEW z \in requests, ZoneAnswer(z) PROVE PanelTyped'
  <2>1. requests' = requests \ {z} /\ UNCHANGED <<path, repositoryPolicySeq>>
    BY <1>3 DEF ZoneAnswer
  <2>2. z.path \in Directories /\ Signed[z.path] \in BOOLEAN
    BY <1>t, PolicyAssumption
  <2>3. \/ UNCHANGED <<destination, repositoryRequiresGPG, panelOpen>> /\ z.seq # repositoryPolicySeq
        \/ UNCHANGED destination /\ repositoryRequiresGPG' = FALSE /\ panelOpen' = FALSE
        \/ /\ repositoryRequiresGPG' = Signed[z.path] /\ destination' = {z.path} /\ panelOpen' = TRUE
           /\ z.seq = repositoryPolicySeq
    BY <1>3 DEF ZoneAnswer, ApplyZone
  <2>4. repositoryRequiresGPG' \in BOOLEAN /\ panelOpen' \in BOOLEAN
    BY <2>2, <2>3, <1>t
  <2>5. destination' \subseteq Directories /\ (destination' = {} \/ \E d \in Directories : destination' = {d})
    BY <2>2, <2>3, <1>t
  <2>6. \A y \in requests' : y.seq <= repositoryPolicySeq' /\ (y.seq = repositoryPolicySeq' => y.path = path')
    BY <2>1, <1>t
  <2>7. PanelFollowsDirectory'
    <3>1. CASE UNCHANGED <<destination, repositoryRequiresGPG, panelOpen>> /\ z.seq # repositoryPolicySeq
      BY <3>1, <2>1, <1>t DEF PanelFollowsDirectory
    <3>2. CASE panelOpen' = FALSE
      BY <3>2 DEF PanelFollowsDirectory
    <3>3. CASE /\ repositoryRequiresGPG' = Signed[z.path] /\ destination' = {z.path}
               /\ z.seq = repositoryPolicySeq
      BY <3>3, <2>1, <1>t DEF PanelFollowsDirectory
    <3> QED BY <3>1, <3>2, <3>3, <2>3
  <2> QED BY <2>1, <2>4, <2>5, <2>6, <2>7, <1>t DEF PanelTyped
<1> QED BY <1>1, <1>2, <1>3 DEF UploadInv

LEMMA UploadStays == ASSUME UploadInv, [UploadNext]_uploadVars PROVE UploadInv'
<1>f. /\ ListTyped /\ ClicksTyped /\ FlagsTyped /\ PanelTyped
  BY DEF UploadInv
<1>1. ASSUME NEW t \in refresh, RefreshTimer(t) PROVE UploadInv'
  <2>1. /\ UNCHANGED <<pendingFiles, chosen, removing>> /\ UNCHANGED <<click, uploading>> /\ UNCHANGED panelVars
        /\ UNCHANGED <<disabled, clearing, checks>>
        /\ \/ refresh' \subseteq refresh
           \/ t.attempt # 2 /\ refresh' = (refresh \ {t}) \cup {[t EXCEPT !.attempt = @ + 1]}
    BY <1>1 DEF RefreshTimer
  <2>2. t \in [path : Directories, attempt : 0..2]
    BY <1>f DEF FlagsTyped
  <2>3. t.attempt # 2 => [t EXCEPT !.attempt = @ + 1] \in [path : Directories, attempt : 0..2]
    BY <2>2
  <2>4. FlagsTyped'
    BY <2>1, <2>3, <1>f DEF FlagsTyped
  <2> QED BY <2>1, <2>4, <1>f, ListRests, ClicksRest, PanelRests DEF UploadInv
<1>2. CASE UNCHANGED uploadVars
  <2>1. /\ UNCHANGED <<pendingFiles, chosen, removing>> /\ UNCHANGED <<click, uploading>> /\ UNCHANGED panelVars
        /\ UNCHANGED <<disabled, clearing, checks, refresh>>
    BY <1>2 DEF uploadVars, panelVars
  <2> QED BY <2>1, <1>f, ListRests, ClicksRest, PanelRests DEF UploadInv, FlagsTyped
<1> QED BY <1>1, <1>2, ListKeeps, ClicksKeep, PanelKeeps DEF UploadNext

-----------------------------------------------------------------------------
(* The theorems                                                            *)

ClientInv == UploadInv /\ TransferInv /\ BundleInv /\ RepositoryInv

LEMMA ClientStays == ASSUME ClientInv, [Next]_vars PROVE ClientInv' /\ NoNewPut
<1>1. /\ [UploadNext]_uploadVars /\ [TransferNext]_transferVars
      /\ [BundleNext]_bundleVars /\ [RepositoryNext]_repositoryVars
  BY DEF Next, vars
<1> QED BY <1>1, UploadStays, TransferStays, BundleStays, RepositoryStays DEF ClientInv

LEMMA ClientInvariant == Spec => []ClientInv
<1>1. Init => ClientInv
  BY UploadStarts, TransferStarts, BundleStarts, RepositoryStarts DEF Init, ClientInv
<1>2. ClientInv /\ [Next]_vars => ClientInv'
  BY ClientStays
<1> QED BY <1>1, <1>2, PTL DEF Spec

\* The uploads, transfers, downloads and settings of the web client are safe: signatures follow
\* what they sign, outcomes are true, archives are whole, and the answer to a save that comes
\* after the next save is not shown, but for a refusal that was being read when that save was
\* made (upload.js, chunked-upload.js, review download, repositories.js).
THEOREM ClientTransferIsSafe == Spec => []TransferSafe
<1>1. ClientInv => TransferSafe
  BY UploadIsSafe, TransferIsSafe
     DEF ClientInv, TransferSafe, BundleInv, RepositoryInv
<1> QED BY <1>1, ClientInvariant, PTL

\* Once a chunk has failed for good no worker asks for another one or tries one again
\* (the checks of firstError in worker and uploadOneChunk).
THEOREM ErrorStopsPuts == Spec => NoPutAfterError
<1>1. ClientInv /\ [Next]_vars =>
        [firstError # "none" =>
           \A p \in puts' \ puts : \E q \in puts : q.index = p.index /\ q.attempt = p.attempt]_transferVars
  BY ClientStays DEF NoNewPut
<1> QED BY <1>1, ClientInvariant, PTL DEF Spec, NoPutAfterError
=============================================================================
