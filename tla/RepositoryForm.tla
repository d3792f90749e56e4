--------------------------- MODULE RepositoryForm ---------------------------
(***************************************************************************)
(* The repository settings of the web client (js/repositories.js): every   *)
(* control changes the settings held by the page and saves the repository  *)
(* at once; saves overlap and are numbered by repository.  Repositories    *)
(* are created, deleted and read again meanwhile.                          *)
(***************************************************************************)
EXTENDS Naturals, FiniteSets

CONSTANTS
    Repositories,   \* names a repository may have
    Settings,       \* what a repository's settings may be
    Absent,
    MaxRepositorySaves, \* bound of the model on saves of a repository in its life
    MaxWaiting          \* bound of the model on saves that wait

ASSUME RepositorySavesAssumption == MaxRepositorySaves \in Nat

Value == Settings \union {Absent}

VARIABLES
    configured,     \* the settings the server holds
    currentConfig,  \* the settings the controls show
    initialRepos,   \* initialReposMap: what is taken for saved
    saveSeq,        \* saveSeqByRepo, 0 for no entry
    saves,          \* calls of saveRepoSettings that wait
    deletions,      \* repositories whose DELETE is under way
    reads,          \* answers under way to initRepositories
    life,           \* how often the page was told that the repository is deleted
    feedback        \* the last message about a save

repositoryVars == <<configured, currentConfig, initialRepos, saveSeq, saves, deletions, reads, life,
                    feedback>>

SaveKinds == {"edit", "capacity", "create"}
Saves == [repository : Repositories, seq : 1..MaxRepositorySaves, value : Settings, kind : SaveKinds,
          before : Value, life : 0..1, late : BOOLEAN,
          at : {"asked", "accepted", "refused", "reading"}]
Messages == [stale : BOOLEAN, late : BOOLEAN, refusal : BOOLEAN]
NoFeedback == [stale |-> FALSE, late |-> FALSE, refusal |-> FALSE]

RepositoryTypeOK ==
    /\ {configured, currentConfig, initialRepos} \subseteq [Repositories -> Value]
    /\ saveSeq \in [Repositories -> 0..MaxRepositorySaves]
    /\ saves \subseteq Saves
    /\ deletions \subseteq Repositories
    /\ reads \subseteq [Repositories -> Value]
    /\ life \in [Repositories -> 0..1]
    /\ feedback \in Messages

RepositoryInit ==
    /\ configured \in [Repositories -> Settings]
    /\ currentConfig = configured /\ initialRepos = configured
    /\ saveSeq = [r \in Repositories |-> 0] /\ life = [r \in Repositories |-> 0]
    /\ saves = {} /\ deletions = {} /\ reads = {}
    /\ feedback = NoFeedback

(***************************************************************************)
(* Saving                                                                  *)
(***************************************************************************)

\* saveRepoSettings up to its request: settings equal to those taken for saved are not
\* sent, except to create the repository.
Save(r, v, kind, before) ==
    /\ saveSeq[r] < MaxRepositorySaves /\ Cardinality(saves) < MaxWaiting
    /\ saveSeq' = [saveSeq EXCEPT ![r] = @ + 1]
    /\ IF initialRepos[r] = v /\ kind # "create"
       THEN feedback' = NoFeedback /\ UNCHANGED saves
       ELSE /\ saves' = saves \union
                   {[repository |-> r, seq |-> saveSeq'[r], value |-> v, kind |-> kind,
                     before |-> before, life |-> life[r], late |-> FALSE, at |-> "asked"]}
            /\ UNCHANGED feedback

\* A control of the section of r, mirrors included.
Edit(r, v) ==
    /\ currentConfig[r] # Absent /\ currentConfig[r] # v
    /\ \A s \in saves : s.repository = r => s.kind # "create"
    /\ currentConfig' = [currentConfig EXCEPT ![r] = v]
    /\ Save(r, v, "edit", Absent)
    /\ UNCHANGED <<configured, initialRepos, deletions, reads, life>>

\* The capacity field, disabled while its save waits.
EditCapacity(r, v) ==
    /\ currentConfig[r] # Absent /\ currentConfig[r] # v
    /\ \A s \in saves : s.repository = r => s.kind = "edit"
    /\ currentConfig' = [currentConfig EXCEPT ![r] = v]
    /\ Save(r, v, "capacity", currentConfig[r])
    /\ UNCHANGED <<configured, initialRepos, deletions, reads, life>>

\* submitRepositoryCreation: the draft is listed at once.
Create(r, v) ==
    /\ currentConfig[r] = Absent
    /\ currentConfig' = [currentConfig EXCEPT ![r] = v]
    /\ Save(r, v, "create", Absent)
    /\ UNCHANGED <<configured, initialRepos, deletions, reads, life>>

\* PutMavenRepository: the server takes or refuses a PUT; several may be
\* taken in any order.
ServeSave(s) ==
    /\ s.at = "asked"
    /\ \/ /\ configured' = [configured EXCEPT ![s.repository] = s.value]
          /\ saves' = (saves \ {s}) \union {[s EXCEPT !.at = "accepted"]}
       \/ /\ saves' = (saves \ {s}) \union {[s EXCEPT !.at = "refused"]}
          /\ UNCHANGED configured
    /\ UNCHANGED <<currentConfig, initialRepos, saveSeq, deletions, reads, life, feedback>>

\* What a failed save takes back: a draft, or a capacity.
Undo(s) ==
    CASE s.kind = "create"   -> [currentConfig EXCEPT ![s.repository] = Absent]
      [] s.kind = "capacity" -> [currentConfig EXCEPT ![s.repository] =
                                     IF @ = Absent THEN Absent ELSE s.before]
      [] OTHER               -> currentConfig

Overtaken(s) == saveSeq[s.repository] # s.seq

\* A later save was made in the same life of the repository.
Outdated(s) == s.life = life[s.repository] /\ saveSeq[s.repository] > s.seq

\* A message about a save: is it outdated when shown, was it when its answer came,
\* and is it the server's refusal?
Report(s, late, refusal) == [stale |-> Outdated(s), late |-> late, refusal |-> refusal]

\* Mutant of SaveAccepted: every answer is reported.
SaveAcceptedAll(s) ==
    /\ s.at = "accepted"
    /\ saves' = saves \ {s}
    /\ feedback' = Report(s, Outdated(s), FALSE)
    /\ initialRepos' = [initialRepos EXCEPT ![s.repository] = s.value]
    /\ UNCHANGED <<configured, currentConfig, saveSeq, deletions, reads, life>>

\* Mutant of SaveAccepted: an overtaken save never returns to its caller.
SaveAcceptedIfLatest(s) ==
    /\ s.at = "accepted" /\ ~Overtaken(s)
    /\ saves' = saves \ {s}
    /\ feedback' = Report(s, Outdated(s), FALSE)
    /\ initialRepos' = [initialRepos EXCEPT ![s.repository] = s.value]
    /\ UNCHANGED <<configured, currentConfig, saveSeq, deletions, reads, life>>

\* A good answer: an overtaken save counts as done and says nothing; otherwise the settings
\* sent are the ones taken for saved.
SaveAccepted(s) ==
    /\ s.at = "accepted"
    /\ saves' = saves \ {s}
    /\ IF Overtaken(s) THEN UNCHANGED <<feedback, initialRepos>>
       ELSE /\ feedback' = Report(s, Outdated(s), FALSE)
            /\ initialRepos' = [initialRepos EXCEPT ![s.repository] = s.value]
    /\ UNCHANGED <<configured, currentConfig, saveSeq, deletions, reads, life>>

\* A refusal: an overtaken save counts as done, else the message in the body is read.
SaveRefused(s) ==
    /\ s.at = "refused"
    /\ saves' = (saves \ {s}) \union
                    (IF Overtaken(s) THEN {}
                     ELSE {[s EXCEPT !.at = "reading", !.late = Outdated(s)]})
    /\ UNCHANGED <<configured, currentConfig, initialRepos, saveSeq, deletions, reads, life, feedback>>

\* Once read it is shown, without another look at the number, and the save taken back.
RefusalRead(s) ==
    /\ s.at = "reading"
    /\ saves' = saves \ {s}
    /\ feedback' = Report(s, s.late, TRUE)
    /\ currentConfig' = Undo(s)
    /\ UNCHANGED <<configured, initialRepos, saveSeq, deletions, reads, life>>

\* The request is lost, before or after the server took it: the failure is taken back,
\* and reported unless the save was overtaken.
SaveLost(s) ==
    /\ s.at # "reading"
    /\ saves' = saves \ {s}
    /\ feedback' = IF Overtaken(s) THEN feedback ELSE Report(s, Outdated(s), FALSE)
    /\ currentConfig' = Undo(s)
    /\ UNCHANGED <<configured, initialRepos, saveSeq, deletions, reads, life>>

SaveReturns(s) == SaveAccepted(s) \/ SaveRefused(s) \/ RefusalRead(s)

(***************************************************************************)
(* Deleting and reading again                                              *)
(***************************************************************************)

DeleteRepository(r) ==
    /\ currentConfig[r] # Absent /\ r \notin deletions /\ life[r] = 0
    /\ deletions' = deletions \union {r}
    /\ UNCHANGED <<configured, currentConfig, initialRepos, saveSeq, saves, reads, life, feedback>>

\* The answer to the DELETE; the numbering of the repository starts anew.  A refusal
\* and a lost answer leave the page as it is, the latter after the server deleted the
\* repository, or before.
Deleted(r) ==
    /\ deletions' = deletions \ {r}
    /\ \/ /\ configured' = [configured EXCEPT ![r] = Absent]
          /\ currentConfig' = [currentConfig EXCEPT ![r] = Absent]
          /\ initialRepos' = [initialRepos EXCEPT ![r] = Absent]
          /\ saveSeq' = [saveSeq EXCEPT ![r] = 0]
          /\ life' = [life EXCEPT ![r] = @ + 1]
       \/ /\ configured' \in {configured, [configured EXCEPT ![r] = Absent]}
          /\ UNCHANGED <<currentConfig, initialRepos, saveSeq, life>>
    /\ UNCHANGED <<saves, reads, feedback>>

\* initRepositories, on entering the page or after a migration.
ReadSettings ==
    /\ reads = {} /\ reads' = {configured}
    /\ UNCHANGED <<configured, currentConfig, initialRepos, saveSeq, saves, deletions, life, feedback>>

SettingsRead(c) ==
    /\ reads' = reads \ {c}
    /\ \/ currentConfig' = c /\ initialRepos' = c
       \/ UNCHANGED <<currentConfig, initialRepos>>
    /\ UNCHANGED <<configured, saveSeq, saves, deletions, life, feedback>>

RepositoryNext ==
    \/ \E r \in Repositories, v \in Settings : Edit(r, v) \/ EditCapacity(r, v) \/ Create(r, v)
    \/ \E s \in saves : ServeSave(s) \/ SaveReturns(s) \/ SaveLost(s)
    \/ \E r \in Repositories : DeleteRepository(r)
    \/ \E r \in deletions : Deleted(r)
    \/ ReadSettings
    \/ \E c \in reads : SettingsRead(c)

\* Requests are answered, or fail.
RepositoryFairness == WF_repositoryVars(\E s \in saves : ServeSave(s) \/ SaveReturns(s))

(***************************************************************************)
(* Properties                                                              *)
(***************************************************************************)

\* The user is not told what became of a save if the same repository was saved again
\* before the answer came, in whatever order answers come, requests are lost and
\* repositories are deleted (saveSeqByRepo); what is out of date when it is shown can
\* only be a refusal whose text was still being read when the later save was made.
\* The comment over saveRepoSettings promises that there is no such message either:
\* the number is not looked at again (repositories.js:1672; README, section 7).
NoStaleFeedback == ~feedback.late /\ (feedback.stale => feedback.refusal)

\* The capacity field and the creation dialog come back: their save returns, overtaken
\* or not.
SavesReturn ==
    \A k \in {"capacity", "create"} :
        []<>(\A s \in saves : s.kind # k)

RepositorySpec == RepositoryInit /\ [][RepositoryNext]_repositoryVars /\ RepositoryFairness
=============================================================================
