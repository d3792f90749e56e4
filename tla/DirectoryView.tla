--------------------------- MODULE DirectoryView ---------------------------
(***************************************************************************)
(* The repository browser of the web client (js/browser.js and the         *)
(* statistics card of js/browser/stats.js): which directory is asked for,  *)
(* which answers still count, what the list and the card then show, and    *)
(* deletions from the list.  Each wait for an answer ends a step.          *)
(***************************************************************************)
EXTENDS Naturals, FiniteSets

CONSTANTS
    Home,           \* the directory "/", which belongs to no repository
    RepositoryOf,   \* the repository of every other directory
    HasView,        \* the directories that the format of their repository shows itself
    NoRepository,
    FileNames,
    MaxLoads,       \* bound of the model on currentLoadSeq
    MaxDeletions    \* bound of the model on deletions

\* The bound is a count.
ASSUME LoadsAssumption == MaxLoads \in Nat

Places == {Home} \union DOMAIN RepositoryOf
Repository(d) == IF d = Home THEN NoRepository ELSE RepositoryOf[d]

\* A row of the list: its name, and the directory its link and its buttons act on.
Rows == [name : FileNames, of : Places]

VARIABLES
    onServer,           \* the files of every directory, at the server
    lastDirectoryPath,
    currentLoadSeq,
    currentRepository,  \* currentRepositoryName, "" without currentRepoDetails
    loads,              \* calls of loadDirectory that wait
    rows,               \* the children of #file-list
    content,            \* what the main column shows
    contentOf,          \* ... and of which directory
    statsLoadSeq,
    card,               \* the repository on the statistics card
    deletes             \* rows whose DELETE is under way

directoryVars == <<onServer, lastDirectoryPath, currentLoadSeq, currentRepository, loads, rows,
                   content, contentOf, statsLoadSeq, card, deletes>>
listVars == <<rows, content, contentOf>>

DirectoryTypeOK ==
    /\ onServer \in [Places -> SUBSET FileNames]
    /\ lastDirectoryPath \in Places /\ contentOf \in Places
    /\ currentLoadSeq \in 0..MaxLoads
    /\ {currentRepository, card} \subseteq {Repository(d) : d \in Places}
    /\ loads \subseteq [seq : 1..MaxLoads, to : Places, same : BOOLEAN, reuse : BOOLEAN,
                        details : BOOLEAN, found : BOOLEAN, over : BOOLEAN, stats : Nat]
    /\ rows \subseteq Rows
    /\ content \in {"loading", "list", "empty", "error", "view"}
    /\ statsLoadSeq \in Nat
    /\ deletes \subseteq Rows

DirectoryInit ==
    /\ onServer = [d \in Places |-> FileNames]
    /\ lastDirectoryPath = Home /\ contentOf = Home
    /\ currentLoadSeq = 0 /\ statsLoadSeq = 0
    /\ currentRepository = NoRepository /\ card = NoRepository
    /\ loads = {} /\ deletes = {}
    /\ rows = {} /\ content = "loading"

(***************************************************************************)
(* Asking for a directory                                                  *)
(***************************************************************************)

\* canReuseFormatDetails: the repository on show has a view and is asked for again.
CanReuse(d) ==
    /\ Repository(d) # NoRepository
    /\ Repository(d) = currentRepository
    /\ d \in HasView

\* loadDirectory up to its first await, from a link, the history, an upload or a switch
\* of tabs.  The repository's details are asked for unless they can be reused; "/" has
\* none and hides the card, which also drops the answers the card waits for.
LoadDirectory(d) ==
    /\ currentLoadSeq < MaxLoads
    /\ currentLoadSeq' = currentLoadSeq + 1
    /\ lastDirectoryPath' = d
    /\ content' = IF d = lastDirectoryPath \/ CanReuse(d) THEN content ELSE "loading"
    /\ currentRepository' = IF d = Home THEN NoRepository ELSE currentRepository
    /\ statsLoadSeq' = IF CanReuse(d) THEN statsLoadSeq ELSE statsLoadSeq + 1
    /\ card' = IF d = Home THEN NoRepository ELSE card
    /\ loads' = loads \union
           {[seq |-> currentLoadSeq', to |-> d, same |-> d = lastDirectoryPath,
             reuse |-> CanReuse(d), details |-> CanReuse(d) \/ d = Home,
             found |-> CanReuse(d), over |-> FALSE, stats |-> statsLoadSeq']}
    /\ UNCHANGED <<onServer, rows, contentOf, deletes>>

\* The details of l's repository arrive, or null when it cannot be read; the card takes
\* them unless a later call has numbered it anew.
DetailsArrive(l) ==
    /\ ~l.details
    /\ \E found \in BOOLEAN :
         /\ loads' = (loads \ {l}) \union {[l EXCEPT !.details = TRUE, !.found = found]}
         /\ IF l.stats = statsLoadSeq
            THEN /\ card' = IF found THEN Repository(l.to) ELSE NoRepository
                 /\ statsLoadSeq' = IF found THEN statsLoadSeq ELSE statsLoadSeq + 1
            ELSE UNCHANGED <<card, statsLoadSeq>>
    /\ UNCHANGED <<onServer, lastDirectoryPath, currentLoadSeq, currentRepository, deletes>>
    /\ UNCHANGED listVars

(***************************************************************************)
(* What an answer shows                                                    *)
(***************************************************************************)

\* renderFileListReconciled keeps the row of a name that stays, and adds the others.
Reconciled(d) ==
    {r \in rows : r.name \in onServer[d]}
    \union {[name |-> n, of |-> d] : n \in onServer[d] \ {r.name : r \in rows}}

\* The rows built from nothing.
Rebuilt(d) == {[name |-> n, of |-> d] : n \in onServer[d]}

\* The part of loadDirectory after its directory was read; a list that was shown for the
\* same directory is reconciled, any other is rebuilt.
ShowDirectory(l) ==
    /\ rows' = IF onServer[l.to] # {} /\ l.same /\ rows # {} THEN Reconciled(l.to)
               ELSE Rebuilt(l.to)
    /\ content' = IF onServer[l.to] = {} THEN "empty" ELSE "list"
    /\ contentOf' = l.to

\* Mutant of Loaded: the answer that comes last is shown, whatever was asked since.
LoadedAnyway(l) ==
    /\ l.details
    /\ loads' = loads \ {l}
    /\ currentRepository' = IF l.found THEN Repository(l.to) ELSE NoRepository
    /\ IF l.found /\ l.to \in HasView
       THEN content' = "view" /\ contentOf' = l.to /\ UNCHANGED rows
       ELSE ShowDirectory(l)
    /\ UNCHANGED <<onServer, lastDirectoryPath, currentLoadSeq, statsLoadSeq, card, deletes>>

\* Everything l asked for has arrived.  Only the latest call goes on: a format with a
\* view renders itself and leaves the rows of the hidden list alone, otherwise the list
\* is shown.
Loaded(l) ==
    /\ l.details
    /\ loads' = loads \ {l}
    /\ IF l.over \/ l.seq # currentLoadSeq
       THEN UNCHANGED <<currentRepository, rows, content, contentOf>>
       ELSE /\ currentRepository' = IF l.found THEN Repository(l.to) ELSE NoRepository
            /\ IF l.found /\ l.to \in HasView
               THEN content' = "view" /\ contentOf' = l.to /\ UNCHANGED rows
               ELSE ShowDirectory(l)
    /\ UNCHANGED <<onServer, lastDirectoryPath, currentLoadSeq, statsLoadSeq, card, deletes>>

\* Mutant of LoadFailed: the message is set and the transition of the list not finished.
LoadFailedUnfinished(l) ==
    /\ ~l.reuse /\ ~l.over
    /\ IF l.seq = currentLoadSeq
       THEN rows' = {} /\ contentOf' = l.to /\ UNCHANGED content
       ELSE UNCHANGED listVars
    /\ loads' = loads \ {l}
    /\ UNCHANGED <<onServer, lastDirectoryPath, currentLoadSeq, currentRepository, statsLoadSeq,
                   card, deletes>>

\* The catch of loadDirectory.  The details failed, which hides the card too; or the
\* request for the directory failed, and the details may still arrive for the card; or
\* the directory was refused, which is noticed after the details were taken.
LoadFailed(l) ==
    /\ ~l.reuse /\ ~l.over
    /\ IF l.seq = currentLoadSeq
       THEN rows' = {} /\ content' = "error" /\ contentOf' = l.to
       ELSE UNCHANGED listVars
    /\ \/ /\ ~l.details
          /\ loads' = loads \ {l}
          /\ IF l.stats = statsLoadSeq
             THEN card' = NoRepository /\ statsLoadSeq' = statsLoadSeq + 1
             ELSE UNCHANGED <<card, statsLoadSeq>>
          /\ UNCHANGED currentRepository
       \/ /\ loads' = IF l.details THEN loads \ {l}
                      ELSE (loads \ {l}) \union {[l EXCEPT !.over = TRUE]}
          /\ UNCHANGED <<card, statsLoadSeq, currentRepository>>
       \/ /\ l.details /\ ~(l.found /\ l.to \in HasView) /\ l.seq = currentLoadSeq
          /\ loads' = loads \ {l}
          /\ currentRepository' = IF l.found THEN Repository(l.to) ELSE NoRepository
          /\ UNCHANGED <<card, statsLoadSeq>>
    /\ UNCHANGED <<onServer, lastDirectoryPath, currentLoadSeq, deletes>>

\* handleRepositorySettingsChanged: the details may not be reused.
SettingsChanged ==
    /\ currentRepository # NoRepository
    /\ currentRepository' = NoRepository
    /\ UNCHANGED <<onServer, lastDirectoryPath, currentLoadSeq, loads, statsLoadSeq, card, deletes>>
    /\ UNCHANGED listVars

(***************************************************************************)
(* Deleting a file                                                         *)
(***************************************************************************)

\* The button of a row, confirmed: the DELETE goes to the row's own path.
DeleteFile(r) ==
    /\ content = "list" /\ r \notin deletes
    /\ deletes' = deletes \union {r}
    /\ Cardinality(deletes') <= MaxDeletions
    /\ UNCHANGED <<onServer, lastDirectoryPath, currentLoadSeq, currentRepository, loads,
                   statsLoadSeq, card>>
    /\ UNCHANGED listVars

\* The answer; a row that is still in the list goes, and the last one leaves the empty
\* state behind (removeFileItemAnimated, showEmptyIfNoFiles).
FileDeleted(r) ==
    /\ r \in deletes
    /\ deletes' = deletes \ {r}
    /\ \/ /\ onServer' = [onServer EXCEPT ![r.of] = @ \ {r.name}]
          /\ rows' = rows \ {r}
          /\ content' = IF rows' = {} /\ content # "view" THEN "empty" ELSE content
       \/ UNCHANGED <<onServer, rows, content>>
    /\ UNCHANGED <<contentOf, lastDirectoryPath, currentLoadSeq, currentRepository, loads,
                   statsLoadSeq, card>>

DirectoryNext ==
    \/ \E d \in Places : LoadDirectory(d)
    \/ \E l \in loads : DetailsArrive(l) \/ Loaded(l) \/ LoadFailed(l)
    \/ SettingsChanged
    \/ \E r \in rows : DeleteFile(r)
    \/ \E r \in deletes : FileDeleted(r)

\* Requests are answered, or fail.
DirectoryFairness == WF_directoryVars(\E l \in loads : Loaded(l) \/ LoadFailed(l))

(***************************************************************************)
(* Properties                                                              *)
(***************************************************************************)

\* Once the last call has settled, what is on show is the directory it asked for, in
\* whatever order the answers came (currentLoadSeq).
ViewIsLatest ==
    (\A l \in loads : l.over \/ l.seq # currentLoadSeq) /\ currentLoadSeq > 0
        => contentOf = lastDirectoryPath

\* No statistics of a repository are shown at "/": an answer under way when the page was
\* left does not bring the card back (hideRepoStats counts statsLoadSeq up).
NoCardAtHome == lastDirectoryPath = Home => card = NoRepository

\* The loading state of the list gives way to a list, a view or a message.
LoadingEnds == []<>(currentLoadSeq = 0 \/ content # "loading")

\* What createFileItemElement says of the path it is given: the rows of a list on show
\* act on the directory on show.
\* The code does not keep this: see the README, section 7.
RowsOfDirectory == content = "list" => \A r \in rows : r.of = contentOf

DirectorySpec == DirectoryInit /\ [][DirectoryNext]_directoryVars /\ DirectoryFairness
=============================================================================
