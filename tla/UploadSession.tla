--------------------------- MODULE UploadSession ---------------------------
(***************************************************************************)
(* What a multi-part upload session promises its client.  Chunks are       *)
(* stored while the session is open and are not lost while it is; the      *)
(* session is finalised only with all of its chunks stored; what is        *)
(* published is the whole file, once; and a session that has ended without *)
(* being published never is.  ChunkedUpload (the server's session manager) *)
(* implements this specification and ChunkTransfer (the browser) relies on *)
(* it.                                                                     *)
(***************************************************************************)
CONSTANTS
    Sessions,   \* upload ids
    Parts       \* the chunks of each session

VARIABLES
    phase,      \* none, open, closing or over
    stored,     \* chunks stored by a session that is open or closing
    published   \* the file was handed over

sessionVars == <<phase, stored, published>>

SessionInit ==
    /\ phase = [s \in Sessions |-> "none"]
    /\ stored = [s \in Sessions |-> {}]
    /\ published = [s \in Sessions |-> FALSE]

OpenSession(s) ==
    /\ phase[s] = "none"
    /\ phase' = [phase EXCEPT ![s] = "open"]
    /\ UNCHANGED <<stored, published>>

StoreChunk(s, c) ==
    /\ phase[s] = "open"
    /\ c \in Parts[s] \ stored[s]
    /\ stored' = [stored EXCEPT ![s] = @ \union {c}]
    /\ UNCHANGED <<phase, published>>

CloseSession(s) ==
    /\ phase[s] = "open"
    /\ stored[s] = Parts[s]
    /\ phase' = [phase EXCEPT ![s] = "closing"]
    /\ UNCHANGED <<stored, published>>

PublishFile(s) ==
    /\ phase[s] = "closing"
    /\ phase' = [phase EXCEPT ![s] = "over"]
    /\ stored' = [stored EXCEPT ![s] = {}]
    /\ published' = [published EXCEPT ![s] = TRUE]

\* Sessions end without a result: creation fails, the client cancels, the
\* session expires, finalisation is rejected or the process stops.
EndSessions(S) ==
    /\ S # {} /\ \A s \in S : phase[s] # "over"
    /\ phase' = [s \in Sessions |-> IF s \in S THEN "over" ELSE phase[s]]
    /\ stored' = [s \in Sessions |-> IF s \in S THEN {} ELSE stored[s]]
    /\ UNCHANGED published

SessionNext ==
    \/ \E s \in Sessions :
         \/ OpenSession(s) \/ CloseSession(s) \/ PublishFile(s)
         \/ \E c \in Parts[s] : StoreChunk(s, c)
    \/ \E S \in SUBSET Sessions : EndSessions(S)

SessionSpec == SessionInit /\ [][SessionNext]_sessionVars
=============================================================================
