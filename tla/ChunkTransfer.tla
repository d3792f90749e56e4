--------------------------- MODULE ChunkTransfer ---------------------------
(***************************************************************************)
(* The browser's side of a multi-part upload (js/chunked-upload.js): one   *)
(* call of uploadFileChunked, its workers and their retries, against a     *)
(* server that keeps the promise of UploadSession.  A request the browser  *)
(* gave up as a network error may still be served.  No caller passes an    *)
(* abort signal; it is left out.                                           *)
(***************************************************************************)
EXTENDS Naturals, FiniteSets

CONSTANTS
    ChunkCount,     \* chunk_count of the session
    TransferWorkers,\* workers of Promise.all, min(concurrency, chunkCount) of them
    ChunkMaxRetries \* CHUNK_MAX_RETRIES

\* A file that has chunks has workers.
ASSUME ChunksAssumption == ChunkCount \in Nat
ASSUME WorkersAssumption == ChunkCount > 0 => TransferWorkers # {}
ASSUME RetriesAssumption == ChunkMaxRetries \in Nat

\* What the browser makes of an answer to a chunk: 2xx; a 4xx that is neither 408
\* nor 429; 5xx, 408, 429 or no answer at all.
PutResults == {"ok", "fatal", "transient"}

VARIABLES
    transfer,   \* where uploadFileChunked is
    sessionKnown, \* the answer to init arrived
    nextIndex,  \* let nextIndex
    firstError, \* let firstError: none, fatal or transient
    worker,     \* the workers: [pc, index, attempt, reply]
    puts,       \* PUT requests the server has to deal with
    finish,     \* the complete request at the server
    cancelled,  \* abortSession: none, sent, served or lost
    phase, stored, published    \* the server's session

transferVars == <<transfer, sessionKnown, nextIndex, firstError, worker, puts, finish,
                  cancelled, phase, stored, published>>

Upload == "upload"   \* the upload_id
Server == INSTANCE UploadSession WITH
            Sessions <- {Upload}, Parts <- [s \in {Upload} |-> 1..ChunkCount]

serverVars == <<phase, stored, published>>
clientVars == <<transfer, sessionKnown, nextIndex, firstError, worker>>

Phase == phase[Upload]
IdleWorker == [pc |-> "next", index |-> 0, attempt |-> 0, reply |-> "none"]

TransferInit ==
    /\ transfer = "init"
    /\ sessionKnown = FALSE
    /\ nextIndex = 1
    /\ firstError = "none"
    /\ worker = [w \in TransferWorkers |-> IdleWorker]
    /\ puts = {}
    /\ finish = "none"
    /\ cancelled = "none"
    /\ Server!SessionInit

-----------------------------------------------------------------------------
(* init                                                                    *)

\* The init request fails, without a session or with one the browser never
\* learns of; uploadFileChunked returns or throws.
InitFails ==
    /\ transfer = "init"
    /\ Server!OpenSession(Upload) \/ UNCHANGED serverVars
    /\ transfer' = "failed"
    /\ UNCHANGED <<sessionKnown, nextIndex, firstError, worker, puts, finish, cancelled>>

\* The session is known; an empty file has no chunks to send.
InitAnswered ==
    /\ transfer = "init"
    /\ Server!OpenSession(Upload)
    /\ transfer' = IF ChunkCount > 0 THEN "chunks" ELSE "complete"
    /\ sessionKnown' = TRUE
    /\ UNCHANGED <<nextIndex, firstError, worker, puts, finish, cancelled>>

-----------------------------------------------------------------------------
(* worker and uploadOneChunk                                               *)

\* The top of the worker's loop.
TakeIndex(w) ==
    /\ transfer = "chunks" /\ worker[w].pc = "next"
    /\ IF firstError # "none" \/ nextIndex > ChunkCount
       THEN worker' = [worker EXCEPT ![w].pc = "stop"] /\ UNCHANGED <<nextIndex, puts>>
       ELSE /\ nextIndex' = nextIndex + 1
            /\ worker' = [worker EXCEPT ![w] = [pc |-> "put", index |-> nextIndex,
                                                attempt |-> 0, reply |-> "none"]]
            /\ puts' = puts \union {[index |-> nextIndex, attempt |-> 0, at |-> "sent"]}
    /\ UNCHANGED <<transfer, sessionKnown, firstError, finish, cancelled, serverVars>>

\* The sleep before a retry ends; another chunk may have failed meanwhile.
DelayOver(w) ==
    /\ transfer = "chunks" /\ worker[w].pc = "delay"
    /\ IF firstError # "none"
       THEN worker' = [worker EXCEPT ![w].pc = "stop"] /\ UNCHANGED puts
       ELSE /\ worker' = [worker EXCEPT ![w].pc = "put", ![w].reply = "none"]
            /\ puts' = puts \union {[index |-> worker[w].index, attempt |-> worker[w].attempt,
                                     at |-> "sent"]}
    /\ UNCHANGED <<transfer, sessionKnown, nextIndex, firstError, finish, cancelled,
                   serverVars>>

\* The worker stops; the first error is kept.
GiveUpChunk(w, error) ==
    /\ worker' = [worker EXCEPT ![w].pc = "stop"]
    /\ firstError' = IF firstError = "none" THEN error ELSE firstError

\* Mutant of PutAnswered: a retry does not count.
PutAnsweredUncounted(w, reply) ==
    \/ /\ reply = "ok"
       /\ worker' = [worker EXCEPT ![w].pc = "next"]
       /\ UNCHANGED firstError
    \/ /\ reply = "fatal"
       /\ GiveUpChunk(w, reply)
    \/ /\ reply = "transient"
       /\ worker' = [worker EXCEPT ![w].pc = "delay"]
       /\ UNCHANGED firstError

\* The rest of the loop of uploadOneChunk, and its head when it goes round again.
PutAnswered(w, reply) ==
    LET last == worker[w].attempt = ChunkMaxRetries IN
    \/ /\ reply = "ok"
       /\ worker' = [worker EXCEPT ![w].pc = "next"]
       /\ UNCHANGED firstError
    \/ /\ reply = "fatal" \/ (reply = "transient" /\ (last \/ firstError # "none"))
       /\ GiveUpChunk(w, reply)
    \/ /\ reply = "transient" /\ ~last /\ firstError = "none"
       /\ worker' = [worker EXCEPT ![w].pc = "delay", ![w].attempt = @ + 1]
       /\ UNCHANGED firstError

\* onload
PutLoads(w) ==
    /\ worker[w].pc = "put" /\ worker[w].reply # "none"
    /\ PutAnswered(w, worker[w].reply)
    /\ UNCHANGED <<transfer, sessionKnown, nextIndex, puts, finish, cancelled, serverVars>>

\* onerror, at any time before onload; the request may have reached the server.
PutErrors(w) ==
    /\ worker[w].pc = "put"
    /\ PutAnswered(w, "transient")
    /\ UNCHANGED <<transfer, sessionKnown, nextIndex, puts, finish, cancelled, serverVars>>

\* Promise.all: the workers have stopped.
WorkersDone ==
    /\ transfer = "chunks"
    /\ \A w \in TransferWorkers : worker[w].pc = "stop"
    /\ transfer' = IF firstError = "none" THEN "complete" ELSE "abort"
    /\ UNCHANGED <<sessionKnown, nextIndex, firstError, worker, puts, finish, cancelled,
                   serverVars>>

-----------------------------------------------------------------------------
(* The server and its PUT requests.                                        *)

\* The answer reaches the worker that waits for this request.
Reply(p, result) ==
    worker' = [w \in TransferWorkers |->
                 IF /\ worker[w].pc = "put" /\ worker[w].index = p.index
                    /\ worker[w].attempt = p.attempt
                 THEN [worker[w] EXCEPT !.reply = result] ELSE worker[w]]

Claimed(i) == \E p \in puts : p.index = i /\ p.at = "writing"

\* handlePutChunk until the chunk is claimed: no such session, a session being
\* finalised and a chunk another request writes are errors of the client; a chunk
\* that is done is acknowledged again.
ServePut(p) ==
    /\ p \in puts /\ p.at = "sent"
    /\ \/ /\ Phase = "open" /\ p.index \notin stored[Upload] /\ ~Claimed(p.index)
          /\ puts' = (puts \ {p}) \union {[p EXCEPT !.at = "writing"]}
          /\ UNCHANGED worker
       \/ /\ Phase # "open" \/ Claimed(p.index)
          /\ puts' = puts \ {p} /\ Reply(p, "fatal")
       \/ /\ Phase = "open" /\ p.index \in stored[Upload]
          /\ puts' = puts \ {p} /\ Reply(p, "ok")
    /\ UNCHANGED <<transfer, sessionKnown, nextIndex, firstError, finish, cancelled,
                   serverVars>>

\* The chunk is written; a session that has ended refuses it.
StorePut(p) ==
    /\ p \in puts /\ p.at = "writing"
    /\ puts' = puts \ {p}
    /\ IF Phase = "open" THEN Server!StoreChunk(Upload, p.index) /\ Reply(p, "ok")
       ELSE UNCHANGED serverVars /\ Reply(p, "fatal")
    /\ UNCHANGED <<transfer, sessionKnown, nextIndex, firstError, finish, cancelled>>

\* The write is cut short (an error of the client), the request is refused for now
\* (408, 429, 5xx), or it never arrives.
FailPut(p) ==
    /\ p \in puts
    /\ puts' = puts \ {p}
    /\ \/ p.at = "writing" /\ Reply(p, "fatal")
       \/ p.at = "sent" /\ Reply(p, "transient")
    /\ UNCHANGED <<transfer, sessionKnown, nextIndex, firstError, finish, cancelled,
                   serverVars>>

-----------------------------------------------------------------------------
(* complete                                                                *)

SendComplete ==
    /\ transfer = "complete"
    /\ transfer' = "completing"
    /\ finish' = "sent"
    /\ UNCHANGED <<sessionKnown, nextIndex, firstError, worker, puts, cancelled, serverVars>>

\* handleComplete: the session is taken over, or refused as unknown or incomplete.
ServeComplete ==
    /\ finish = "sent"
    /\ IF Phase = "open" /\ stored[Upload] = 1..ChunkCount
       THEN Server!CloseSession(Upload) /\ finish' = "owned"
       ELSE UNCHANGED serverVars /\ finish' = "refused"
    /\ UNCHANGED <<clientVars, puts, cancelled>>

\* The file is processed, or rejected and the session aborted.  The server may fail
\* after it has stored the file; it answers as if it had not.
Finalize ==
    /\ finish = "owned" /\ Phase = "closing"
    /\ \/ Server!PublishFile(Upload) /\ finish' \in {"published", "stored"}
       \/ Server!EndSessions({Upload}) /\ finish' = "refused"
    /\ UNCHANGED <<clientVars, puts, cancelled>>

CompleteAnswered ==
    /\ transfer = "completing" /\ finish \in {"published", "stored", "refused"}
    /\ transfer' = IF finish = "published" THEN "ok" ELSE "abort"
    /\ UNCHANGED <<sessionKnown, nextIndex, firstError, worker, puts, finish, cancelled,
                   serverVars>>

\* Mutant of CompleteErrors: a network error counts as a refusal.
CompleteErrorsRefused ==
    /\ transfer = "completing"
    /\ transfer' = "abort"
    /\ UNCHANGED <<sessionKnown, nextIndex, firstError, worker, puts, finish, cancelled,
                   serverVars>>

\* fetch throws: the request or its answer is lost, or the server stopped.
CompleteErrors ==
    /\ transfer = "completing"
    /\ transfer' = "abort_throw"
    /\ UNCHANGED <<sessionKnown, nextIndex, firstError, worker, puts, finish, cancelled,
                   serverVars>>

-----------------------------------------------------------------------------
(* abortSession                                                            *)

SendAbort ==
    /\ transfer \in {"abort", "abort_throw"} /\ cancelled = "none"
    /\ cancelled' = "sent"
    /\ UNCHANGED <<clientVars, puts, finish, serverVars>>

\* handleAbort: a session that is open ends, any other one is left alone.
ServeAbort ==
    /\ cancelled = "sent"
    /\ cancelled' = "served"
    /\ IF Phase = "open" THEN Server!EndSessions({Upload}) ELSE UNCHANGED serverVars
    /\ UNCHANGED <<clientVars, puts, finish>>

LoseAbort ==
    /\ cancelled = "sent"
    /\ cancelled' = "lost"
    /\ UNCHANGED <<clientVars, puts, finish, serverVars>>

\* The answer of DELETE, or its error, which is ignored.
TransferReturns ==
    /\ transfer \in {"abort", "abort_throw"} /\ cancelled \in {"served", "lost"}
    /\ transfer' = IF transfer = "abort" THEN "failed" ELSE "thrown"
    /\ UNCHANGED <<sessionKnown, nextIndex, firstError, worker, puts, finish, cancelled,
                   serverVars>>

\* The session expires or the server stops.
ServerEnds ==
    /\ Phase \in {"open", "closing"}
    /\ Server!EndSessions({Upload})
    /\ finish' = IF finish = "owned" THEN "dropped" ELSE finish
    /\ UNCHANGED <<clientVars, puts, cancelled>>

-----------------------------------------------------------------------------
WorkerNext(w) == TakeIndex(w) \/ DelayOver(w) \/ PutLoads(w) \/ PutErrors(w)
PutNext(p) == ServePut(p) \/ StorePut(p) \/ FailPut(p)
CallNext ==
    WorkersDone \/ SendComplete \/ CompleteAnswered \/ CompleteErrors \/ SendAbort
    \/ TransferReturns
ServerNext == ServeComplete \/ Finalize \/ ServeAbort \/ LoseAbort \/ ServerEnds

TransferNext ==
    \/ InitFails \/ InitAnswered \/ CallNext \/ ServerNext
    \/ \E w \in TransferWorkers : WorkerNext(w)
    \/ \E p \in puts : PutNext(p)

\* The browser runs its promises, every request is answered or errors, and its
\* timers fire.
TransferFairness ==
    /\ WF_transferVars(CallNext)
    /\ WF_transferVars(ServeAbort \/ LoseAbort)
    /\ \A w \in TransferWorkers : WF_transferVars(WorkerNext(w))

-----------------------------------------------------------------------------
(* Properties.                                                             *)

TransferTypeOK ==
    /\ transfer \in {"init", "chunks", "complete", "completing", "abort", "abort_throw",
                     "ok", "failed", "thrown"}
    /\ sessionKnown \in BOOLEAN
    /\ nextIndex \in 1..(ChunkCount + 1)
    /\ firstError \in {"none", "fatal", "transient"}
    /\ worker \in [TransferWorkers ->
                     [pc : {"next", "put", "delay", "stop"}, index : 0..ChunkCount,
                      attempt : 0..ChunkMaxRetries, reply : PutResults \union {"none"}]]
    /\ puts \subseteq [index : 1..ChunkCount, attempt : 0..ChunkMaxRetries,
                       at : {"sent", "writing"}]
    /\ finish \in {"none", "sent", "owned", "published", "stored", "refused", "dropped"}
    /\ cancelled \in {"none", "sent", "served", "lost"}
    /\ Phase \in {"none", "open", "closing", "over"}
    /\ stored[Upload] \subseteq 1..ChunkCount
    /\ published[Upload] \in BOOLEAN

\* The result is the truth: an upload reported as done is published, one reported as
\* failed will not be any more, however requests the browser gave up are served
\* later, and is not unless the server itself answered with a failure after it had
\* stored the file (uploadFileChunked; only a thrown error leaves it open).
OutcomeTrue ==
    /\ transfer = "ok" => published[Upload]
    /\ transfer = "failed" => /\ Phase # "closing" /\ finish \notin {"sent", "owned"}
                              /\ published[Upload] => finish = "stored"

\* The browser completes a session only when each of its chunks was stored: the
\* server refuses only for reasons of its own (uploadOneChunk, worker).
CompleteOnlyWhole ==
    transfer \in {"complete", "completing"} =>
        Phase \in {"over", "closing"} \/ stored[Upload] = 1..ChunkCount

\* A call that is over leaves no session open on the server, unless the DELETE was
\* lost or the answer to init was (abortSession on every failing path).
FailureCleansUp ==
    /\ transfer \in {"ok", "failed", "thrown"} /\ sessionKnown /\ cancelled # "lost"
    => Phase # "open"

\* Once a chunk has failed for good no further request is sent for the others
\* (the checks of firstError before and after the sleep).
NoPutAfterError ==
    [][firstError # "none" =>
         \A p \in puts' \ puts : \E q \in puts : q.index = p.index /\ q.attempt = p.attempt]_transferVars

\* A call that has its session ends, whatever the network and the server do (bounded
\* retries).
TransferEnds == []<>(transfer \in {"init", "ok", "failed", "thrown"})
=============================================================================
