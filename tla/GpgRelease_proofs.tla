-------------------------- MODULE GpgRelease_proofs --------------------------
(***************************************************************************)
(* Proofs about GpgRelease for every set of artifacts, uploads and every   *)
(* bound.  First its type invariant, that an artifact has at most one      *)
(* active release, that the quarantined files of a release that may still  *)
(* be published are kept, and that a release that has ended stays so; then *)
(* what follows from that: what is hidden has a release that will reveal   *)
(* it, the queue limits hold, what is stored was verified, and what ends   *)
(* leaves nothing.                                                         *)
(***************************************************************************)
EXTENDS GpgRelease, FiniteSetTheorems, TLAPS

-----------------------------------------------------------------------------
(* What the operators on rows, uploads and the worker's state return.      *)

\* The updates the code makes to a release row yield a row.
LEMMA RowTypes ==
    ASSUME NEW r \in Rows
    PROVE  /\ Failed(r) \in Rows
           /\ Succeeded(r) \in Rows
           /\ \A s \in Statuses : [r EXCEPT !.status = s] \in Rows
           /\ \A g \in Ages : [r EXCEPT !.age = g] \in Rows
           /\ [r EXCEPT !.started = TRUE] \in Rows
           /\ [r EXCEPT !.active = FALSE, !.cleanup = FALSE] \in Rows
<1>1. Failed(r) \in Rows
  BY DEF Rows, Failed, Statuses
<1>2. Succeeded(r) \in Rows
  BY DEF Rows, Succeeded, Statuses
<1>3. \A s \in Statuses : [r EXCEPT !.status = s] \in Rows
  BY DEF Rows
<1>4. \A g \in Ages : [r EXCEPT !.age = g] \in Rows
  BY DEF Rows
<1>5. [r EXCEPT !.started = TRUE] \in Rows
  BY DEF Rows
<1>6. [r EXCEPT !.active = FALSE, !.cleanup = FALSE] \in Rows
  BY DEF Rows
<1> QED BY <1>1, <1>2, <1>3, <1>4, <1>5, <1>6

\* newGPGRelease builds a row.
LEMMA NewRowType ==
    ASSUME NEW a \in Artifacts, NEW u \in Users \union {None} PROVE NewRow(a, u) \in Rows
BY DEF NewRow, NoRow, Rows, Statuses, Stored, Ages

\* The absent row has the type of a row.
LEMMA NoRowType == NoRow \in Rows
BY DEF NoRow, Rows, Statuses, Stored, Ages

\* enqueueGPGRelease and enqueueGPGCompanion store a row.
LEMMA StagedRowType ==
    ASSUME NEW r \in Rows, NEW p \in Puts, NEW x \in BOOLEAN PROVE StagedRow(r, p, x) \in Rows
<1>0. /\ p.kind \in Kinds /\ p.content \in Stored /\ p.existed \in BOOLEAN /\ p.expected \in BOOLEAN
      /\ r.existed \in BOOLEAN /\ r.require \in BOOLEAN
  BY DEF Puts, Rows
<1> DEFINE x1 == IF r.art = None THEN x ELSE r.existed
           x2 == r.require \/ RequireGPG \/ p.expected
<1>1. x1 \in BOOLEAN /\ x2 \in BOOLEAN
  BY <1>0
<1> HIDE DEF x1, x2
<1>2. [r EXCEPT !.require = TRUE, !.sig = p.content, !.existed = x1] \in Rows
  BY <1>0, <1>1 DEF Rows
<1>3. [r EXCEPT !.require = x2, !.art = p.content, !.existed = p.existed] \in Rows
  BY <1>0, <1>1 DEF Rows
<1>4. [r EXCEPT !.require = TRUE] \in Rows
  BY DEF Rows
<1> QED BY <1>2, <1>3, <1>4 DEF StagedRow, x1, x2

\* Saving one row keeps the table a table of rows.
LEMMA RowsExcept ==
    ASSUME NEW f \in [Ids -> Rows], NEW i \in Ids, NEW r \in Rows
    PROVE  [f EXCEPT ![i] = r] \in [Ids -> Rows]
OBVIOUS

\* Every state the worker moves to has the worker's type.
LEMMA WorkerTypes ==
    ASSUME NEW x \in WorkerStates, NEW pc \in WorkerPcs
    PROVE  /\ [x EXCEPT !.pc = pc] \in WorkerStates
           /\ [x EXCEPT !.pc = pc, !.ret = "claim"] \in WorkerStates
           /\ \A c \in Stored : [x EXCEPT !.pc = pc, !.rec = c] \in WorkerStates
           /\ \A i \in Ids : [x EXCEPT !.pc = pc, !.id = i, !.rec = None] \in WorkerStates
           /\ \A i \in Ids, S \in SUBSET Ids : [x EXCEPT !.pc = pc, !.clean = S, !.id = i, !.ret = "sweep"] \in WorkerStates
           /\ \A i \in Ids, S \in SUBSET Ids : [x EXCEPT !.pc = pc, !.expire = S, !.id = i, !.ret = "sweep"] \in WorkerStates
           /\ \A S, T \in SUBSET Ids : [x EXCEPT !.pc = pc, !.clean = S, !.expire = T] \in WorkerStates
           /\ \A S \in SUBSET Ids : [x EXCEPT !.expire = S] \in WorkerStates
<1> USE DEF WorkerStates, Stored
<1>1. [x EXCEPT !.pc = pc] \in WorkerStates
  OBVIOUS
<1>2. [x EXCEPT !.pc = pc, !.ret = "claim"] \in WorkerStates
  OBVIOUS
<1>3. \A c \in Stored : [x EXCEPT !.pc = pc, !.rec = c] \in WorkerStates
  OBVIOUS
<1>4. \A i \in Ids : [x EXCEPT !.pc = pc, !.id = i, !.rec = None] \in WorkerStates
  OBVIOUS
<1>5. \A i \in Ids, S \in SUBSET Ids : [x EXCEPT !.pc = pc, !.clean = S, !.id = i, !.ret = "sweep"] \in WorkerStates
  OBVIOUS
<1>6. \A i \in Ids, S \in SUBSET Ids : [x EXCEPT !.pc = pc, !.expire = S, !.id = i, !.ret = "sweep"] \in WorkerStates
  OBVIOUS
<1>7. \A S, T \in SUBSET Ids : [x EXCEPT !.pc = pc, !.clean = S, !.expire = T] \in WorkerStates
  OBVIOUS
<1>8. \A S \in SUBSET Ids : [x EXCEPT !.expire = S] \in WorkerStates
  OBVIOUS
<1> HIDE DEF WorkerStates, Stored
<1> QED BY <1>1, <1>2, <1>3, <1>4, <1>5, <1>6, <1>7, <1>8, Zenon

\* Idle handlers and a sleeping worker have their types.
LEMMA IdleTypes == NoPut \in Puts /\ NoOp \in Ops /\ Asleep \in WorkerStates
BY DEF NoPut, Puts, NoOp, Ops, Asleep, WorkerStates, Kinds, Stored, OpPcs, WorkerPcs

-----------------------------------------------------------------------------
(* Type correctness.                                                       *)

\* States of the worker in which it works on a release.
BusyPcs == {"verify", "lock", "reveal", "fail"} \union PublishPcs \union CleanPcs

\* A request that saves a release and a worker that handles one have its number.
HasIds == /\ op.pc = "save" => op.id \in Ids
          /\ w.pc \in BusyPcs => w.id \in Ids

TypeInv == TypeOK /\ HasIds

\* An upload handler keeps the types.
LEMMA UploadType ==
    ASSUME TypeInv, NEW a \in Artifacts, UploadNext(a) PROVE TypeInv'
<1> USE DEF TypeInv, dbVars, fileVars
<1>1. ASSUME NEW k \in Kinds, NEW u \in Users, NEW c \in Contents, NEW e \in BOOLEAN,
             BeginPut(a, k, u, c, e)
      PROVE  TypeInv'
  <2>1. PICK x \in BOOLEAN : put' = [put EXCEPT ![a] =
             [pc |-> "body", kind |-> k, user |-> u,
              content |-> IF k = "companion" THEN None ELSE c, existed |-> x, expected |-> e]]
    <3> DEFINE x == CASE k = "artifact"  -> art[a] # None
                      [] k = "signature" -> sig[a] # None
                      [] OTHER           -> FALSE
    <3>1. x \in BOOLEAN
      OBVIOUS
    <3> HIDE DEF x
    <3> QED BY <1>1, <3>1 DEF BeginPut, x
  <2>2. [pc |-> "body", kind |-> k, user |-> u,
         content |-> IF k = "companion" THEN None ELSE c, existed |-> x, expected |-> e] \in Puts
    BY DEF Puts, Stored
  <2>3. put' \in [Artifacts -> Puts]
    BY <2>1, <2>2 DEF TypeOK
  <2>4. requests' \in Nat
    BY <1>1 DEF BeginPut, NewRequest, TypeOK
  <2> QED BY <1>1, <2>3, <2>4 DEF BeginPut, TypeOK, HasIds
<1>2. ASSUME AbandonPut(a) PROVE TypeInv'
  BY <1>2, IdleTypes DEF AbandonPut, TypeOK, HasIds
<1>3. ASSUME NEW i \in Ids, Stage(a, i) PROVE TypeInv'
  <2>1. op' \in Ops
    BY <1>3 DEF Stage, Ops, OpPcs
  <2> QED BY <1>3, <2>1 DEF Stage, TypeOK, HasIds
<1>4. ASSUME NEW i \in Ids, StageCompanion(a, i) PROVE TypeInv'
  BY <1>4, IdleTypes DEF StageCompanion, TypeOK, HasIds
<1>5. ASSUME DirectUnsign(a) PROVE TypeInv'
  <2>1. /\ sig' \in [Artifacts -> Stored] /\ record' \in [Artifacts -> Stored]
        /\ lock' \in {"free", "request", "worker"}
    BY <1>5 DEF DirectUnsign, Unsigned, PartlyUnsigned, TypeOK, Stored
  <2>2. (op' \in Ops /\ op'.pc # "save") \/ op' = op
    BY <1>5 DEF DirectUnsign, Ops, OpPcs
  <2>3. put' \in [Artifacts -> Puts] /\ faults' \in Nat
    BY <1>5, IdleTypes DEF DirectUnsign, NoFault, Fault, TypeOK
  <2> QED BY <1>5, <2>1, <2>2, <2>3 DEF DirectUnsign, TypeOK, HasIds
<1> QED BY <1>1, <1>2, <1>3, <1>4, <1>5 DEF UploadNext

\* A deletion handler keeps the types.
LEMMA DeleteType == ASSUME TypeInv, DeleteNext PROVE TypeInv'
<1> USE DEF TypeInv, dbVars, fileVars
<1>1. ASSUME NEW F \in SUBSET Ids, FailRows(F) PROVE rows' \in [Ids -> Rows]
  <2>0. \A i \in Ids : rows[i] \in Rows
    BY DEF TypeOK
  <2>1. \A i \in Ids : rows[i] \in Rows /\ Failed(rows[i]) \in Rows
    BY <2>0, RowTypes, Zenon
  <2> QED BY <1>1, <2>1 DEF FailRows
<1>2. ASSUME NEW D \in SUBSET Artifacts, NEW o \in Ops, o.pc # "save", Discard(D, o)
      PROVE  /\ rows' \in [Ids -> Rows] /\ faults' \in Nat /\ lock' \in {"free", "request", "worker"}
             /\ op' \in Ops /\ (op'.pc = "save" => op'.id \in Ids)
  <2>1. \E F \in SUBSET Ids : FailRows(F)
    BY <1>2, Zenon DEF Discard
  <2>2. rows' \in [Ids -> Rows]
    BY <1>1, <2>1
  <2> QED BY <1>2, <2>2 DEF Discard, NoFault, Fault, TypeOK, HasIds
<1>3. ASSUME NEW a \in Artifacts, BeginDelete(a) PROVE TypeInv'
  <2>1. [pc |-> "file", id |-> 0, paths |-> {a}] \in Ops
    BY DEF Ops, OpPcs
  <2>2. Discard({a}, [pc |-> "file", id |-> 0, paths |-> {a}]) /\ {a} \in SUBSET Artifacts
    BY <1>3 DEF BeginDelete
  <2>3. /\ rows' \in [Ids -> Rows] /\ faults' \in Nat /\ lock' \in {"free", "request", "worker"}
        /\ op' \in Ops /\ (op'.pc = "save" => op'.id \in Ids)
    BY <1>2, <2>1, <2>2
  <2> QED BY <1>3, <2>3 DEF BeginDelete, NewRequest, TypeOK, HasIds
<1>4. ASSUME NEW D \in SUBSET Artifacts, BeginDeleteTree(D) PROVE TypeInv'
  <2>1. [pc |-> "tree", id |-> 0, paths |-> D] \in Ops
    BY DEF Ops, OpPcs
  <2>2. Discard(D, [pc |-> "tree", id |-> 0, paths |-> D])
    BY <1>4 DEF BeginDeleteTree
  <2>3. /\ rows' \in [Ids -> Rows] /\ faults' \in Nat /\ lock' \in {"free", "request", "worker"}
        /\ op' \in Ops /\ (op'.pc = "save" => op'.id \in Ids)
    BY <1>2, <2>1, <2>2
  <2> QED BY <1>4, <2>3 DEF BeginDeleteTree, NewRequest, TypeOK, HasIds
<1>5. ASSUME NEW a \in Artifacts, DeleteSignature(a) PROVE TypeInv'
  <2>1. /\ sig' \in [Artifacts -> Stored] /\ record' \in [Artifacts -> Stored]
        /\ faults' \in Nat /\ requests' \in Nat
    BY <1>5 DEF DeleteSignature, Unsigned, NewRequest, NoFault, Fault, TypeOK, Stored
  <2> QED BY <1>5, <2>1 DEF DeleteSignature, TypeOK, HasIds
<1> QED BY <1>3, <1>4, <1>5 DEF DeleteNext

\* The process state after a crash has its types.
LEMMA ClearedType ==
    ASSUME NEW f \in [Artifacts -> Stored], NEW D PROVE Cleared(f, D) \in [Artifacts -> Stored]
BY DEF Cleared, Stored

\* The steps under gpgReleaseStorageMutation keep the types.
LEMMA RequestType == ASSUME TypeInv, RequestNext PROVE TypeInv'
<1> USE DEF TypeInv, dbVars, fileVars
<1>0. NoOp \in Ops /\ NoOp.pc # "save"
  BY IdleTypes DEF NoOp
<1>1. ASSUME NEW a \in Artifacts, SaveStaged(a) PROVE TypeInv'
  <2> DEFINE r == IF rows[op.id].status = "none" THEN NewRow(a, put[a].user) ELSE rows[op.id]
  <2>1. op.id \in Ids
    BY <1>1 DEF SaveStaged, HasIds
  <2>2. put[a] \in Puts /\ put[a].user \in Users \union {None} /\ rows[op.id] \in Rows
    BY <2>1 DEF TypeOK, Puts
  <2>3. r \in Rows
    BY <2>2, NewRowType
  <2>4. StagedRow(r, put[a], art[a] # None) \in Rows
    BY <2>2, <2>3, StagedRowType
  <2> HIDE DEF r
  <2>5. rows' = [rows EXCEPT ![op.id] = StagedRow(r, put[a], art[a] # None)] \/ rows' = rows
    BY <1>1 DEF SaveStaged, r
  <2>6. rows' \in [Ids -> Rows]
    BY <2>1, <2>4, <2>5 DEF TypeOK
  <2>7. blocked' \in SUBSET Artifacts /\ faults' \in Nat
    BY <1>1 DEF SaveStaged, NoFault, Fault, TypeOK
  <2> QED BY <1>0, <1>1, <2>6, <2>7, IdleTypes DEF SaveStaged, TypeOK, HasIds
<1>2. ASSUME NEW a \in Artifacts, DirectCommit(a) PROVE TypeInv'
  <2>1. put[a].content \in Stored
    BY DEF TypeOK, Puts
  <2>2. art' \in [Artifacts -> Stored] /\ faults' \in Nat
    BY <1>2, <2>1 DEF DirectCommit, Commit, NoFault, Fault, TypeOK, Stored
  <2> QED BY <1>0, <1>2, <2>2, IdleTypes DEF DirectCommit, TypeOK, HasIds
<1>3. ASSUME NEW a \in Artifacts, DeleteUnsign(a) PROVE TypeInv'
  <2>1. /\ sig' \in [Artifacts -> Stored] /\ record' \in [Artifacts -> Stored]
        /\ faults' \in Nat /\ lock' \in {"free", "request", "worker"}
    BY <1>3 DEF DeleteUnsign, Unsigned, PartlyUnsigned, NoFault, Fault, TypeOK, Stored
  <2>2. [op EXCEPT !.pc = "remove"] \in Ops /\ [op EXCEPT !.pc = "remove"].pc # "save"
    BY DEF TypeOK, Ops, OpPcs
  <2>3. op' \in Ops /\ op'.pc # "save"
    BY <1>0, <1>3, <2>2 DEF DeleteUnsign
  <2> QED BY <1>3, <2>1, <2>3 DEF DeleteUnsign, TypeOK, HasIds
<1>4. ASSUME NEW a \in Artifacts, DeleteFile(a) PROVE TypeInv'
  <2>1. art' \in [Artifacts -> Stored] /\ faults' \in Nat /\ lock' \in {"free", "request", "worker"}
    BY <1>4 DEF DeleteFile, NoFault, Fault, TypeOK, Stored
  <2>2. [op EXCEPT !.pc = "siblings"] \in Ops /\ [op EXCEPT !.pc = "siblings"].pc # "save"
    BY DEF TypeOK, Ops, OpPcs
  <2>3. op' \in Ops /\ op'.pc # "save"
    BY <1>0, <1>4, <2>2 DEF DeleteFile
  <2> QED BY <1>4, <2>1, <2>3 DEF DeleteFile, TypeOK, HasIds
<1>5. ASSUME NEW a \in Artifacts, DeleteSiblings(a) PROVE TypeInv'
  <2>1. \E A, R, S : art' = Cleared(art, A) /\ record' = Cleared(record, R) /\ sig' = Cleared(sig, S)
    BY <1>5, Zenon DEF DeleteSiblings
  <2>2. /\ art' \in [Artifacts -> Stored] /\ record' \in [Artifacts -> Stored]
        /\ sig' \in [Artifacts -> Stored]
    BY <2>1, ClearedType DEF TypeOK
  <2>3. faults' \in Nat
    BY <1>5 DEF DeleteSiblings, NoFault, Fault, TypeOK
  <2> QED BY <1>0, <1>5, <2>2, <2>3 DEF DeleteSiblings, TypeOK, HasIds
<1>6. ASSUME DeleteTree PROVE TypeInv'
  <2>1. \E A, S : art' = Cleared(art, A) /\ sig' = Cleared(sig, S)
    BY <1>6, Zenon DEF DeleteTree
  <2>2. art' \in [Artifacts -> Stored] /\ sig' \in [Artifacts -> Stored]
    BY <2>1, ClearedType DEF TypeOK
  <2>3. faults' \in Nat /\ lock' \in {"free", "request", "worker"}
    BY <1>6 DEF DeleteTree, NoFault, Fault, TypeOK
  <2>4. [op EXCEPT !.pc = "records"] \in Ops /\ [op EXCEPT !.pc = "records"].pc # "save"
    BY DEF TypeOK, Ops, OpPcs
  <2>5. op' \in Ops /\ op'.pc # "save"
    <3>1. op' = [op EXCEPT !.pc = "records"] \/ op' = NoOp
      BY <1>6, Zenon DEF DeleteTree
    <3> QED BY <1>0, <2>4, <3>1
  <2> QED BY <1>6, <2>2, <2>3, <2>5 DEF DeleteTree, TypeOK, HasIds
<1>7. ASSUME DeleteRecords PROVE TypeInv'
  <2>1. record' \in [Artifacts -> Stored] /\ faults' \in Nat
    BY <1>7, ClearedType DEF DeleteRecords, NoFault, Fault, TypeOK
  <2> QED BY <1>0, <1>7, <2>1 DEF DeleteRecords, TypeOK, HasIds
<1> QED BY <1>1, <1>2, <1>3, <1>4, <1>5, <1>6, <1>7 DEF RequestNext

\* The worker's state is well formed.
WorkerOK == w \in WorkerStates /\ (w.pc \in BusyPcs => w.id \in Ids)

\* A step of the worker that changes only its program counter keeps its type.
LEMMA MoveTo ==
    ASSUME w \in WorkerStates, NEW p \in WorkerPcs, p \in BusyPcs => w.id \in Ids,
           w' = [w EXCEPT !.pc = p] \/ w' = [w EXCEPT !.pc = p, !.ret = "claim"]
    PROVE  WorkerOK' /\ w'.pc = p /\ w'.id = w.id /\ w'.rec = w.rec /\ w'.clean = w.clean
<1>1. w' \in WorkerStates
  <2>1. [w EXCEPT !.pc = p] \in WorkerStates /\ [w EXCEPT !.pc = p, !.ret = "claim"] \in WorkerStates
    BY DEF WorkerStates, Stored
  <2> QED BY <2>1
<1>2. w'.pc = p /\ w'.id = w.id /\ w'.rec = w.rec /\ w'.clean = w.clean
  BY DEF WorkerStates
<1> QED BY <1>1, <1>2 DEF WorkerOK

\* The worker's steps keep the types.
LEMMA WorkerType == ASSUME TypeInv, WorkerNext PROVE TypeInv'
<1> USE DEF TypeInv, dbVars, fileVars
<1>0. w \in WorkerStates /\ (w.pc \in BusyPcs => w.id \in Ids)
  BY DEF TypeOK, HasIds
<1>p. /\ {"asleep", "sweep", "claim"} \subseteq WorkerPcs
      /\ BusyPcs \subseteq WorkerPcs
      /\ BusyPcs \intersect {"asleep", "sweep", "claim"} = {}
      /\ BusyPcs = {"verify", "lock", "reveal", "fail", "unsign", "artifact", "signature", "record",
                    "success", "files", "dir", "save", "unblock"}
  BY DEF WorkerPcs, BusyPcs, PublishPcs, CleanPcs
<1>r. w.ret \in {"sweep", "claim"}
  BY <1>0 DEF WorkerStates
<1>f. Fault \/ NoFault => faults' \in Nat
  BY DEF Fault, NoFault, TypeOK
<1>q. \A i \in Ids : rows[i] \in Rows /\ rows[i].art \in Stored /\ rows[i].sig \in Stored
  BY DEF TypeOK, Rows
<1>1. ASSUME StartPass PROVE TypeInv'
  <2> DEFINE S == {i \in Ids : rows[i].cleanup}
             T == {i \in Ids : /\ rows[i].active /\ ~rows[i].cleanup
                               /\ rows[i].status = "queued" /\ rows[i].age = "ttl"}
  <2>1. S \in SUBSET Ids /\ T \in SUBSET Ids /\ w' = [w EXCEPT !.pc = "sweep", !.clean = S, !.expire = T]
    BY <1>1 DEF StartPass
  <2> HIDE DEF S, T
  <2>2. w' \in WorkerStates
    BY <1>0, <1>p, <2>1, WorkerTypes, Zenon
  <2>3. w'.pc = "sweep"
    BY <1>0, <2>1 DEF WorkerStates
  <2> QED BY <1>1, <1>p, <2>2, <2>3 DEF StartPass, TypeOK, HasIds
<1>2. ASSUME NEW i \in Ids, SweepClean(i) PROVE TypeInv'
  <2>1. w.clean \ {i} \in SUBSET Ids
    BY <1>0 DEF WorkerStates
  <2>2. w' \in WorkerStates
    BY <1>0, <1>p, <1>2, <2>1, WorkerTypes, Zenon DEF SweepClean
  <2>3. w'.id = i
    BY <1>0, <1>2 DEF SweepClean, WorkerStates
  <2> QED BY <1>2, <2>2, <2>3 DEF SweepClean, TypeOK, HasIds
<1>3. ASSUME NEW i \in Ids, SweepExpire(i) PROVE TypeInv'
  <2>1. w.expire \ {i} \in SUBSET Ids
    BY <1>0 DEF WorkerStates
  <2>2. \/ w' = [w EXCEPT !.pc = "files", !.expire = w.expire \ {i}, !.id = i, !.ret = "sweep"]
        \/ w' = [w EXCEPT !.expire = w.expire \ {i}]
    BY <1>3 DEF SweepExpire
  <2>3. w' \in WorkerStates
    <3>1. w \in WorkerStates /\ "files" \in WorkerPcs /\ w.pc \in WorkerPcs
      BY <1>0, <1>p DEF WorkerStates
    <3>2. [w EXCEPT !.pc = "files", !.expire = w.expire \ {i}, !.id = i, !.ret = "sweep"] \in WorkerStates
      BY <3>1, <2>1, WorkerTypes, Zenon
    <3>3. [w EXCEPT !.expire = w.expire \ {i}] \in WorkerStates
      BY <3>1, <2>1, WorkerTypes, Zenon
    <3> QED BY <2>2, <3>2, <3>3
  <2>4. w'.pc \in BusyPcs => w'.id \in Ids
    BY <1>0, <1>3, <2>2 DEF SweepExpire, WorkerStates
  <2>5. Failed(rows[i]) \in Rows
    BY <1>q, RowTypes, Zenon
  <2>6. rows' \in [Ids -> Rows] /\ lock' \in {"free", "request", "worker"} /\ faults' \in Nat
    BY <1>3, <1>f, <2>5 DEF SweepExpire, TypeOK
  <2> QED BY <1>3, <2>3, <2>4, <2>6 DEF SweepExpire, TypeOK, HasIds
<1>4. ASSUME EndSweep PROVE TypeInv'
  <2>1. WorkerOK'
    <3>1. w' = [w EXCEPT !.pc = "claim"] /\ "claim" \in WorkerPcs /\ "claim" \notin BusyPcs
      BY <1>4, <1>p DEF EndSweep
    <3> QED BY <1>0, <3>1, MoveTo, Zenon
  <2> QED BY <1>4, <2>1 DEF EndSweep, TypeOK, HasIds, WorkerOK
<1>5. ASSUME EndPass PROVE TypeInv'
  <2>1. Asleep \in WorkerStates /\ Asleep.pc = "asleep"
    BY IdleTypes DEF Asleep
  <2> QED BY <1>5, <1>p, <1>f, <2>1 DEF EndPass, TypeOK, HasIds
<1>6. ASSUME NEW i \in Ids, Claim(i) PROVE TypeInv'
  <2>1. [rows[i] EXCEPT !.status = "validating"] \in Rows
    BY <1>q, RowTypes, Zenon DEF Statuses
  <2>2. rows' \in [Ids -> Rows]
    BY <1>6, <2>1 DEF Claim, TypeOK
  <2>3. w' \in WorkerStates
    BY <1>0, <1>p, <1>6, WorkerTypes, Zenon DEF Claim
  <2>4. w'.id = i
    BY <1>0, <1>6 DEF Claim, WorkerStates
  <2> QED BY <1>6, <2>2, <2>3, <2>4 DEF Claim, TypeOK, HasIds
<1>7. ASSUME Verify PROVE TypeInv'
  <2>1. w.id \in Ids
    BY <1>0, <1>p, <1>7 DEF Verify
  <2> DEFINE c == IF rows[w.id].sig = None THEN None ELSE rows[w.id].sig
  <2>2. c \in Stored /\ w' = [w EXCEPT !.pc = "lock", !.rec = c]
    BY <1>q, <1>7, <2>1 DEF Verify, Stored
  <2> HIDE DEF c
  <2>3. w' \in WorkerStates
    BY <1>0, <1>p, <2>2, WorkerTypes, Zenon
  <2>4. w'.id = w.id
    BY <1>0, <2>2 DEF WorkerStates
  <2> QED BY <1>7, <2>1, <2>3, <2>4 DEF Verify, TypeOK, HasIds
<1>8. ASSUME VerifyFails PROVE TypeInv'
  <2>1. WorkerOK'
    <3>1. w' = [w EXCEPT !.pc = "fail"] /\ "fail" \in WorkerPcs /\ w.id \in Ids
      BY <1>0, <1>8, <1>p DEF VerifyFails
    <3> QED BY <1>0, <3>1, MoveTo, Zenon
  <2> QED BY <1>8, <2>1 DEF VerifyFails, TypeOK, HasIds, WorkerOK
<1>9. ASSUME LockRelease PROVE TypeInv'
  <2>0. w.id \in Ids
    BY <1>0, <1>p, <1>9 DEF LockRelease
  <2>1. WorkerOK'
    <3>1. \/ w' = [w EXCEPT !.pc = "unsign"] \/ w' = [w EXCEPT !.pc = "fail"]
          \/ w' = [w EXCEPT !.pc = "files", !.ret = "claim"] \/ w' = [w EXCEPT !.pc = "claim"]
      BY <1>9, Zenon DEF LockRelease
    <3>2. \A x \in {"unsign", "fail", "files", "claim"} : x \in WorkerPcs
      BY <1>p
    <3> QED BY <1>0, <2>0, <3>1, <3>2, MoveTo, Zenon
  <2>2. [rows[w.id] EXCEPT !.started = TRUE] \in Rows
    BY <1>q, <2>0, RowTypes, Zenon
  <2>3. rows' \in [Ids -> Rows] /\ lock' \in {"free", "request", "worker"} /\ faults' \in Nat
    BY <1>9, <1>f, <2>0, <2>2 DEF LockRelease, TypeOK
  <2> QED BY <1>9, <2>1, <2>3 DEF LockRelease, TypeOK, HasIds, WorkerOK
<1>l. w.pc \in BusyPcs => w.id \in Ids /\ rows[w.id] \in Rows /\ rows[w.id].art \in Stored /\ rows[w.id].sig \in Stored
  BY <1>0, <1>q
<1>m. ASSUME NEW x \in BusyPcs \union {"sweep", "claim"}, w.pc \in BusyPcs,
             w' = [w EXCEPT !.pc = x] \/ w' = [w EXCEPT !.pc = x, !.ret = "claim"]
      PROVE  WorkerOK'
  <2>1. x \in WorkerPcs
    BY <1>p
  <2> QED BY <1>0, <1>m, <2>1, MoveTo, Zenon
<1>10. ASSUME PublishUnsign PROVE TypeInv'
  <2>1. w' = [w EXCEPT !.pc = "artifact"] \/ w' = [w EXCEPT !.pc = "fail"]
    BY <1>10 DEF PublishUnsign, PublishFails
  <2>2. WorkerOK'
    BY <1>10, <1>m, <1>p, <2>1 DEF PublishUnsign
  <2>3. /\ sig' \in [Artifacts -> Stored] /\ record' \in [Artifacts -> Stored]
        /\ faults' \in Nat /\ lock' \in {"free", "request", "worker"}
    BY <1>10, <1>f DEF PublishUnsign, PublishFails, Unsigned, PartlyUnsigned, TypeOK, Stored
  <2> QED BY <1>10, <2>2, <2>3 DEF PublishUnsign, TypeOK, HasIds, WorkerOK
<1>11. ASSUME PublishArtifact PROVE TypeInv'
  <2>0. w.pc \in BusyPcs
    BY <1>11, <1>p DEF PublishArtifact
  <2>1. w' = [w EXCEPT !.pc = "signature"] \/ w' = [w EXCEPT !.pc = "fail"]
    BY <1>11 DEF PublishArtifact, PublishFails
  <2>2. WorkerOK'
    BY <2>0, <1>m, <1>p, <2>1
  <2>3. art' \in [Artifacts -> Stored]
    BY <1>11, <1>l, <2>0 DEF PublishArtifact, TypeOK, Stored
  <2>4. faults' \in Nat /\ lock' \in {"free", "request", "worker"}
    BY <1>11, <1>f DEF PublishArtifact, PublishFails, TypeOK
  <2> QED BY <1>11, <2>2, <2>3, <2>4 DEF PublishArtifact, TypeOK, HasIds, WorkerOK
<1>12. ASSUME PublishSignature PROVE TypeInv'
  <2>0. w.pc \in BusyPcs
    BY <1>12, <1>p DEF PublishSignature
  <2>1. w' = [w EXCEPT !.pc = "record"] \/ w' = [w EXCEPT !.pc = "fail"]
    BY <1>12 DEF PublishSignature, PublishFails
  <2>2. WorkerOK'
    BY <2>0, <1>m, <1>p, <2>1
  <2>3. sig' \in [Artifacts -> Stored]
    BY <1>12, <1>l, <2>0 DEF PublishSignature, TypeOK, Stored
  <2>4. faults' \in Nat /\ lock' \in {"free", "request", "worker"}
    BY <1>12, <1>f DEF PublishSignature, PublishFails, TypeOK
  <2> QED BY <1>12, <2>2, <2>3, <2>4 DEF PublishSignature, TypeOK, HasIds, WorkerOK
<1>13. ASSUME PublishRecord PROVE TypeInv'
  <2>0. w.pc \in BusyPcs /\ w.rec \in Stored
    BY <1>0, <1>13, <1>p DEF PublishRecord, WorkerStates
  <2>1. w' = [w EXCEPT !.pc = "success"] \/ w' = [w EXCEPT !.pc = "fail"]
    BY <1>13 DEF PublishRecord, PublishFails
  <2>2. WorkerOK'
    BY <2>0, <1>m, <1>p, <2>1
  <2>3. record' \in [Artifacts -> Stored]
    BY <1>13, <2>0 DEF PublishRecord, TypeOK
  <2>4. faults' \in Nat /\ lock' \in {"free", "request", "worker"}
    BY <1>13, <1>f DEF PublishRecord, PublishFails, TypeOK
  <2> QED BY <1>13, <2>2, <2>3, <2>4 DEF PublishRecord, TypeOK, HasIds, WorkerOK
<1>14. ASSUME PublishSuccess PROVE TypeInv'
  <2>0. w.pc \in BusyPcs
    BY <1>14, <1>p DEF PublishSuccess
  <2>1. w' = [w EXCEPT !.pc = "reveal"] \/ w' = [w EXCEPT !.pc = "fail"]
    BY <1>14 DEF PublishSuccess, PublishFails
  <2>2. WorkerOK'
    BY <2>0, <1>m, <1>p, <2>1
  <2>3. Succeeded(rows[w.id]) \in Rows
    BY <1>l, <2>0, RowTypes, Zenon
  <2>4. rows' \in [Ids -> Rows]
    BY <1>14, <2>3 DEF PublishSuccess, TypeOK
  <2>5. faults' \in Nat /\ lock' \in {"free", "request", "worker"}
    BY <1>14, <1>f DEF PublishSuccess, PublishFails, TypeOK
  <2> QED BY <1>14, <2>2, <2>4, <2>5 DEF PublishSuccess, TypeOK, HasIds, WorkerOK
<1>15. ASSUME Reveal PROVE TypeInv'
  <2>1. WorkerOK'
    BY <1>15, <1>m, <1>p DEF Reveal
  <2> QED BY <1>15, <2>1 DEF Reveal, TypeOK, HasIds, WorkerOK
<1>16. ASSUME FailClaimed PROVE TypeInv'
  <2>0. w.pc \in BusyPcs
    BY <1>16, <1>p DEF FailClaimed
  <2>1. w' = [w EXCEPT !.pc = "files", !.ret = "claim"] \/ w' = [w EXCEPT !.pc = "claim"]
    BY <1>16, Zenon DEF FailClaimed
  <2>2. WorkerOK'
    BY <2>0, <1>m, <1>p, <2>1
  <2>3. Failed(rows[w.id]) \in Rows
    BY <1>l, <2>0, RowTypes, Zenon
  <2>4. rows' \in [Ids -> Rows] /\ lock' \in {"free", "request", "worker"} /\ faults' \in Nat
    BY <1>16, <1>f, <2>3 DEF FailClaimed, TypeOK
  <2> QED BY <1>16, <2>2, <2>4 DEF FailClaimed, TypeOK, HasIds, WorkerOK
<1>17. ASSUME CleanFiles PROVE TypeInv'
  <2>0. w.pc \in BusyPcs
    BY <1>17, <1>p DEF CleanFiles
  <2>1. w' = [w EXCEPT !.pc = "dir"] \/ w' = [w EXCEPT !.pc = w.ret]
    BY <1>17 DEF CleanFiles, CleanupFails
  <2>2. WorkerOK'
    BY <2>0, <1>m, <1>p, <1>r, <2>1
  <2>3. /\ art' \in [Artifacts -> Stored] /\ sig' \in [Artifacts -> Stored]
        /\ record' \in [Artifacts -> Stored]
    BY <1>17 DEF CleanFiles, Unsigned, PartlyUnsigned, TypeOK, Stored
  <2>4. lock' \in {"free", "request", "worker"} /\ faults' \in Nat
    BY <1>17, <1>f DEF CleanFiles, CleanupFails, TypeOK
  <2> QED BY <1>17, <2>2, <2>3, <2>4 DEF CleanFiles, TypeOK, HasIds, WorkerOK
<1>18. ASSUME CleanDir PROVE TypeInv'
  <2>0. w.pc \in BusyPcs
    BY <1>18, <1>p DEF CleanDir
  <2>1. w' = [w EXCEPT !.pc = "save"] \/ w' = [w EXCEPT !.pc = w.ret]
    BY <1>18 DEF CleanDir, CleanupFails
  <2>2. WorkerOK'
    BY <2>0, <1>m, <1>p, <1>r, <2>1
  <2>3. dirs' \in SUBSET Ids /\ lock' \in {"free", "request", "worker"} /\ faults' \in Nat
    BY <1>18, <1>f DEF CleanDir, CleanupFails, TypeOK
  <2> QED BY <1>18, <2>2, <2>3 DEF CleanDir, TypeOK, HasIds, WorkerOK
<1>19. ASSUME CleanSave PROVE TypeInv'
  <2>0. w.pc \in BusyPcs
    BY <1>19, <1>p DEF CleanSave
  <2>1. w' = [w EXCEPT !.pc = "unblock"] \/ w' = [w EXCEPT !.pc = w.ret]
    BY <1>19 DEF CleanSave, CleanupFails
  <2>2. WorkerOK'
    BY <2>0, <1>m, <1>p, <1>r, <2>1
  <2>3. [rows[w.id] EXCEPT !.active = FALSE, !.cleanup = FALSE] \in Rows
    BY <1>l, <2>0, RowTypes, Zenon
  <2>4. rows' \in [Ids -> Rows]
    BY <1>19, <1>l, <2>0, <2>3 DEF CleanSave, TypeOK
  <2>5. lock' \in {"free", "request", "worker"} /\ faults' \in Nat
    BY <1>19, <1>f DEF CleanSave, CleanupFails, TypeOK
  <2> QED BY <1>19, <2>2, <2>4, <2>5 DEF CleanSave, TypeOK, HasIds, WorkerOK
<1>20. ASSUME CleanUnblock PROVE TypeInv'
  <2>1. WorkerOK'
    BY <1>20, <1>m, <1>p, <1>r DEF CleanUnblock
  <2> QED BY <1>20, <2>1 DEF CleanUnblock, TypeOK, HasIds, WorkerOK
<1> QED
  BY <1>1, <1>2, <1>3, <1>4, <1>5, <1>6, <1>7, <1>8, <1>9, <1>10, <1>11, <1>12, <1>13, <1>14,
     <1>15, <1>16, <1>17, <1>18, <1>19, <1>20 DEF WorkerNext

\* Releases that were made belong to an artifact, those with a key are not yet a
\* success, and only the ended ones await their cleanup.
Lifecycle == \A i \in Ids :
    /\ rows[i].status # "none" => rows[i].artifact \in Artifacts
    /\ rows[i].active => rows[i].status \in {"queued", "validating", "failed"}
    /\ rows[i].cleanup => rows[i].status \in {"failed", "success"}

\* Every step keeps the types.
LEMMA TypeStep == TypeInv /\ Lifecycle /\ [Next]_vars => TypeInv'
<1> SUFFICES ASSUME TypeInv, Lifecycle, [Next]_vars PROVE TypeInv'
  OBVIOUS
<1> USE DEF TypeInv, dbVars, fileVars
<1>0. \A i \in Ids : rows[i] \in Rows
  BY DEF TypeOK
<1>1. CASE UNCHANGED vars
  BY <1>1 DEF vars, TypeOK, HasIds
<1>2. ASSUME NEW i \in Ids, Elapse(i) PROVE TypeInv'
  <2> DEFINE g == IF rows[i].age = "fresh" THEN "grace" ELSE "ttl"
  <2>1. g \in Ages
    BY DEF Ages
  <2>2. rows' = [rows EXCEPT ![i] = [rows[i] EXCEPT !.age = g]]
    BY <1>2 DEF Elapse
  <2> HIDE DEF g
  <2>3. [rows[i] EXCEPT !.age = g] \in Rows
    BY <1>0, <2>1, RowTypes, Zenon
  <2>4. rows' \in [Ids -> Rows]
    BY <2>2, <2>3 DEF TypeOK
  <2> QED BY <1>2, <2>4 DEF Elapse, TypeOK, HasIds
<1>3. CASE Crash
  <2>1. NoOp.pc # "save" /\ Asleep.pc \notin BusyPcs
    BY DEF NoOp, Asleep, BusyPcs, PublishPcs, CleanPcs
  <2>2. put' \in [Artifacts -> Puts] /\ op' \in Ops /\ w' \in WorkerStates
    BY <1>3, IdleTypes DEF Crash
  <2>3. HasIds'
    BY <1>3, <2>1 DEF Crash, HasIds
  <2>4. crashes' \in Nat /\ blocked' \in SUBSET Artifacts
    BY <1>3 DEF Crash, TypeOK
  <2>5. up' \in BOOLEAN
    BY <1>3, Zenon DEF Crash
  <2> QED BY <1>3, <2>2, <2>3, <2>4, <2>5 DEF Crash, TypeOK
<1>4. CASE Restore
  <2>1. \A i \in Ids : [rows[i] EXCEPT !.status = "queued"] \in Rows
    BY <1>0, RowTypes, Zenon DEF Statuses
  <2>2. rows' \in [Ids -> Rows]
    BY <1>4, <1>0, <2>1 DEF Restore
  <2>3. \A i \in Ids : Pending(i) => rows[i].artifact \in Artifacts
    BY DEF Pending, Lifecycle
  <2>4. blocked' \subseteq Artifacts /\ dirs' \subseteq Ids
    BY <1>4, <2>3 DEF Restore, TypeOK
  <2> QED BY <1>4, <2>2, <2>4 DEF Restore, TypeOK, HasIds
<1> QED BY <1>1, <1>2, <1>3, <1>4, UploadType, DeleteType, RequestType, WorkerType DEF Next

-----------------------------------------------------------------------------
(* The releases.                                                           *)

LockedPcs == PublishPcs \union CleanPcs \union {"reveal"}

\* Who is between two steps of a mutation holds gpgReleaseStorageMutation.
LockInv ==
    /\ op.pc # "idle" => lock = "request" /\ up
    /\ w.pc \in LockedPcs => lock = "worker"
    /\ w.pc # "asleep" => up

\* A request about to save a release found no other one of its artifact, or its
\* own, which is queued; the quarantine directory is there.
SaveInv == \A a \in Artifacts : op.pc = "save" /\ op.paths = {a} =>
    /\ op.id \in dirs
    /\ IF rows[op.id].status = "none" THEN Active(a) = {}
       ELSE rows[op.id].status = "queued" /\ rows[op.id].active /\ rows[op.id].artifact = a

Ended == {"failed", "success"}

\* The release the worker publishes is the one it claimed, and what it cleans has
\* ended.
WorkInv ==
    /\ w.pc \in PublishPcs => rows[w.id].active /\ rows[w.id].status = "validating"
    /\ w.pc \in CleanPcs \union {"reveal"} => rows[w.id].status \in Ended
    /\ \A i \in w.clean : rows[i].status \in Ended

Core == TypeInv /\ Lifecycle /\ LockInv /\ SaveInv /\ WorkInv /\ OneActiveRelease /\ StagingKept

\* A step that leaves every release in its place keeps the invariants when it
\* keeps the lock discipline and moves the worker on to no other release.
LEMMA RowsKept ==
    ASSUME Core, TypeInv', LockInv', dirs \subseteq dirs',
           \A i \in Ids : /\ rows'[i].status = rows[i].status /\ rows'[i].active = rows[i].active
                          /\ rows'[i].artifact = rows[i].artifact /\ rows'[i].cleanup = rows[i].cleanup,
           op'.pc = "save" => op' = op,
           w'.pc \in PublishPcs => w.pc \in PublishPcs /\ w'.id = w.id,
           w'.pc \in CleanPcs \union {"reveal"} => rows[w'.id].status \in Ended,
           \A i \in w'.clean : rows[i].status \in Ended
    PROVE  Core'
<1>0. w \in WorkerStates /\ w' \in WorkerStates /\ HasIds /\ HasIds'
  BY DEF Core, TypeInv, TypeOK
<1>1. Lifecycle' /\ OneActiveRelease' /\ StagingKept'
  BY DEF Core, Lifecycle, OneActiveRelease, StagingKept
<1>2. \A a : Active(a)' = Active(a)
  BY DEF Active
<1>3. SaveInv'
  BY <1>0, <1>2 DEF Core, SaveInv, HasIds
<1>4. WorkInv'
  <2>1. w'.pc \in PublishPcs => w'.id \in Ids
    BY <1>0 DEF HasIds, BusyPcs
  <2>2. w'.pc \in CleanPcs \union {"reveal"} => w'.id \in Ids
    BY <1>0 DEF HasIds, BusyPcs
  <2>3. w'.clean \subseteq Ids
    BY <1>0 DEF WorkerStates
  <2> QED BY <2>1, <2>2, <2>3 DEF Core, WorkInv
<1> QED BY <1>1, <1>3, <1>4 DEF Core

\* An upload handler outside the mutex keeps the inductive invariant.
LEMMA UploadCore == ASSUME Core, TypeInv', NEW a \in Artifacts, UploadNext(a) PROVE Core'
<1> USE DEF dbVars, fileVars
<1>0. LockInv /\ WorkInv
  BY DEF Core
<1>1. ASSUME NEW k \in Kinds, NEW u \in Users, NEW c \in Contents, NEW e \in BOOLEAN,
             BeginPut(a, k, u, c, e)
      PROVE  Core'
  <2>1. UNCHANGED <<rows, dirs, up, lock, op, w>>
    BY <1>1 DEF BeginPut
  <2> QED BY <1>0, <2>1, RowsKept DEF LockInv, WorkInv
<1>2. ASSUME AbandonPut(a) PROVE Core'
  <2>1. UNCHANGED <<rows, dirs, up, lock, op, w>>
    BY <1>2 DEF AbandonPut
  <2> QED BY <1>0, <2>1, RowsKept DEF LockInv, WorkInv
<1>3. ASSUME NEW i \in Ids, Stage(a, i) PROVE Core'
  <2>1. /\ UNCHANGED <<rows, up, w>> /\ up /\ lock = "free" /\ lock' = "request"
        /\ dirs' = dirs \union {i} /\ op' = [pc |-> "save", id |-> i, paths |-> {a}]
    BY <1>3 DEF Stage
  <2>2. IF rows[i].status = "none" THEN Active(a) = {}
        ELSE rows[i].status = "queued" /\ rows[i].active /\ rows[i].artifact = a
    BY <1>3 DEF Stage, FreshId, Active, Core, Lifecycle
  <2>3. Active(a)' = Active(a)
    BY <2>1 DEF Active
  <2>4. LockInv'
    BY <1>0, <2>1 DEF LockInv
  <2>5. SaveInv'
    <3> SUFFICES ASSUME NEW b \in Artifacts, op'.paths = {b}
                 PROVE  /\ op'.id \in dirs'
                        /\ IF rows'[op'.id].status = "none" THEN Active(b)' = {}
                           ELSE rows'[op'.id].status = "queued" /\ rows'[op'.id].active /\ rows'[op'.id].artifact = b
      BY DEF SaveInv
    <3>1. op'.id = i /\ op'.paths = {a} /\ b = a
      BY <2>1
    <3> QED BY <2>1, <2>2, <2>3, <3>1
  <2>6. Lifecycle' /\ OneActiveRelease' /\ StagingKept' /\ WorkInv'
    BY <2>1 DEF Core, Lifecycle, OneActiveRelease, StagingKept, WorkInv
  <2> QED BY <2>4, <2>5, <2>6 DEF Core
<1>4. ASSUME NEW i \in Ids, StageCompanion(a, i) PROVE Core'
  <2>1. UNCHANGED <<rows, up, lock, op, w>> /\ dirs \subseteq dirs'
    BY <1>4 DEF StageCompanion
  <2> QED BY <1>0, <2>1, RowsKept DEF LockInv, WorkInv
<1>5. ASSUME DirectUnsign(a) PROVE Core'
  <2>1. UNCHANGED <<rows, dirs, up, w>> /\ up /\ lock = "free"
    BY <1>5 DEF DirectUnsign
  <2>2. (lock' = lock /\ op' = op) \/ (lock' = "request" /\ op'.pc = "commit")
    BY <1>5 DEF DirectUnsign
  <2>3. LockInv'
    BY <1>0, <2>1, <2>2 DEF LockInv, LockedPcs
  <2> QED BY <1>0, <2>1, <2>2, <2>3, RowsKept DEF WorkInv
<1> QED BY <1>1, <1>2, <1>3, <1>4, <1>5 DEF UploadNext

\* Discarding the releases of a deleted path keeps the invariant's parts about rows.
LEMMA FailRowsCore ==
    ASSUME Core, TypeInv', NEW F \in SUBSET Ids, FailRows(F), \A i \in F : rows[i].active,
           lock = "free", up, up' = up, w' = w, dirs' = dirs,
           (lock' = lock /\ op' = op) \/ (lock' = "request" /\ op'.pc \in {"file", "tree"})
    PROVE  Core'
<1>0. /\ op.pc = "idle" /\ w.pc \notin LockedPcs
      /\ w \in WorkerStates /\ \A i \in Ids : rows[i] \in Rows
  BY DEF Core, LockInv, TypeInv, TypeOK
<1>1. \A i \in Ids : /\ rows'[i].active = rows[i].active /\ rows'[i].artifact = rows[i].artifact
                     /\ i \in F => rows'[i].status = "failed" /\ rows'[i].cleanup
                     /\ i \notin F => rows'[i] = rows[i]
  <2>1. \A i \in Ids : rows'[i] = IF i \in F THEN Failed(rows[i]) ELSE rows[i]
    BY DEF FailRows
  <2>2. \A i \in Ids : /\ Failed(rows[i]).active = rows[i].active
                       /\ Failed(rows[i]).artifact = rows[i].artifact
                       /\ Failed(rows[i]).status = "failed" /\ Failed(rows[i]).cleanup
    BY <1>0 DEF Failed, Rows
  <2> QED BY <2>1, <2>2
<1>2. Lifecycle'
  BY <1>1 DEF Core, Lifecycle
<1>3. OneActiveRelease' /\ StagingKept'
  BY <1>1 DEF Core, OneActiveRelease, StagingKept
<1>4. LockInv'
  BY <1>0 DEF Core, LockInv
<1>5. SaveInv'
  BY <1>0 DEF SaveInv
<1>6. WorkInv'
  <2>1. \A i \in w.clean : i \in Ids /\ rows[i].status \in Ended
    BY <1>0 DEF Core, WorkInv, WorkerStates
  <2> QED BY <1>0, <1>1, <2>1 DEF WorkInv, LockedPcs, Ended
<1> QED BY <1>2, <1>3, <1>4, <1>5, <1>6 DEF Core

\* The start of a deletion keeps the inductive invariant.
LEMMA DeleteCore == ASSUME Core, TypeInv', DeleteNext PROVE Core'
<1> USE DEF dbVars, fileVars
<1>1. ASSUME NEW D, NEW o, o.pc \in {"file", "tree"}, Discard(D, o), lock = "free", up,
             up' = up, w' = w, dirs' = dirs
      PROVE  Core'
  <2>1. \E F \in SUBSET Ids : FailRows(F) /\ \A i \in F : rows[i].active
    <3> DEFINE found == {i \in Ids : rows[i].active /\ rows[i].artifact \in D}
    <3>1. found \in SUBSET Ids /\ \A i \in found : rows[i].active
      OBVIOUS
    <3>2. \E F \in SUBSET found : FailRows(F)
      BY <1>1, Zenon DEF Discard
    <3> QED BY <3>1, <3>2
  <2>2. (lock' = lock /\ op' = op) \/ (lock' = "request" /\ op'.pc \in {"file", "tree"})
    BY <1>1 DEF Discard
  <2> QED BY <1>1, <2>1, <2>2, FailRowsCore
<1>2. ASSUME NEW a \in Artifacts, BeginDelete(a) PROVE Core'
  BY <1>1, <1>2 DEF BeginDelete
<1>3. ASSUME NEW D \in SUBSET Artifacts, BeginDeleteTree(D) PROVE Core'
  BY <1>1, <1>3 DEF BeginDeleteTree
<1>4. ASSUME NEW a \in Artifacts, DeleteSignature(a) PROVE Core'
  <2>1. UNCHANGED <<rows, dirs, up, lock, op, w>>
    BY <1>4 DEF DeleteSignature
  <2> QED BY <2>1, RowsKept DEF Core, LockInv, WorkInv
<1> QED BY <1>2, <1>3, <1>4 DEF DeleteNext

\* The steps of a handler under the mutex keep the inductive invariant.
LEMMA RequestCore == ASSUME Core, TypeInv', RequestNext PROVE Core'
<1> USE DEF dbVars, fileVars
<1>0. LockInv /\ WorkInv /\ NoOp.pc = "idle"
  BY DEF Core, NoOp
<1>1. ASSUME NEW a \in Artifacts, SaveStaged(a) PROVE Core'
  <2> DEFINE r == IF rows[op.id].status = "none" THEN NewRow(a, put[a].user) ELSE rows[op.id]
             x == StagedRow(r, put[a], art[a] # None)
  <2>0. /\ op.pc = "save" /\ op.paths = {a} /\ op.id \in Ids /\ op.id \in dirs /\ lock = "request"
        /\ rows \in [Ids -> Rows] /\ put[a] \in Puts
        /\ IF rows[op.id].status = "none" THEN Active(a) = {}
           ELSE rows[op.id].status = "queued" /\ rows[op.id].active /\ rows[op.id].artifact = a
    BY <1>1 DEF SaveStaged, Core, TypeInv, TypeOK, HasIds, LockInv, SaveInv
  <2>1. UNCHANGED <<dirs, up, w>> /\ op' = NoOp /\ w.pc \notin LockedPcs
    BY <1>0, <1>1, <2>0 DEF SaveStaged, LockInv
  <2>2. LockInv' /\ SaveInv'
    BY <1>0, <2>1 DEF LockInv, SaveInv
  <2>3. CASE UNCHANGED rows
    BY <1>0, <2>1, <2>2, <2>3, RowsKept DEF WorkInv
  <2>4. CASE rows' = [rows EXCEPT ![op.id] = x]
    <3>1. r \in Rows
      <4>1. put[a].user \in Users \union {None} /\ rows[op.id] \in Rows
        BY <2>0 DEF Puts
      <4> QED BY <4>1, NewRowType
    <3>2. r.status = "queued" /\ r.active /\ r.artifact = a /\ ~r.cleanup
      <4>1. CASE rows[op.id].status = "none"
        BY <4>1 DEF NewRow, NoRow
      <4>2. CASE rows[op.id].status # "none"
        BY <4>2, <2>0 DEF Core, Lifecycle
      <4> QED BY <4>1, <4>2
    <3> HIDE DEF r
    <3>3. x.status = r.status /\ x.active = r.active /\ x.artifact = r.artifact /\ x.cleanup = r.cleanup
      BY <3>1 DEF StagedRow, Rows
    <3> HIDE DEF x
    <3>4. \A j \in Ids : j # op.id => rows'[j] = rows[j]
      BY <2>4, <2>0
    <3>5. rows'[op.id] = x
      BY <2>4, <2>0
    <3>6. \A j \in Ids : j # op.id => ~(rows[j].active /\ rows[j].artifact = a)
      BY <2>0 DEF Active, Core, OneActiveRelease
    <3>7. Lifecycle' /\ StagingKept'
      BY <2>0, <2>1, <3>2, <3>3, <3>4, <3>5 DEF Core, Lifecycle, StagingKept
    <3>8. OneActiveRelease'
      BY <3>2, <3>3, <3>4, <3>5, <3>6 DEF Core, OneActiveRelease
    <3>9. WorkInv'
      <4>1. \A j \in w.clean : j \in Ids /\ rows[j].status \in Ended
        BY DEF Core, WorkInv, TypeInv, TypeOK, WorkerStates
      <4>2. \A j \in w.clean : j # op.id
        BY <4>1, <2>0 DEF Ended
      <4> QED BY <2>1, <3>4, <4>1, <4>2 DEF WorkInv, LockedPcs
    <3> QED BY <2>2, <3>7, <3>8, <3>9 DEF Core
  <2> QED BY <1>1, <2>3, <2>4 DEF SaveStaged
<1>2. ASSUME op.pc # "idle", UNCHANGED <<rows, dirs, up, w>>,
             (op' = NoOp /\ lock' = "free") \/ (op'.pc \in {"remove", "siblings", "records"} /\ lock' = lock)
      PROVE  Core'
  <2>1. lock = "request" /\ up /\ w.pc \notin LockedPcs
    BY <1>0, <1>2 DEF LockInv
  <2>2. LockInv'
    BY <1>0, <1>2, <2>1 DEF LockInv
  <2> QED BY <1>0, <1>2, <2>2, RowsKept DEF WorkInv
<1>3. ASSUME NEW a \in Artifacts, DirectCommit(a) PROVE Core'
  BY <1>2, <1>3 DEF DirectCommit
<1>4. ASSUME NEW x \in {"remove", "siblings", "records"} PROVE [op EXCEPT !.pc = x].pc = x
  BY DEF Core, TypeInv, TypeOK, Ops
<1>5. ASSUME NEW a \in Artifacts, DeleteUnsign(a) PROVE Core'
  BY <1>2, <1>4, <1>5 DEF DeleteUnsign
<1>6. ASSUME NEW a \in Artifacts, DeleteFile(a) PROVE Core'
  BY <1>2, <1>4, <1>6 DEF DeleteFile
<1>7. ASSUME NEW a \in Artifacts, DeleteSiblings(a) PROVE Core'
  BY <1>2, <1>7 DEF DeleteSiblings
<1>8. ASSUME DeleteTree PROVE Core'
  BY <1>2, <1>4, <1>8 DEF DeleteTree
<1>9. ASSUME DeleteRecords PROVE Core'
  BY <1>2, <1>9 DEF DeleteRecords
<1> QED BY <1>1, <1>3, <1>5, <1>6, <1>7, <1>8, <1>9 DEF RequestNext

\* A step that moves one release on, never back from its end.
LEMMA RowMoved ==
    ASSUME Core, TypeInv', LockInv', dirs' = dirs, op' = op, op.pc = "idle",
           NEW i \in Ids, \A j \in Ids : j # i => rows'[j] = rows[j],
           rows'[i].artifact = rows[i].artifact, rows[i].status # "none",
           rows'[i].active => rows[i].active /\ rows'[i].status \in {"queued", "validating", "failed"},
           rows'[i].cleanup => rows'[i].status \in Ended,
           rows[i].status \in Ended => rows'[i].status \in Ended,
           w'.pc \in PublishPcs => rows'[w'.id].active /\ rows'[w'.id].status = "validating",
           w'.pc \in CleanPcs \union {"reveal"} => rows'[w'.id].status \in Ended,
           w'.clean \subseteq w.clean
    PROVE  Core'
<1>0. w.clean \subseteq Ids
  BY DEF Core, TypeInv, TypeOK, WorkerStates
<1>2. Lifecycle'
  BY DEF Core, Lifecycle, Ended
<1>3. OneActiveRelease'
  BY DEF Core, OneActiveRelease
<1>4. StagingKept'
  <2>1. rows'[i].active /\ rows'[i].status \in {"queued", "validating"} => i \in dirs
    BY DEF Core, StagingKept, Lifecycle, Ended
  <2> QED BY <2>1 DEF Core, StagingKept
<1>5. SaveInv'
  BY DEF SaveInv
<1>6. WorkInv'
  BY <1>0 DEF Core, WorkInv
<1> QED BY <1>2, <1>3, <1>4, <1>5, <1>6 DEF Core

\* The worker's steps keep the inductive invariant.
LEMMA WorkerCore == ASSUME Core, TypeInv', WorkerNext PROVE Core'
<1> USE DEF dbVars, fileVars
<1>0. /\ LockInv /\ WorkInv /\ w \in WorkerStates /\ w.clean \subseteq Ids
      /\ (w.pc \in BusyPcs => w.id \in Ids)
  BY DEF Core, TypeInv, TypeOK, HasIds, WorkerStates
<1>p. /\ LockedPcs = {"unsign", "artifact", "signature", "record", "success", "files", "dir", "save",
                      "unblock", "reveal"}
      /\ CleanPcs \union {"reveal"} = {"files", "dir", "save", "unblock", "reveal"}
      /\ PublishPcs = {"unsign", "artifact", "signature", "record", "success"}
      /\ BusyPcs = LockedPcs \union {"verify", "lock", "fail"}
      /\ BusyPcs \union {"sweep", "claim"} \subseteq WorkerPcs
  BY DEF LockedPcs, PublishPcs, CleanPcs, BusyPcs, WorkerPcs
<1>q. \A i \in Ids : rows[i] \in Rows
  BY DEF Core, TypeInv, TypeOK
<1>r. w.ret \in {"sweep", "claim"}
  BY <1>0 DEF WorkerStates
<1>u. rows \in [Ids -> [status : Statuses, artifact : Artifacts \union {None},
                        uploader : Users \union {None}, active : BOOLEAN, require : BOOLEAN,
                        art : Stored, sig : Stored, existed : BOOLEAN, started : BOOLEAN,
                        cleanup : BOOLEAN, age : Ages]]
  BY DEF Core, TypeInv, TypeOK, Rows
\* the worker moves on within its program
<1>m. ASSUME NEW x \in BusyPcs \union {"sweep", "claim"}, x \in BusyPcs => w.id \in Ids,
             w' = [w EXCEPT !.pc = x] \/ w' = [w EXCEPT !.pc = x, !.ret = "claim"]
      PROVE  w'.pc = x /\ w'.id = w.id /\ w'.clean = w.clean
  BY <1>0, <1>m DEF WorkerStates
\* a step that leaves the releases alone
<1>k. ASSUME UNCHANGED <<rows, op, up>>, up, dirs \subseteq dirs', LockInv',
             w'.pc \in PublishPcs => w.pc \in PublishPcs /\ w'.id = w.id,
             w'.pc \in CleanPcs \union {"reveal"} => rows[w'.id].status \in Ended,
             w'.clean \subseteq w.clean
      PROVE  Core'
  BY <1>0, <1>k, RowsKept DEF WorkInv
<1>1. ASSUME StartPass PROVE Core'
  <2>1. /\ UNCHANGED <<rows, dirs, op, lock, up>> /\ up /\ w.pc = "asleep"
        /\ w'.pc = "sweep" /\ w'.clean = {i \in Ids : rows[i].cleanup}
    BY <1>0, <1>1 DEF StartPass, WorkerStates
  <2>2. \A i \in w'.clean : rows[i].status \in Ended
    BY <2>1 DEF Core, Lifecycle, Ended
  <2>3. LockInv' /\ w'.pc \notin PublishPcs \union CleanPcs \union {"reveal"}
    BY <1>0, <1>p, <2>1 DEF LockInv
  <2> QED BY <2>1, <2>2, <2>3, RowsKept
<1>2. ASSUME NEW i \in Ids, SweepClean(i) PROVE Core'
  <2>1. /\ UNCHANGED <<rows, dirs, op, up>> /\ w.pc = "sweep" /\ lock = "free" /\ i \in w.clean
        /\ w'.pc = "files" /\ w'.clean = w.clean \ {i} /\ w'.id = i /\ lock' = "worker"
    BY <1>0, <1>2 DEF SweepClean, WorkerStates
  <2>2. LockInv' /\ up
    BY <1>0, <2>1 DEF LockInv
  <2>3. rows[i].status \in Ended
    BY <1>0, <2>1 DEF WorkInv
  <2> QED BY <1>k, <1>p, <2>1, <2>2, <2>3
<1>3. ASSUME NEW i \in Ids, SweepExpire(i) PROVE Core'
  <2>1. UNCHANGED <<dirs, op, up>> /\ w.pc = "sweep" /\ lock = "free" /\ op.pc = "idle" /\ up
    BY <1>0, <1>3 DEF SweepExpire, LockInv
  <2>2. CASE /\ rows' = [rows EXCEPT ![i] = Failed(rows[i])] /\ lock' = "worker" /\ Expirable(i)
             /\ w' = [w EXCEPT !.pc = "files", !.expire = w.expire \ {i}, !.id = i, !.ret = "sweep"]
    <3>1. w'.pc = "files" /\ w'.clean = w.clean /\ w'.id = i
      BY <1>0, <2>2 DEF WorkerStates
    <3>2. LockInv'
      BY <2>1, <2>2, <3>1 DEF LockInv
    <3>3. rows[i].active /\ rows[i].status = "queued"
      BY <2>2 DEF Expirable
    <3>4. /\ rows'[i].status = "failed" /\ rows'[i].artifact = rows[i].artifact
          /\ \A j \in Ids : j # i => rows'[j] = rows[j]
      BY <1>u, <2>2 DEF Failed
    <3> QED BY <1>p, <2>1, <3>1, <3>2, <3>3, <3>4, RowMoved DEF Ended
  <2>3. CASE UNCHANGED <<rows, lock>> /\ w' = [w EXCEPT !.expire = w.expire \ {i}]
    <3>1. w'.pc = w.pc /\ w'.clean = w.clean
      BY <1>0, <2>3 DEF WorkerStates
    <3>2. LockInv'
      BY <1>0, <2>1, <2>3, <3>1 DEF LockInv
    <3> QED BY <1>k, <1>p, <2>1, <2>3, <3>1, <3>2
  <2> QED BY <1>3, <2>2, <2>3 DEF SweepExpire
<1>4. ASSUME EndSweep PROVE Core'
  <2>1. w'.pc = "claim" /\ w'.clean = w.clean /\ UNCHANGED <<rows, dirs, op, up, lock>> /\ w.pc = "sweep"
    BY <1>m, <1>p, <1>4 DEF EndSweep
  <2>2. LockInv' /\ up
    BY <1>0, <1>p, <2>1 DEF LockInv
  <2> QED BY <1>k, <1>p, <2>1, <2>2
<1>5. ASSUME EndPass PROVE Core'
  <2>1. w'.pc = "asleep" /\ w'.clean = {} /\ UNCHANGED <<rows, dirs, op, up, lock>> /\ w.pc = "claim"
    BY <1>5 DEF EndPass, Asleep
  <2>2. LockInv' /\ up
    BY <1>0, <1>p, <2>1 DEF LockInv
  <2> QED BY <1>k, <1>p, <2>1, <2>2
<1>6. ASSUME NEW i \in Ids, Claim(i) PROVE Core'
  <2>1. /\ UNCHANGED <<dirs, op, up, lock>> /\ w.pc = "claim" /\ lock = "free" /\ op.pc = "idle"
        /\ rows' = [rows EXCEPT ![i].status = "validating"] /\ rows[i].status = "queued"
        /\ w'.pc = "verify" /\ w'.clean = w.clean
    BY <1>0, <1>6 DEF Claim, Claimable, LockInv, WorkerStates
  <2>2. LockInv'
    BY <1>0, <1>p, <2>1 DEF LockInv
  <2>3. /\ rows'[i].status = "validating" /\ rows'[i].artifact = rows[i].artifact
        /\ rows'[i].active = rows[i].active /\ rows'[i].cleanup = rows[i].cleanup
        /\ \A j \in Ids : j # i => rows'[j] = rows[j]
    BY <1>u, <2>1
  <2>4. ~rows[i].cleanup
    BY <2>1 DEF Core, Lifecycle
  <2> QED BY <1>p, <2>1, <2>2, <2>3, <2>4, RowMoved DEF Ended
<1>7. ASSUME Verify PROVE Core'
  <2>1. /\ UNCHANGED <<rows, dirs, op, up, lock>> /\ w.pc = "verify"
        /\ w'.pc = "lock" /\ w'.clean = w.clean
    BY <1>0, <1>7 DEF Verify, WorkerStates
  <2>2. LockInv' /\ up
    BY <1>0, <1>p, <2>1 DEF LockInv
  <2> QED BY <1>k, <1>p, <2>1, <2>2
<1>8. ASSUME VerifyFails PROVE Core'
  <2>1. UNCHANGED <<rows, dirs, op, up, lock>> /\ w.pc = "verify" /\ w'.pc = "fail" /\ w'.clean = w.clean
    BY <1>0, <1>m, <1>p, <1>8 DEF VerifyFails
  <2>2. LockInv' /\ up
    BY <1>0, <1>p, <2>1 DEF LockInv
  <2> QED BY <1>k, <1>p, <2>1, <2>2
<1>9. ASSUME LockRelease PROVE Core'
  <2>0. /\ w.id \in Ids /\ w.pc = "lock" /\ lock = "free" /\ op.pc = "idle" /\ up
        /\ UNCHANGED <<dirs, op, up>>
    BY <1>0, <1>p, <1>9 DEF LockRelease, LockInv
  <2>1. CASE /\ StillClaimed(w.id) /\ lock' = "worker" /\ w' = [w EXCEPT !.pc = "unsign"]
             /\ rows' = [rows EXCEPT ![w.id].started = TRUE]
    <3>1. w'.pc = "unsign" /\ w'.id = w.id /\ w'.clean = w.clean
      BY <1>m, <1>p, <2>0, <2>1
    <3>2. LockInv'
      BY <2>0, <2>1, <3>1 DEF LockInv
    <3>3. /\ rows'[w.id].status = rows[w.id].status /\ rows'[w.id].artifact = rows[w.id].artifact
          /\ rows'[w.id].active = rows[w.id].active /\ rows'[w.id].cleanup = rows[w.id].cleanup
          /\ \A j \in Ids : j # w.id => rows'[j] = rows[j]
      BY <1>u, <2>0, <2>1
    <3>5. rows[w.id].active /\ rows[w.id].status = "validating" /\ ~rows[w.id].cleanup
      BY <2>0, <2>1 DEF StillClaimed, Core, Lifecycle
    <3> QED BY <1>p, <2>0, <3>1, <3>2, <3>3, <3>5, RowMoved DEF Ended
  <2>2. CASE UNCHANGED <<rows, lock>> /\ \E x \in {"fail", "claim"} : w' = [w EXCEPT !.pc = x]
    <3>1. w'.pc \in {"fail", "claim"} /\ w'.clean = w.clean
      BY <1>m, <1>p, <2>0, <2>2
    <3>2. LockInv'
      BY <1>p, <2>0, <2>2, <3>1 DEF LockInv
    <3> QED BY <1>k, <1>p, <2>0, <2>2, <3>1, <3>2
  <2>3. CASE /\ rows[w.id].active /\ rows[w.id].cleanup
             /\ lock' = "worker" /\ w' = [w EXCEPT !.pc = "files", !.ret = "claim"] /\ UNCHANGED rows
    <3>1. w'.pc = "files" /\ w'.id = w.id /\ w'.clean = w.clean
      BY <1>m, <1>p, <2>0, <2>3
    <3>2. LockInv'
      BY <2>0, <2>3, <3>1 DEF LockInv
    <3>3. rows[w.id].status \in Ended
      BY <2>0, <2>3 DEF Core, Lifecycle, Ended
    <3> QED BY <1>k, <1>p, <2>0, <2>3, <3>1, <3>2, <3>3
  <2> QED BY <1>9, <2>1, <2>2, <2>3 DEF LockRelease
\* a step of a publication that leaves the releases alone
<1>s. ASSUME w.pc \in PublishPcs, UNCHANGED <<rows, dirs, op, up>>,
             \/ \E x \in PublishPcs : w' = [w EXCEPT !.pc = x] /\ lock' = lock
             \/ w' = [w EXCEPT !.pc = "fail"] /\ lock' = "free"
      PROVE  Core'
  <2>1. w.pc \in LockedPcs /\ w.pc \in BusyPcs /\ w.id \in Ids /\ op.pc = "idle" /\ up
    BY <1>0, <1>p, <1>s DEF LockInv
  <2>2. /\ w'.id = w.id /\ w'.clean = w.clean
        /\ \/ w'.pc = "fail" /\ lock' = "free"
           \/ w'.pc \in PublishPcs /\ lock' = lock
    <3>1. CASE w' = [w EXCEPT !.pc = "fail"] /\ lock' = "free"
      BY <1>0, <3>1 DEF WorkerStates
    <3>2. ASSUME NEW x \in PublishPcs, w' = [w EXCEPT !.pc = x] /\ lock' = lock
          PROVE  w'.pc = x /\ w'.id = w.id /\ w'.clean = w.clean
      BY <1>0, <3>2 DEF WorkerStates
    <3> QED BY <1>s, <3>1, <3>2
  <2>3. LockInv'
    BY <1>0, <1>p, <1>s, <2>1, <2>2 DEF LockInv
  <2> QED BY <1>k, <1>p, <1>s, <2>1, <2>2, <2>3
<1>10. ASSUME PublishUnsign PROVE Core'
  <2>1. \/ w' = [w EXCEPT !.pc = "artifact"] /\ lock' = lock
        \/ w' = [w EXCEPT !.pc = "fail"] /\ lock' = "free"
    BY <1>10 DEF PublishUnsign, PublishFails
  <2>2. w.pc \in PublishPcs /\ UNCHANGED <<rows, dirs, op, up>>
    BY <1>10, <1>p DEF PublishUnsign
  <2> QED BY <1>s, <1>p, <2>1, <2>2
<1>11. ASSUME PublishArtifact PROVE Core'
  <2>1. \/ w' = [w EXCEPT !.pc = "signature"] /\ lock' = lock
        \/ w' = [w EXCEPT !.pc = "fail"] /\ lock' = "free"
    BY <1>11 DEF PublishArtifact, PublishFails
  <2>2. w.pc \in PublishPcs /\ UNCHANGED <<rows, dirs, op, up>>
    BY <1>11, <1>p DEF PublishArtifact
  <2> QED BY <1>s, <1>p, <2>1, <2>2
<1>12. ASSUME PublishSignature PROVE Core'
  <2>1. \/ w' = [w EXCEPT !.pc = "record"] /\ lock' = lock
        \/ w' = [w EXCEPT !.pc = "fail"] /\ lock' = "free"
    BY <1>12 DEF PublishSignature, PublishFails
  <2>2. w.pc \in PublishPcs /\ UNCHANGED <<rows, dirs, op, up>>
    BY <1>12, <1>p DEF PublishSignature
  <2> QED BY <1>s, <1>p, <2>1, <2>2
<1>13. ASSUME PublishRecord PROVE Core'
  <2>1. \/ w' = [w EXCEPT !.pc = "success"] /\ lock' = lock
        \/ w' = [w EXCEPT !.pc = "fail"] /\ lock' = "free"
    BY <1>13 DEF PublishRecord, PublishFails
  <2>2. w.pc \in PublishPcs /\ UNCHANGED <<rows, dirs, op, up>>
    BY <1>13, <1>p DEF PublishRecord
  <2> QED BY <1>s, <1>p, <2>1, <2>2
<1>14. ASSUME PublishSuccess PROVE Core'
  <2>1. /\ w.pc = "success" /\ UNCHANGED <<dirs, op, up>> /\ w.id \in Ids /\ op.pc = "idle" /\ up
        /\ lock = "worker" /\ rows[w.id].status = "validating"
    BY <1>0, <1>p, <1>14 DEF PublishSuccess, LockInv, WorkInv
  <2>2. \/ w' = [w EXCEPT !.pc = "reveal"] /\ lock' = lock
        \/ w' = [w EXCEPT !.pc = "fail"] /\ lock' = "free"
    BY <1>14 DEF PublishSuccess, PublishFails
  <2>3. /\ w'.id = w.id /\ w'.clean = w.clean
        /\ \/ w'.pc = "fail" /\ lock' = "free"
           \/ w'.pc = "reveal" /\ lock' = lock
    <3>2. CASE w' = [w EXCEPT !.pc = "fail"] /\ lock' = "free"
      BY <1>0, <3>2 DEF WorkerStates
    <3>3. CASE w' = [w EXCEPT !.pc = "reveal"] /\ lock' = lock
      BY <1>0, <3>3 DEF WorkerStates
    <3> QED BY <2>2, <3>2, <3>3
  <2>4. LockInv'
    BY <1>p, <2>1, <2>3 DEF LockInv
  <2>5. CASE rows' = rows /\ w'.pc = "fail"
    BY <1>k, <1>p, <2>1, <2>3, <2>4, <2>5
  <2>6. CASE rows' = [rows EXCEPT ![w.id] = Succeeded(rows[w.id])]
    <3>1. /\ rows'[w.id].status = "success" /\ rows'[w.id].artifact = rows[w.id].artifact
          /\ ~rows'[w.id].active /\ \A j \in Ids : j # w.id => rows'[j] = rows[j]
      BY <1>u, <2>1, <2>6 DEF Succeeded
    <3> QED BY <1>p, <2>1, <2>3, <2>4, <3>1, RowMoved DEF Ended
  <2>7. \/ rows' = rows /\ w' = [w EXCEPT !.pc = "fail"]
        \/ rows' = [rows EXCEPT ![w.id] = Succeeded(rows[w.id])]
    BY <1>14 DEF PublishSuccess, PublishFails
  <2>8. w' = [w EXCEPT !.pc = "fail"] => w'.pc = "fail"
    BY <1>m, <1>p, <2>1
  <2> QED BY <2>5, <2>6, <2>7, <2>8
<1>15. ASSUME Reveal PROVE Core'
  <2>1. /\ w.pc = "reveal" /\ UNCHANGED <<rows, dirs, op, up, lock>> /\ w.id \in Ids /\ up
        /\ rows[w.id].status \in Ended
    BY <1>0, <1>p, <1>15 DEF Reveal, LockInv, WorkInv
  <2>2. w'.pc = "files" /\ w'.id = w.id /\ w'.clean = w.clean
    BY <1>m, <1>p, <1>15, <2>1 DEF Reveal
  <2>3. LockInv'
    BY <1>0, <1>p, <2>1, <2>2 DEF LockInv
  <2> QED BY <1>k, <1>p, <2>1, <2>2, <2>3
<1>16. ASSUME FailClaimed PROVE Core'
  <2>0. /\ w.id \in Ids /\ w.pc = "fail" /\ lock = "free" /\ op.pc = "idle" /\ up
        /\ UNCHANGED <<dirs, op, up>>
    BY <1>0, <1>p, <1>16 DEF FailClaimed, LockInv
  <2>1. CASE /\ rows[w.id].active /\ rows[w.id].status = "validating" /\ lock' = "worker"
             /\ rows' = [rows EXCEPT ![w.id] = Failed(rows[w.id])]
             /\ w' = [w EXCEPT !.pc = "files", !.ret = "claim"]
    <3>1. w'.pc = "files" /\ w'.id = w.id /\ w'.clean = w.clean
      BY <1>m, <1>p, <2>0, <2>1
    <3>2. LockInv'
      BY <2>0, <2>1, <3>1 DEF LockInv
    <3>3. /\ rows'[w.id].status = "failed" /\ rows'[w.id].artifact = rows[w.id].artifact
          /\ \A j \in Ids : j # w.id => rows'[j] = rows[j]
      BY <1>u, <2>0, <2>1 DEF Failed
    <3> QED BY <1>p, <2>0, <2>1, <3>1, <3>2, <3>3, RowMoved DEF Ended
  <2>2. CASE /\ rows[w.id].active /\ rows[w.id].cleanup /\ lock' = "worker"
             /\ w' = [w EXCEPT !.pc = "files", !.ret = "claim"] /\ UNCHANGED rows
    <3>1. w'.pc = "files" /\ w'.id = w.id /\ w'.clean = w.clean
      BY <1>m, <1>p, <2>0, <2>2
    <3>2. LockInv'
      BY <2>0, <2>2, <3>1 DEF LockInv
    <3>3. rows[w.id].status \in Ended
      BY <2>0, <2>2 DEF Core, Lifecycle, Ended
    <3> QED BY <1>k, <1>p, <2>0, <2>2, <3>1, <3>2, <3>3
  <2>3. CASE w' = [w EXCEPT !.pc = "claim"] /\ UNCHANGED <<rows, lock>>
    <3>1. w'.pc = "claim" /\ w'.clean = w.clean
      BY <1>m, <1>p, <2>0, <2>3
    <3>2. LockInv'
      BY <1>p, <2>0, <2>3, <3>1 DEF LockInv
    <3> QED BY <1>k, <1>p, <2>0, <2>3, <3>1, <3>2
  <2> QED BY <1>16, <2>1, <2>2, <2>3 DEF FailClaimed
\* a step of a cleanup
<1>c. ASSUME NEW x \in CleanPcs, w.pc \in CleanPcs,
             \/ w' = [w EXCEPT !.pc = x] /\ lock' = lock
             \/ w' = [w EXCEPT !.pc = w.ret] /\ lock' = "free"
      PROVE  /\ w'.clean = w.clean /\ w'.id = w.id /\ w.id \in Ids /\ op.pc = "idle" /\ up
             /\ rows[w.id].status \in Ended /\ w'.pc \notin PublishPcs
             /\ (op' = op /\ up' = up => LockInv')
  <2>1. w.pc \in LockedPcs /\ w.pc \in BusyPcs /\ w.id \in Ids /\ op.pc = "idle" /\ up
        /\ rows[w.id].status \in Ended
    BY <1>0, <1>p, <1>c DEF LockInv, WorkInv, LockedPcs
  <2>2. x \in BusyPcs /\ w.ret \in {"sweep", "claim"} /\ x \notin PublishPcs
    BY <1>p, <1>c, <1>r DEF CleanPcs
  <2>3. /\ w'.id = w.id /\ w'.clean = w.clean
        /\ \/ w'.pc \in {"sweep", "claim"} /\ lock' = "free"
           \/ w'.pc = x /\ lock' = lock
    <3>1. CASE w' = [w EXCEPT !.pc = x] /\ lock' = lock
      BY <1>0, <3>1 DEF WorkerStates
    <3>2. CASE w' = [w EXCEPT !.pc = w.ret] /\ lock' = "free"
      BY <1>0, <2>2, <3>2 DEF WorkerStates
    <3> QED BY <1>c, <3>1, <3>2
  <2> QED BY <1>0, <1>p, <2>1, <2>2, <2>3 DEF LockInv
<1>17. ASSUME CleanFiles PROVE Core'
  <2>1. \/ w' = [w EXCEPT !.pc = "dir"] /\ lock' = lock
        \/ w' = [w EXCEPT !.pc = w.ret] /\ lock' = "free"
    BY <1>17 DEF CleanFiles, CleanupFails
  <2>2. UNCHANGED <<rows, dirs, op, up>> /\ w.pc = "files"
    BY <1>17 DEF CleanFiles
  <2>3. w.pc \in CleanPcs /\ "dir" \in CleanPcs
    BY <2>2 DEF CleanPcs
  <2> QED BY <1>c, <1>k, <2>1, <2>2, <2>3
<1>18. ASSUME CleanDir PROVE Core'
  <2>1. \/ w' = [w EXCEPT !.pc = "save"] /\ lock' = lock
        \/ w' = [w EXCEPT !.pc = w.ret] /\ lock' = "free"
    BY <1>18 DEF CleanDir, CleanupFails
  <2>2. UNCHANGED <<rows, op, up>> /\ w.pc = "dir" /\ (dirs' = dirs \/ dirs' = dirs \ {w.id})
    BY <1>18 DEF CleanDir
  <2>3. w.pc \in CleanPcs /\ "save" \in CleanPcs
    BY <2>2 DEF CleanPcs
  <2>4. /\ w'.clean = w.clean /\ w'.id = w.id /\ op.pc = "idle" /\ LockInv'
        /\ rows[w.id].status \in Ended /\ w'.pc \notin PublishPcs
    BY <1>c, <2>1, <2>2, <2>3
  <2>5. SaveInv' /\ WorkInv'
    BY <1>0, <2>2, <2>4 DEF SaveInv, WorkInv
  <2>6. Lifecycle' /\ OneActiveRelease' /\ StagingKept'
    BY <2>2, <2>4 DEF Core, Lifecycle, OneActiveRelease, StagingKept, Ended
  <2> QED BY <2>4, <2>5, <2>6 DEF Core
<1>19. ASSUME CleanSave PROVE Core'
  <2>1. \/ w' = [w EXCEPT !.pc = "unblock"] /\ lock' = lock
        \/ w' = [w EXCEPT !.pc = w.ret] /\ lock' = "free"
    BY <1>19 DEF CleanSave, CleanupFails
  <2>2. UNCHANGED <<dirs, op, up>> /\ w.pc = "save"
    BY <1>19 DEF CleanSave
  <2>3. w.pc \in CleanPcs /\ "unblock" \in CleanPcs
    BY <2>2 DEF CleanPcs
  <2>4. /\ w'.clean = w.clean /\ w'.id = w.id /\ w.id \in Ids /\ op.pc = "idle" /\ LockInv' /\ up
        /\ rows[w.id].status \in Ended /\ w'.pc \notin PublishPcs
    BY <1>c, <2>1, <2>2, <2>3
  <2>5. CASE rows' = rows
    BY <1>k, <2>2, <2>4, <2>5
  <2>6. CASE rows' = [rows EXCEPT ![w.id].active = FALSE, ![w.id].cleanup = FALSE]
    <3>1. /\ rows'[w.id].status = rows[w.id].status /\ rows'[w.id].artifact = rows[w.id].artifact
          /\ ~rows'[w.id].active /\ ~rows'[w.id].cleanup
          /\ \A j \in Ids : j # w.id => rows'[j] = rows[j]
      BY <1>u, <2>4, <2>6
    <3> QED BY <2>2, <2>4, <3>1, RowMoved DEF Ended
  <2> QED BY <1>19, <2>5, <2>6 DEF CleanSave
<1>20. ASSUME CleanUnblock PROVE Core'
  <2>1. w' = [w EXCEPT !.pc = w.ret] /\ lock' = "free" /\ UNCHANGED <<rows, dirs, op, up>> /\ w.pc = "unblock"
    BY <1>20 DEF CleanUnblock
  <2>2. w.pc \in CleanPcs /\ "unblock" \in CleanPcs
    BY <2>1 DEF CleanPcs
  <2> QED BY <1>c, <1>k, <2>1, <2>2
<1> QED
  BY <1>1, <1>2, <1>3, <1>4, <1>5, <1>6, <1>7, <1>8, <1>9, <1>10, <1>11, <1>12, <1>13, <1>14,
     <1>15, <1>16, <1>17, <1>18, <1>19, <1>20 DEF WorkerNext

\* Every step keeps the inductive invariant.
LEMMA CoreStep == Core /\ [Next]_vars => Core'
<1> SUFFICES ASSUME Core, [Next]_vars PROVE Core'
  OBVIOUS
<1> USE DEF dbVars, fileVars
<1>0. TypeInv'
  BY TypeStep DEF Core
<1>u. rows \in [Ids -> [status : Statuses, artifact : Artifacts \union {None},
                        uploader : Users \union {None}, active : BOOLEAN, require : BOOLEAN,
                        art : Stored, sig : Stored, existed : BOOLEAN, started : BOOLEAN,
                        cleanup : BOOLEAN, age : Ages]]
  BY DEF Core, TypeInv, TypeOK, Rows
<1>1. CASE UNCHANGED vars
  <2>1. UNCHANGED <<rows, dirs, op, lock, up, w>>
    BY <1>1 DEF vars
  <2> QED BY <1>0, <2>1, RowsKept DEF Core, LockInv, WorkInv
<1>2. ASSUME NEW i \in Ids, Elapse(i) PROVE Core'
  <2>1. UNCHANGED <<dirs, op, lock, up, w>> /\ \E g : rows' = [rows EXCEPT ![i].age = g]
    BY <1>2 DEF Elapse
  <2>2. \A j \in Ids : /\ rows'[j].status = rows[j].status /\ rows'[j].active = rows[j].active
                       /\ rows'[j].artifact = rows[j].artifact /\ rows'[j].cleanup = rows[j].cleanup
    BY <1>u, <2>1
  <2>3. LockInv'
    BY <2>1 DEF Core, LockInv
  <2> QED BY <1>0, <2>1, <2>2, <2>3, RowsKept DEF Core, WorkInv
<1>3. CASE Crash
  <2>1. UNCHANGED <<rows, dirs>> /\ op'.pc = "idle" /\ w'.pc = "asleep" /\ w'.clean = {}
    BY <1>3 DEF Crash, NoOp, Asleep
  <2>2. LockInv' /\ w'.pc \notin PublishPcs \union CleanPcs \union {"reveal"}
    BY <2>1 DEF LockInv, LockedPcs, PublishPcs, CleanPcs
  <2> QED BY <1>0, <2>1, <2>2, RowsKept
<1>4. CASE Restore
  <2>1. /\ UNCHANGED <<op, lock, w>> /\ op.pc = "idle" /\ w.pc = "asleep" /\ up'
        /\ dirs' = {i \in dirs : Pending(i)}
    BY <1>4 DEF Restore, Core, LockInv
  <2>2. \A i \in Ids : rows'[i] = IF rows[i].active /\ rows[i].status = "validating"
                                 THEN [rows[i] EXCEPT !.status = "queued"] ELSE rows[i]
    BY <1>4 DEF Restore
  <2>3. \A i \in Ids : /\ rows'[i].active = rows[i].active /\ rows'[i].artifact = rows[i].artifact
                       /\ rows'[i].cleanup = rows[i].cleanup
                       /\ \/ rows'[i].status = rows[i].status
                          \/ rows[i].active /\ rows[i].status = "validating" /\ rows'[i].status = "queued"
    BY <1>u, <2>2
  <2>4. Lifecycle' /\ OneActiveRelease'
    BY <2>3 DEF Core, Lifecycle, OneActiveRelease
  <2>5. StagingKept'
    BY <2>1, <2>3 DEF Core, StagingKept, Pending
  <2>6. LockInv' /\ SaveInv' /\ w.pc \notin PublishPcs \union CleanPcs \union {"reveal"}
    BY <2>1 DEF LockInv, SaveInv, LockedPcs, PublishPcs, CleanPcs
  <2>7. WorkInv'
    <3>1. \A i \in w.clean : i \in Ids /\ rows[i].status \in Ended
      BY DEF Core, WorkInv, TypeInv, TypeOK, WorkerStates
    <3> QED BY <2>1, <2>3, <2>6, <3>1 DEF WorkInv, Ended
  <2> QED BY <1>0, <2>4, <2>5, <2>6, <2>7 DEF Core
<1> QED BY <1>0, <1>1, <1>2, <1>3, <1>4, UploadCore, DeleteCore, RequestCore, WorkerCore DEF Next

\* The inductive invariant holds when the process starts on an empty store.
LEMMA CoreInit == Init => Core
<1> SUFFICES ASSUME Init PROVE Core
  OBVIOUS
<1>1. TypeInv
  BY NoRowType, IdleTypes DEF Init, TypeInv, TypeOK, HasIds, NoOp, Asleep, BusyPcs, PublishPcs, CleanPcs, Stored
<1>2. \A i \in Ids : rows[i].status = "none" /\ ~rows[i].active /\ ~rows[i].cleanup
  BY DEF Init, NoRow
<1>3. op.pc = "idle" /\ w.pc = "asleep" /\ w.clean = {} /\ up
  BY DEF Init, NoOp, Asleep
<1>4. Lifecycle /\ OneActiveRelease /\ StagingKept
  BY <1>2 DEF Lifecycle, OneActiveRelease, StagingKept
<1>5. LockInv /\ SaveInv /\ WorkInv
  BY <1>3 DEF LockInv, SaveInv, WorkInv, LockedPcs, PublishPcs, CleanPcs
<1> QED BY <1>1, <1>4, <1>5 DEF Core

\* Every variable of the publication pipeline keeps its type.
THEOREM TypeCorrect == Spec => []TypeOK
<1>1. Core => TypeOK
  BY DEF Core, TypeInv
<1> QED BY <1>1, CoreInit, CoreStep, PTL DEF Spec

\* No two releases of one artifact are active, however uploads, deletions, the
\* worker, failures and restarts interleave.
THEOREM OneRelease == Spec => []OneActiveRelease
<1>1. Core => OneActiveRelease
  BY DEF Core
<1> QED BY <1>1, CoreInit, CoreStep, PTL DEF Spec

\* The quarantined files of a release that can still be published are kept.
THEOREM StagingSafe == Spec => []StagingKept
<1>1. Core => StagingKept
  BY DEF Core
<1> QED BY <1>1, CoreInit, CoreStep, PTL DEF Spec

\* What a step may do to a release that has failed or succeeded.
EndKept == \A i \in Ids : rows[i].status \in Ended =>
    rows'[i].status = rows[i].status /\ rows'[i].started = rows[i].started

\* One release changes, and it had not ended.
LEMMA EndKeptRow ==
    ASSUME Core, NEW i \in Ids, rows[i].status \notin Ended,
           \A j \in Ids : j # i => rows'[j] = rows[j]
    PROVE  EndKept
BY DEF EndKept

\* Uploads, deletions and the steps that hold the lock leave ended releases ended.
LEMMA EndKeptStep == ASSUME Core, [Next]_vars PROVE EndKept
<1> USE DEF dbVars, fileVars
<1>u. rows \in [Ids -> [status : Statuses, artifact : Artifacts \union {None},
                        uploader : Users \union {None}, active : BOOLEAN, require : BOOLEAN,
                        art : Stored, sig : Stored, existed : BOOLEAN, started : BOOLEAN,
                        cleanup : BOOLEAN, age : Ages]]
  BY DEF Core, TypeInv, TypeOK, Rows
<1>k. rows' = rows => EndKept
  BY DEF EndKept
<1>1. CASE UNCHANGED vars
  BY <1>1, <1>k DEF vars
<1>2. ASSUME NEW i \in Ids, Elapse(i) PROVE EndKept
  BY <1>2, <1>u, EndKeptRow DEF Elapse, Ended
<1>3. CASE Crash
  BY <1>3, <1>k DEF Crash
<1>4. CASE Restore
  BY <1>4, <1>u DEF Restore, EndKept, Ended
<1>5. ASSUME NEW a \in Artifacts, UploadNext(a) PROVE EndKept
  BY <1>5, <1>k DEF UploadNext, BeginPut, AbandonPut, Stage, StageCompanion, DirectUnsign
<1>6. ASSUME NEW D, NEW o, Discard(D, o) PROVE EndKept
  <2>1. PICK F \in SUBSET {i \in Ids : rows[i].active /\ rows[i].artifact \in D} : FailRows(F)
    BY <1>6 DEF Discard
  <2>2. \A i \in Ids : rows[i].active => rows[i].status # "success"
    BY DEF Core, Lifecycle
  <2>3. \A i \in Ids : rows'[i] = IF i \in F THEN Failed(rows[i]) ELSE rows[i]
    BY <2>1 DEF FailRows
  <2>4. \A i \in Ids : Failed(rows[i]).status = "failed" /\ Failed(rows[i]).started = rows[i].started
    BY <1>u DEF Failed
  <2> SUFFICES ASSUME NEW i \in Ids, rows[i].status \in Ended
               PROVE  rows'[i].status = rows[i].status /\ rows'[i].started = rows[i].started
    BY DEF EndKept
  <2>5. CASE i \in F
    <3>1. rows[i].status = "failed"
      BY <2>1, <2>2, <2>5 DEF Ended
    <3> QED BY <2>3, <2>4, <2>5, <3>1
  <2>6. CASE i \notin F
    BY <2>3, <2>6
  <2> QED BY <2>5, <2>6
<1>7. CASE DeleteNext
  BY <1>7, <1>6, <1>k DEF DeleteNext, BeginDelete, BeginDeleteTree, DeleteSignature
<1>8. ASSUME NEW a \in Artifacts, SaveStaged(a) PROVE EndKept
  <2>1. op.pc = "save" /\ op.paths = {a} /\ op.id \in Ids
    BY <1>8 DEF SaveStaged, Core, TypeInv, HasIds
  <2>2. rows[op.id].status \notin Ended
    BY <2>1 DEF Core, SaveInv, Ended
  <2>3. \A j \in Ids : j # op.id => rows'[j] = rows[j]
    BY <1>8, <1>u DEF SaveStaged
  <2> QED BY <2>1, <2>2, <2>3, EndKeptRow
<1>9. CASE RequestNext
  BY <1>9, <1>8, <1>k DEF RequestNext, DirectCommit, DeleteUnsign, DeleteFile, DeleteSiblings,
     DeleteTree, DeleteRecords
<1>10. ASSUME NEW i \in Ids, SweepExpire(i) \/ Claim(i) PROVE EndKept
  <2>1. CASE rows' = rows
    BY <2>1, <1>k
  <2>2. CASE /\ rows[i].status = "queued"
             /\ \A j \in Ids : j # i => rows'[j] = rows[j]
    BY <2>2, EndKeptRow DEF Ended
  <2> QED BY <1>10, <1>u, <2>1, <2>2 DEF SweepExpire, Claim, Expirable, Claimable
<1>11. CASE LockRelease \/ FailClaimed \/ PublishSuccess
  <2>1. w.id \in Ids
    BY <1>11 DEF LockRelease, FailClaimed, PublishSuccess, Core, TypeInv, HasIds, BusyPcs, PublishPcs
  <2>2. CASE rows' = rows
    BY <2>2, <1>k
  <2>3. CASE /\ rows[w.id].status = "validating"
             /\ \A j \in Ids : j # w.id => rows'[j] = rows[j]
    BY <2>1, <2>3, EndKeptRow DEF Ended
  <2>4. w.pc = "success" => rows[w.id].status = "validating"
    BY DEF Core, WorkInv, PublishPcs
  <2> QED BY <1>11, <1>u, <2>1, <2>2, <2>3, <2>4
          DEF LockRelease, FailClaimed, PublishSuccess, StillClaimed
<1>12. CASE CleanSave
  <2>1. w.id \in Ids
    BY <1>12 DEF CleanSave, Core, TypeInv, HasIds, BusyPcs, CleanPcs
  <2> QED BY <1>12, <1>u, <2>1 DEF CleanSave, EndKept
<1>13. CASE StartPass \/ EndSweep \/ EndPass \/ Verify \/ VerifyFails \/ Reveal \/ CleanUnblock
  BY <1>13, <1>k DEF StartPass, EndSweep, EndPass, Verify, VerifyFails, Reveal, CleanUnblock
<1>14. CASE PublishUnsign \/ PublishArtifact \/ PublishSignature \/ PublishRecord \/ CleanFiles \/ CleanDir
  <2>1. rows' = rows
    <3>1. CASE PublishUnsign
      BY <3>1, Zenon DEF PublishUnsign
    <3>2. CASE PublishArtifact
      BY <3>2 DEF PublishArtifact
    <3>3. CASE PublishSignature
      BY <3>3 DEF PublishSignature
    <3>4. CASE PublishRecord
      BY <3>4 DEF PublishRecord
    <3>5. CASE CleanFiles
      BY <3>5 DEF CleanFiles
    <3>6. CASE CleanDir
      BY <3>6 DEF CleanDir
    <3> QED BY <1>14, <3>1, <3>2, <3>3, <3>4, <3>5, <3>6
  <2> QED BY <2>1, <1>k
<1>15. ASSUME NEW i \in Ids, SweepClean(i) PROVE EndKept
  BY <1>15, <1>k DEF SweepClean
<1>16. CASE WorkerNext
  BY <1>16, <1>10, <1>11, <1>12, <1>13, <1>14, <1>15 DEF WorkerNext
<1> QED BY <1>1, <1>2, <1>3, <1>4, <1>5, <1>7, <1>9, <1>16 DEF Next

\* A release that has failed or succeeded stays so and never starts to publish: a
\* deletion that overtakes the verification of a release wins.
THEOREM EndedIsFinal == Spec => TerminalIsFinal
<1>1. Core /\ [Next]_vars =>
        \A i \in Ids : rows[i].status \in {"failed", "success"} =>
           rows'[i].status = rows[i].status /\ rows'[i].started = rows[i].started
  BY EndKeptStep DEF EndKept, Ended
<1> QED BY <1>1, CoreInit, CoreStep, PTL DEF Spec, TerminalIsFinal

(***************************************************************************)
(* Publication                                                             *)
(***************************************************************************)

-----------------------------------------------------------------------------
(* Facts every proof of this module uses.                                  *)

\* The types in the form the provers use them.
LEMMA Shapes ==
    ASSUME Core
    PROVE  /\ rows \in [Ids -> [status : Statuses, artifact : Artifacts \union {None},
                        uploader : Users \union {None}, active : BOOLEAN, require : BOOLEAN,
                        art : Stored, sig : Stored, existed : BOOLEAN, started : BOOLEAN,
                        cleanup : BOOLEAN, age : Ages]]
           /\ w \in [pc : WorkerPcs, clean : SUBSET Ids, expire : SUBSET Ids, id : Ids \union {0},
                     rec : Stored, ret : {"sweep", "claim"}]
           /\ op \in [pc : OpPcs, id : Ids \union {0}, paths : SUBSET Artifacts]
           /\ (w.pc \in BusyPcs => w.id \in Ids) /\ (op.pc = "save" => op.id \in Ids)
BY DEF Core, TypeInv, TypeOK, HasIds, Rows, WorkerStates, Ops

\* The places of the worker and of a request, spelled out.
LEMMA Places ==
    /\ PublishPcs = {"unsign", "artifact", "signature", "record", "success"}
    /\ CleanPcs = {"files", "dir", "save", "unblock"}
    /\ LockedPcs = {"unsign", "artifact", "signature", "record", "success", "files", "dir", "save",
                    "unblock", "reveal"}
    /\ BusyPcs = LockedPcs \union {"verify", "lock", "fail"}
BY DEF LockedPcs, PublishPcs, CleanPcs, BusyPcs

\* A worker at a place that holds the lock has an empty request beside it.
LEMMA LockedAlone ==
    ASSUME Core
    PROVE  /\ lock = "free" => op.pc = "idle" /\ w.pc \notin LockedPcs
           /\ w.pc \in LockedPcs => op.pc = "idle" /\ lock = "worker" /\ up
           /\ op.pc # "idle" => w.pc \notin LockedPcs /\ lock = "request" /\ up
BY Places DEF Core, LockInv

-----------------------------------------------------------------------------
(* What a step does to the table of releases.                              *)

\* Releases keep what they are about: only their progress changes.
SameAbout(i) ==
    /\ rows'[i].artifact = rows[i].artifact /\ rows'[i].uploader = rows[i].uploader
    /\ rows'[i].art = rows[i].art /\ rows'[i].sig = rows[i].sig
    /\ rows'[i].require = rows[i].require /\ rows'[i].existed = rows[i].existed

\* Release i alone changes.
OnlyRow(i) == SameAbout(i) /\ \A j \in Ids : j # i => rows'[j] = rows[j]

\* A release fails and keeps its key until it is cleaned.
RowFails(i) ==
    /\ OnlyRow(i) /\ rows[i].active /\ rows[i].status \in {"queued", "validating"}
    /\ rows'[i].active /\ rows'[i].cleanup /\ rows'[i].status = "failed"
    /\ rows'[i].started = rows[i].started

\* The worker claims a queued release.
RowClaimed(i) ==
    /\ OnlyRow(i) /\ rows[i].status = "queued" /\ rows'[i].status = "validating"
    /\ rows'[i].active = rows[i].active /\ rows'[i].cleanup = rows[i].cleanup
    /\ rows'[i].started = rows[i].started

\* The worker is about to publish.
RowStarted(i) ==
    /\ OnlyRow(i) /\ rows[i].active /\ rows[i].status = "validating"
    /\ rows'[i].status = rows[i].status /\ rows'[i].active /\ rows'[i].cleanup = rows[i].cleanup
    /\ rows'[i].started

\* The release is published.
RowSucceeds(i) ==
    /\ OnlyRow(i) /\ rows[i].active /\ rows[i].status = "validating"
    /\ rows'[i].status = "success" /\ ~rows'[i].active /\ rows'[i].cleanup

\* The cleanup of the release is over.
RowCleaned(i) ==
    /\ OnlyRow(i) /\ rows[i].status \in Ended /\ rows'[i].status = rows[i].status
    /\ ~rows'[i].active /\ ~rows'[i].cleanup /\ rows'[i].started = rows[i].started

\* What the failure and the success of a release write.
LEMMA EndRows ==
    ASSUME Core, NEW i \in Ids
    PROVE  /\ rows' = [rows EXCEPT ![i] = Failed(rows[i])] =>
                /\ OnlyRow(i) /\ rows'[i].active = rows[i].active /\ rows'[i].cleanup
                /\ rows'[i].status = "failed" /\ rows'[i].started = rows[i].started
           /\ rows' = [rows EXCEPT ![i] = Succeeded(rows[i])] =>
                /\ OnlyRow(i) /\ ~rows'[i].active /\ rows'[i].cleanup
                /\ rows'[i].status = "success" /\ rows'[i].started = rows[i].started
<1>1. CASE rows' = [rows EXCEPT ![i] = Failed(rows[i])]
  <2>1. rows'[i] = Failed(rows[i]) /\ \A j \in Ids : j # i => rows'[j] = rows[j]
    BY <1>1, Shapes
  <2>2. /\ Failed(rows[i]).active = rows[i].active /\ Failed(rows[i]).cleanup
        /\ Failed(rows[i]).status = "failed" /\ Failed(rows[i]).started = rows[i].started
        /\ Failed(rows[i]).artifact = rows[i].artifact /\ Failed(rows[i]).uploader = rows[i].uploader
        /\ Failed(rows[i]).art = rows[i].art /\ Failed(rows[i]).sig = rows[i].sig
        /\ Failed(rows[i]).require = rows[i].require /\ Failed(rows[i]).existed = rows[i].existed
    BY Shapes DEF Failed
  <2>3. OnlyRow(i)
    BY <2>1, <2>2 DEF OnlyRow, SameAbout
  <2>4. [rows EXCEPT ![i] = Failed(rows[i])] # [rows EXCEPT ![i] = Succeeded(rows[i])]
    <3>1. Failed(rows[i]).status # Succeeded(rows[i]).status
      BY Shapes DEF Failed, Succeeded
    <3> QED BY <3>1, Shapes
  <2> QED BY <1>1, <2>1, <2>2, <2>3, <2>4
<1>2. CASE rows' = [rows EXCEPT ![i] = Succeeded(rows[i])]
  <2>1. rows'[i] = Succeeded(rows[i]) /\ \A j \in Ids : j # i => rows'[j] = rows[j]
    BY <1>2, Shapes
  <2>2. /\ ~Succeeded(rows[i]).active /\ Succeeded(rows[i]).cleanup
        /\ Succeeded(rows[i]).status = "success" /\ Succeeded(rows[i]).started = rows[i].started
        /\ Succeeded(rows[i]).artifact = rows[i].artifact /\ Succeeded(rows[i]).uploader = rows[i].uploader
        /\ Succeeded(rows[i]).art = rows[i].art /\ Succeeded(rows[i]).sig = rows[i].sig
        /\ Succeeded(rows[i]).require = rows[i].require /\ Succeeded(rows[i]).existed = rows[i].existed
    BY Shapes DEF Succeeded
  <2>3. OnlyRow(i)
    BY <2>1, <2>2 DEF OnlyRow, SameAbout
  <2>4. [rows EXCEPT ![i] = Failed(rows[i])] # [rows EXCEPT ![i] = Succeeded(rows[i])]
    <3>1. Failed(rows[i]).status # Succeeded(rows[i]).status
      BY Shapes DEF Failed, Succeeded
    <3> QED BY <3>1, Shapes
  <2> QED BY <1>2, <2>1, <2>2, <2>3, <2>4
<1> QED BY <1>1, <1>2

\* Every step of the worker changes one release at most, in one of these ways.
LEMMA WorkerRow ==
    ASSUME Core, WorkerNext
    PROVE  \/ rows' = rows
           \/ \E i \in Ids : \/ w.pc = "sweep" /\ lock = "free" /\ RowFails(i)
                             \/ w.pc = "claim" /\ lock = "free" /\ RowClaimed(i)
           \/ /\ w.id \in Ids
              /\ \/ w.pc = "lock" /\ lock = "free" /\ RowStarted(w.id)
                 \/ w.pc = "fail" /\ lock = "free" /\ RowFails(w.id)
                 \/ w.pc = "success" /\ RowSucceeds(w.id)
                 \/ w.pc = "save" /\ RowCleaned(w.id)
<1> USE DEF dbVars, fileVars
<1>1. CASE StartPass \/ EndSweep \/ EndPass \/ Verify \/ VerifyFails \/ Reveal \/ CleanUnblock
  BY <1>1 DEF StartPass, EndSweep, EndPass, Verify, VerifyFails, Reveal, CleanUnblock
<1>2. CASE PublishUnsign \/ PublishArtifact \/ PublishSignature \/ PublishRecord \/ CleanFiles \/ CleanDir
  BY <1>2, Zenon DEF PublishUnsign, PublishArtifact, PublishSignature, PublishRecord, CleanFiles, CleanDir
<1>3. ASSUME NEW i \in Ids, SweepClean(i) PROVE rows' = rows
  BY <1>3 DEF SweepClean
<1>4. ASSUME NEW i \in Ids, SweepExpire(i) PROVE rows' = rows \/ (w.pc = "sweep" /\ lock = "free" /\ RowFails(i))
  BY <1>4, EndRows DEF SweepExpire, Expirable, RowFails
<1>5. ASSUME NEW i \in Ids, Claim(i) PROVE w.pc = "claim" /\ lock = "free" /\ RowClaimed(i)
  BY <1>5, Shapes DEF Claim, Claimable, RowClaimed, OnlyRow, SameAbout
<1>6. CASE LockRelease
  <2>1. w.id \in Ids
    BY <1>6, Shapes, Places DEF LockRelease
  <2> QED BY <1>6, <2>1, Shapes DEF LockRelease, StillClaimed, RowStarted, OnlyRow, SameAbout
<1>7. CASE PublishSuccess
  <2>1. w.id \in Ids /\ w.pc = "success" /\ rows[w.id].active /\ rows[w.id].status = "validating"
    BY <1>7, Shapes, Places DEF PublishSuccess, Core, WorkInv
  <2>2. rows' = rows \/ rows' = [rows EXCEPT ![w.id] = Succeeded(rows[w.id])]
    BY <1>7 DEF PublishSuccess
  <2> QED BY <2>1, <2>2, EndRows DEF RowSucceeds
<1>8. CASE FailClaimed
  <2>1. w.id \in Ids
    BY <1>8, Shapes, Places DEF FailClaimed
  <2> QED BY <1>8, <2>1, EndRows DEF FailClaimed, RowFails
<1>9. CASE CleanSave
  <2>1. w.id \in Ids /\ w.pc = "save" /\ rows[w.id].status \in Ended
    BY <1>9, Shapes, Places DEF CleanSave, Core, WorkInv
  <2> QED BY <1>9, <2>1, Shapes DEF CleanSave, RowCleaned, OnlyRow, SameAbout
<1> QED BY <1>1, <1>2, <1>3, <1>4, <1>5, <1>6, <1>7, <1>8, <1>9 DEF WorkerNext

\* A deletion fails active releases of what it deletes.
LEMMA DiscardRows ==
    ASSUME Core, NEW D, NEW o, Discard(D, o)
    PROVE  \A i \in Ids :
             \/ rows'[i] = rows[i]
             \/ /\ SameAbout(i) /\ rows[i].active /\ rows'[i].active /\ rows'[i].cleanup
                /\ rows'[i].status = "failed" /\ rows'[i].started = rows[i].started
                /\ rows[i].artifact \in D
<1>1. PICK F \in SUBSET {i \in Ids : rows[i].active /\ rows[i].artifact \in D} : FailRows(F)
  BY DEF Discard
<1>2. ASSUME NEW i \in Ids
      PROVE  LET r == Failed(rows[i])
             IN  /\ r.artifact = rows[i].artifact /\ r.uploader = rows[i].uploader
                 /\ r.art = rows[i].art /\ r.sig = rows[i].sig
                 /\ r.require = rows[i].require /\ r.existed = rows[i].existed
                 /\ r.active = rows[i].active /\ r.cleanup
                 /\ r.status = "failed" /\ r.started = rows[i].started
  BY Shapes DEF Failed
<1>3. \A i \in Ids : rows'[i] = IF i \in F THEN Failed(rows[i]) ELSE rows[i]
  BY <1>1 DEF FailRows
<1> QED BY <1>1, <1>2, <1>3 DEF SameAbout

\* A request saves a release of its own artifact.
LEMMA SaveRows ==
    ASSUME Core, NEW a \in Artifacts, SaveStaged(a)
    PROVE  /\ op.pc = "save" /\ op.paths = {a} /\ op.id \in Ids
           /\ \/ rows' = rows /\ blocked' = blocked
              \/ /\ \A j \in Ids : j # op.id => rows'[j] = rows[j]
                 /\ rows'[op.id].status = "queued" /\ rows'[op.id].active /\ ~rows'[op.id].cleanup
                 /\ rows'[op.id].artifact = a
                 /\ rows'[op.id].uploader = IF rows[op.id].status = "none" THEN put[a].user
                                            ELSE rows[op.id].uploader
                 /\ rows'[op.id].require \in BOOLEAN
                 /\ RequireGPG /\ rows'[op.id].art # None =>
                       rows'[op.id].require \/ (rows[op.id].art # None /\ rows'[op.id].require = rows[op.id].require)
                 /\ blocked' = blocked \union {a}
<1> DEFINE r == IF rows[op.id].status = "none" THEN NewRow(a, put[a].user) ELSE rows[op.id]
           x == StagedRow(r, put[a], art[a] # None)
<1>0. op.pc = "save" /\ op.paths = {a} /\ op.id \in Ids
  BY Shapes DEF SaveStaged
<1>1. (rows' = rows /\ blocked' = blocked) \/ (rows' = [rows EXCEPT ![op.id] = x] /\ blocked' = blocked \union {a})
  BY DEF SaveStaged
<1>2. put[a] \in Puts /\ put[a].user \in Users \union {None} /\ rows[op.id] \in Rows
  BY <1>0 DEF Core, TypeInv, TypeOK, Puts
<1>3. r \in Rows
  BY <1>2, NewRowType
<1>4. /\ r.status = "queued" /\ r.active /\ ~r.cleanup /\ r.artifact = a
      /\ r.uploader = IF rows[op.id].status = "none" THEN put[a].user ELSE rows[op.id].uploader
      /\ r.art # None => r.art = rows[op.id].art /\ r.require = rows[op.id].require
  <2>1. CASE rows[op.id].status = "none"
    BY <2>1 DEF NewRow, NoRow
  <2>2. CASE rows[op.id].status # "none"
    BY <2>2, <1>0 DEF Core, SaveInv, Lifecycle
  <2> QED BY <2>1, <2>2
<1> HIDE DEF r
<1>5. x \in Rows
  BY <1>2, <1>3, StagedRowType
<1>6. /\ x.status = r.status /\ x.active = r.active /\ x.cleanup = r.cleanup
      /\ x.artifact = r.artifact /\ x.uploader = r.uploader
  BY <1>3 DEF StagedRow, Rows
<1>7. RequireGPG /\ x.art # None => x.require \/ (r.art # None /\ x.require = r.require)
  BY <1>2, <1>3 DEF StagedRow, Rows, Puts, Kinds
<1>8. x.require \in BOOLEAN
  BY <1>5 DEF Rows
<1> HIDE DEF x
<1>9. CASE rows' = [rows EXCEPT ![op.id] = x] /\ blocked' = blocked \union {a}
  <2>1. rows'[op.id] = x /\ \A j \in Ids : j # op.id => rows'[j] = rows[j]
    BY <1>0, <1>9, Shapes
  <2> QED BY <1>0, <1>4, <1>6, <1>7, <1>8, <1>9, <2>1
<1> QED BY <1>0, <1>1, <1>9

-----------------------------------------------------------------------------
(* Hidden artifacts.                                                       *)

\* While the process runs a hidden artifact belongs to a release that is pending,
\* or to the one whose cleanup is about to reveal it.
HiddenInv == up => \A a \in blocked :
    \/ \E i \in Ids : Pending(i) /\ rows[i].artifact = a
    \/ w.pc = "unblock" /\ rows[w.id].artifact = a

\* A step that hides nothing and keeps pending releases pending.
LEMMA HiddenKept ==
    ASSUME HiddenInv, up, blocked' \subseteq blocked, w.pc = "unblock" => w.id \in Ids,
           \A i \in Ids : rows'[i].artifact = rows[i].artifact /\ (Pending(i) => Pending(i)'),
           w.pc = "unblock" => w' = w
    PROVE  HiddenInv'
BY DEF HiddenInv

\* Uploads keep the reasons of hidden artifacts.
LEMMA UploadHidden == ASSUME Core, HiddenInv, NEW a \in Artifacts, UploadNext(a) PROVE HiddenInv'
<1> USE DEF dbVars, fileVars
<1>0. w.pc = "unblock" => w.id \in Ids
  BY Shapes, Places
<1>1. ASSUME NEW k \in Kinds, NEW u \in Users, NEW c \in Contents, NEW e \in BOOLEAN,
             BeginPut(a, k, u, c, e)
      PROVE  HiddenInv'
  BY <1>0, <1>1, HiddenKept DEF BeginPut, Pending
<1>2. CASE AbandonPut(a)
  BY <1>0, <1>2, HiddenKept DEF AbandonPut, Pending
<1>3. ASSUME NEW i \in Ids, Stage(a, i) PROVE HiddenInv'
  BY <1>0, <1>3, HiddenKept DEF Stage, Pending
<1>4. ASSUME NEW i \in Ids, StageCompanion(a, i) PROVE HiddenInv'
  <2>1. UNCHANGED <<rows, w, up>> /\ blocked' = blocked \union {a} /\ up
    BY <1>4 DEF StageCompanion
  <2>2. Pending(i) /\ rows[i].artifact = a
    BY <1>4 DEF StageCompanion, Active, Pending
  <2> QED BY <2>1, <2>2 DEF HiddenInv, Pending
<1>5. CASE DirectUnsign(a)
  BY <1>0, <1>5, HiddenKept DEF DirectUnsign, Pending
<1> QED BY <1>1, <1>2, <1>3, <1>4, <1>5 DEF UploadNext

\* Discarding releases keeps them pending.
LEMMA DeleteHidden == ASSUME Core, HiddenInv, DeleteNext PROVE HiddenInv'
<1> USE DEF dbVars, fileVars
<1>0. w.pc = "unblock" => w.id \in Ids
  BY Shapes, Places
<1>1. ASSUME NEW D, NEW o, Discard(D, o), up, UNCHANGED <<blocked, up, w>> PROVE HiddenInv'
  <2>1. ASSUME NEW i \in Ids
        PROVE  \/ rows'[i] = rows[i]
               \/ rows'[i].artifact = rows[i].artifact /\ rows'[i].active /\ rows'[i].cleanup
    BY <1>1, DiscardRows DEF Core, SameAbout
  <2>2. \A i \in Ids : rows'[i].artifact = rows[i].artifact /\ (Pending(i) => Pending(i)')
    BY <2>1 DEF Pending
  <2> QED BY <1>0, <1>1, <2>2, HiddenKept
<1>2. ASSUME NEW a \in Artifacts, BeginDelete(a) PROVE HiddenInv'
  BY <1>1, <1>2 DEF BeginDelete
<1>3. ASSUME NEW D \in SUBSET Artifacts, BeginDeleteTree(D) PROVE HiddenInv'
  BY <1>1, <1>3 DEF BeginDeleteTree
<1>4. ASSUME NEW a \in Artifacts, DeleteSignature(a) PROVE HiddenInv'
  BY <1>0, <1>4, HiddenKept DEF DeleteSignature, Pending
<1> QED BY <1>2, <1>3, <1>4 DEF DeleteNext

\* A saved release is pending; the other steps under the lock hide nothing.
LEMMA RequestHidden == ASSUME Core, HiddenInv, RequestNext PROVE HiddenInv'
<1> USE DEF dbVars, fileVars
<1>0. (w.pc = "unblock" => w.id \in Ids) /\ (op.pc # "idle" => up /\ w.pc # "unblock")
  BY Shapes, Places, LockedAlone
<1>1. ASSUME NEW a \in Artifacts, SaveStaged(a) PROVE HiddenInv'
  <2>0. w' = w /\ up' = up /\ up /\ w.pc # "unblock"
    BY <1>0, <1>1, SaveRows DEF SaveStaged
  <2>1. CASE rows' = rows /\ blocked' = blocked
    BY <2>0, <2>1 DEF HiddenInv, Pending
  <2>2. CASE /\ blocked' = blocked \union {a}
             /\ rows'[op.id].active /\ rows'[op.id].artifact = a
             /\ \A j \in Ids : j # op.id => rows'[j] = rows[j]
    <3>1. rows[op.id].artifact = a \/ ~Pending(op.id)
      BY <1>1, SaveRows DEF Core, SaveInv, Lifecycle, Pending
    <3> QED BY <1>1, <2>0, <2>2, <3>1, SaveRows DEF HiddenInv, Pending
  <2> QED BY <1>1, <2>1, <2>2, SaveRows
<1>2. ASSUME op.pc # "idle", UNCHANGED <<rows, blocked, up, w>> PROVE HiddenInv'
  BY <1>2 DEF HiddenInv, Pending
<1>3. ASSUME NEW a \in Artifacts, DirectCommit(a) PROVE HiddenInv'
  BY <1>2, <1>3 DEF DirectCommit
<1>4. ASSUME NEW a \in Artifacts, DeleteUnsign(a) PROVE HiddenInv'
  BY <1>2, <1>4 DEF DeleteUnsign
<1>5. ASSUME NEW a \in Artifacts, DeleteFile(a) PROVE HiddenInv'
  BY <1>2, <1>5 DEF DeleteFile
<1>6. ASSUME NEW a \in Artifacts, DeleteSiblings(a) PROVE HiddenInv'
  BY <1>2, <1>6 DEF DeleteSiblings
<1>7. CASE DeleteTree
  BY <1>2, <1>7 DEF DeleteTree
<1>8. CASE DeleteRecords
  BY <1>2, <1>8 DEF DeleteRecords
<1> QED BY <1>1, <1>3, <1>4, <1>5, <1>6, <1>7, <1>8 DEF RequestNext

\* The worker reveals an artifact only when its release is no longer pending.
LEMMA WorkerHidden == ASSUME Core, HiddenInv, WorkerNext PROVE HiddenInv'
<1> USE DEF dbVars, fileVars
<1>0. (w.pc \in BusyPcs => w.id \in Ids) /\ (w.pc # "asleep" => up)
  BY Shapes DEF Core, LockInv
\* a step that changes the state of one release at most
<1>k. ASSUME w.pc # "unblock", up, blocked' \subseteq blocked,
             \A i \in Ids : rows'[i].artifact = rows[i].artifact /\ (Pending(i) => Pending(i)')
      PROVE  HiddenInv'
  BY <1>k DEF HiddenInv
<1>1. CASE StartPass \/ EndSweep \/ EndPass \/ Verify \/ VerifyFails \/ Reveal
  <2>1. UNCHANGED rows /\ blocked' \subseteq blocked /\ w.pc # "unblock" /\ up
    BY <1>0, <1>1 DEF StartPass, EndSweep, EndPass, Verify, VerifyFails, Reveal
  <2> QED BY <1>k, <2>1 DEF Pending
<1>2. CASE PublishUnsign \/ PublishArtifact \/ PublishSignature \/ PublishRecord \/ CleanFiles \/ CleanDir
  <2>1. UNCHANGED <<rows, blocked>> /\ w.pc # "unblock" /\ up
    BY <1>0, <1>2, Zenon DEF PublishUnsign, PublishArtifact, PublishSignature, PublishRecord, CleanFiles, CleanDir
  <2> QED BY <1>k, <2>1 DEF Pending
<1>3. ASSUME NEW i \in Ids, SweepClean(i) \/ SweepExpire(i) \/ Claim(i) PROVE HiddenInv'
  <2>1. UNCHANGED blocked /\ w.pc \in {"sweep", "claim"} /\ up
    BY <1>0, <1>3 DEF SweepClean, SweepExpire, Claim
  <2>2. \A j \in Ids : rows'[j].artifact = rows[j].artifact /\ (Pending(j) => Pending(j)')
    BY <2>1, WorkerRow DEF Pending, RowFails, RowClaimed, OnlyRow, SameAbout
  <2> QED BY <1>k, <2>1, <2>2
<1>4. CASE LockRelease \/ FailClaimed \/ PublishSuccess
  <2>1. UNCHANGED blocked /\ w.pc \in {"lock", "fail", "success"} /\ up
    BY <1>0, <1>4 DEF LockRelease, FailClaimed, PublishSuccess
  <2>2. \A j \in Ids : rows'[j].artifact = rows[j].artifact /\ (Pending(j) => Pending(j)')
    BY <2>1, WorkerRow DEF Pending, RowStarted, RowFails, RowSucceeds, OnlyRow, SameAbout
  <2> QED BY <1>k, <2>1, <2>2
<1>5. CASE CleanSave
  <2>1. w.pc = "save" /\ w.id \in Ids /\ up /\ blocked' = blocked
    BY <1>0, <1>5, Places DEF CleanSave
  <2>2. CASE rows' = rows
    BY <1>k, <2>1, <2>2 DEF Pending
  <2>3. CASE /\ rows' = [rows EXCEPT ![w.id].active = FALSE, ![w.id].cleanup = FALSE]
             /\ w' = [w EXCEPT !.pc = "unblock"]
    <3>1. w'.pc = "unblock" /\ w'.id = w.id
      BY <2>3, Shapes
    <3>2. /\ rows'[w.id].artifact = rows[w.id].artifact
          /\ \A j \in Ids : j # w.id => rows'[j] = rows[j]
      BY <2>1, <2>3, Shapes
    <3> QED BY <1>0, <2>1, <3>1, <3>2 DEF HiddenInv, Pending
  <2> QED BY <1>5, <2>2, <2>3 DEF CleanSave
<1>6. CASE CleanUnblock
  BY <1>6 DEF CleanUnblock, HiddenInv, Pending
<1> QED BY <1>1, <1>2, <1>3, <1>4, <1>5, <1>6 DEF WorkerNext

\* Every step keeps the reasons of hidden artifacts.
LEMMA HiddenStep == ASSUME Core, HiddenInv, [Next]_vars PROVE HiddenInv'
<1>1. CASE UNCHANGED vars
  BY <1>1 DEF vars, HiddenInv, Pending
<1>2. ASSUME NEW i \in Ids, Elapse(i) PROVE HiddenInv'
  <2>1. UNCHANGED <<blocked, up, w>>
    BY <1>2 DEF Elapse
  <2>2. /\ w.pc = "unblock" => w.id \in Ids
        /\ \A j \in Ids : rows'[j].artifact = rows[j].artifact /\ (Pending(j) => Pending(j)')
    BY <1>2, Shapes, Places DEF Elapse, Pending
  <2> QED BY <2>1, <2>2, HiddenKept DEF HiddenInv
<1>3. CASE Crash
  BY <1>3 DEF Crash, HiddenInv
<1>4. CASE Restore
  <2>1. \A i \in Ids : rows'[i].artifact = rows[i].artifact /\ (Pending(i) => Pending(i)')
    BY <1>4, Shapes DEF Restore, Pending
  <2>2. \A a \in blocked' : \E i \in Ids : Pending(i) /\ rows[i].artifact = a
    BY <1>4 DEF Restore
  <2> QED BY <2>1, <2>2 DEF HiddenInv
<1> QED BY <1>1, <1>2, <1>3, <1>4, UploadHidden, DeleteHidden, RequestHidden, WorkerHidden DEF Next

-----------------------------------------------------------------------------
(* The queue limits.                                                       *)

\* The releases that count against the limits.
ActiveRows == {i \in Ids : rows[i].active}
ActiveOf(u) == {i \in Ids : rows[i].active /\ rows[i].uploader = u}

\* A request about to save a new release still holds its upload, and the limits
\* it looked at still have room.
LimitInv == \A a \in Artifacts : op.pc = "save" /\ op.paths = {a} =>
    /\ put[a].pc = "body"
    /\ rows[op.id].status = "none" => UnderLimits(put[a].user)

\* Sets of releases are finite.
LEMMA IdsFinite == \A S \in SUBSET Ids : IsFiniteSet(S) /\ Cardinality(S) \in Nat
<1>1. IsFiniteSet(Ids)
  BY FS_Interval, BoundsAssumption DEF Ids
<1> QED BY <1>1, FS_Subset, FS_CardinalityType

\* A step that makes no release active keeps the limits.
LEMMA CountsShrink ==
    ASSUME PendingBounded,
           \A i \in Ids : rows'[i].active => rows[i].active /\ rows'[i].uploader = rows[i].uploader
    PROVE  PendingBounded'
<1>1. ActiveRows' \subseteq ActiveRows /\ \A u : ActiveOf(u)' \subseteq ActiveOf(u)
  BY DEF ActiveRows, ActiveOf
<1>2. ActiveRows \in SUBSET Ids /\ ActiveRows' \in SUBSET Ids
  BY DEF ActiveRows
<1>3. \A u : ActiveOf(u) \in SUBSET Ids /\ ActiveOf(u)' \in SUBSET Ids
  BY DEF ActiveOf
<1>4. \A S, T \in SUBSET Ids : S \subseteq T => Cardinality(S) <= Cardinality(T)
  BY IdsFinite, FS_Subset
<1>5. /\ Cardinality(ActiveRows) <= MaxPending
      /\ \A u \in Users : Cardinality(ActiveOf(u)) <= MaxPendingPerUser
  BY DEF PendingBounded, ActiveRows, ActiveOf
<1>6. /\ Cardinality(ActiveRows') <= Cardinality(ActiveRows)
      /\ \A u : Cardinality(ActiveOf(u)') <= Cardinality(ActiveOf(u))
  BY <1>1, <1>2, <1>3, <1>4
<1>7. /\ Cardinality(ActiveRows') <= MaxPending
      /\ \A u \in Users : Cardinality(ActiveOf(u)') <= MaxPendingPerUser
  <2>1. Cardinality(ActiveRows) \in Nat /\ Cardinality(ActiveRows') \in Nat
    BY <1>2, IdsFinite
  <2>2. \A u : Cardinality(ActiveOf(u)) \in Nat /\ Cardinality(ActiveOf(u)') \in Nat
    BY <1>3, IdsFinite
  <2> QED BY <1>5, <1>6, <2>1, <2>2, BoundsAssumption
<1> QED BY <1>7 DEF PendingBounded, ActiveRows, ActiveOf

\* A new release within the limits.
LEMMA CountsGrow ==
    ASSUME PendingBounded, NEW i \in Ids, NEW v, UnderLimits(v), rows'[i].uploader = v,
           \A j \in Ids : j # i => rows'[j] = rows[j]
    PROVE  PendingBounded'
<1>1. ActiveRows' \subseteq ActiveRows \union {i} /\ \A u : ActiveOf(u)' \subseteq ActiveOf(u) \union {i}
  BY DEF ActiveRows, ActiveOf
<1>2. \A u : u # v => ActiveOf(u)' \subseteq ActiveOf(u)
  BY DEF ActiveOf
<1>3. ActiveRows \in SUBSET Ids /\ ActiveRows' \in SUBSET Ids
  BY DEF ActiveRows
<1>4. \A u : ActiveOf(u) \in SUBSET Ids /\ ActiveOf(u)' \in SUBSET Ids
  BY DEF ActiveOf
<1>5. \A S, T \in SUBSET Ids : S \subseteq T => Cardinality(S) <= Cardinality(T)
  BY IdsFinite, FS_Subset
<1>6. \A S, T \in SUBSET Ids : S \subseteq T \union {i} => Cardinality(S) <= Cardinality(T) + 1
  <2> SUFFICES ASSUME NEW S \in SUBSET Ids, NEW T \in SUBSET Ids, S \subseteq T \union {i}
               PROVE  Cardinality(S) <= Cardinality(T) + 1
    OBVIOUS
  <2>1. T \union {i} \in SUBSET Ids
    OBVIOUS
  <2>2. Cardinality(T \union {i}) = Cardinality(T) \/ Cardinality(T \union {i}) = Cardinality(T) + 1
    BY IdsFinite, FS_AddElement
  <2>3. Cardinality(S) <= Cardinality(T \union {i})
    BY <1>5, <2>1
  <2> QED BY <2>1, <2>2, <2>3, IdsFinite
<1>7. /\ Cardinality(ActiveRows) < MaxPending /\ Cardinality(ActiveOf(v)) < MaxPendingPerUser
      /\ \A u \in Users : Cardinality(ActiveOf(u)) <= MaxPendingPerUser
  BY DEF UnderLimits, PendingBounded, ActiveRows, ActiveOf
<1>8. Cardinality(ActiveRows') <= MaxPending
  <2>1. Cardinality(ActiveRows') <= Cardinality(ActiveRows) + 1
    BY <1>1, <1>3, <1>6
  <2> QED BY <1>3, <1>7, <2>1, IdsFinite, BoundsAssumption
<1>9. ASSUME NEW u \in Users PROVE Cardinality(ActiveOf(u)') <= MaxPendingPerUser
  <2>1. Cardinality(ActiveOf(u)) \in Nat /\ Cardinality(ActiveOf(u)') \in Nat
    BY <1>4, IdsFinite
  <2>2. CASE u = v
    <3>1. Cardinality(ActiveOf(u)') <= Cardinality(ActiveOf(u)) + 1
      BY <1>1, <1>4, <1>6
    <3> QED BY <1>7, <2>1, <2>2, <3>1, BoundsAssumption
  <2>3. CASE u # v
    <3>1. Cardinality(ActiveOf(u)') <= Cardinality(ActiveOf(u))
      BY <1>2, <1>4, <1>5, <2>3
    <3> QED BY <1>7, <2>1, <3>1, BoundsAssumption
  <2> QED BY <2>2, <2>3
<1> QED BY <1>8, <1>9 DEF PendingBounded, ActiveRows, ActiveOf

\* The worker touches no upload and no request.
LEMMA WorkerLeaves == ASSUME WorkerNext PROVE UNCHANGED <<put, op, up>>
<1> USE DEF dbVars, fileVars
<1>1. CASE StartPass \/ EndSweep \/ EndPass \/ Verify \/ VerifyFails \/ Reveal \/ CleanUnblock
  BY <1>1, Zenon DEF StartPass, EndSweep, EndPass, Verify, VerifyFails, Reveal, CleanUnblock
<1>2. CASE PublishUnsign \/ PublishArtifact \/ PublishSignature \/ PublishRecord \/ CleanFiles \/ CleanDir
  BY <1>2, Zenon DEF PublishUnsign, PublishArtifact, PublishSignature, PublishRecord, CleanFiles, CleanDir
<1>3. ASSUME NEW i \in Ids, SweepClean(i) \/ SweepExpire(i) \/ Claim(i) PROVE UNCHANGED <<put, op, up>>
  BY <1>3, Zenon DEF SweepClean, SweepExpire, Claim
<1>4. CASE LockRelease \/ FailClaimed \/ PublishSuccess \/ CleanSave
  BY <1>4, Zenon DEF LockRelease, FailClaimed, PublishSuccess, CleanSave
<1> QED BY <1>1, <1>2, <1>3, <1>4 DEF WorkerNext

\* The steps of a request other than the save leave the table alone.
LEMMA RequestRows ==
    ASSUME RequestNext PROVE UNCHANGED <<rows, up, w>> \/ \E a \in Artifacts : SaveStaged(a)
<1> USE DEF dbVars, fileVars
<1>1. ASSUME NEW a \in Artifacts, DirectCommit(a) PROVE UNCHANGED <<rows, up, w>>
  BY <1>1 DEF DirectCommit
<1>2. ASSUME NEW a \in Artifacts, DeleteUnsign(a) PROVE UNCHANGED <<rows, up, w>>
  BY <1>2 DEF DeleteUnsign
<1>3. ASSUME NEW a \in Artifacts, DeleteFile(a) \/ DeleteSiblings(a) PROVE UNCHANGED <<rows, up, w>>
  BY <1>3, Zenon DEF DeleteFile, DeleteSiblings
<1>4. CASE DeleteTree \/ DeleteRecords
  BY <1>4, Zenon DEF DeleteTree, DeleteRecords
<1> QED BY <1>1, <1>2, <1>3, <1>4 DEF RequestNext

\* Every step keeps the limits.
LEMMA LimitStep ==
    ASSUME Core, LimitInv, PendingBounded, [Next]_vars PROVE LimitInv' /\ PendingBounded'
<1> USE DEF dbVars, fileVars
<1>k. ASSUME \A i \in Ids : rows'[i].active = rows[i].active /\ rows'[i].uploader = rows[i].uploader
      PROVE  PendingBounded' /\ \A u : UnderLimits(u)' <=> UnderLimits(u)
  BY <1>k, CountsShrink DEF UnderLimits
\* the request in flight goes on as before
<1>l. ASSUME op.pc = "save" => op' = op /\ (\A a \in Artifacts : op.paths = {a} => put'[a] = put[a]),
             op'.pc = "save" => op.pc = "save",
             \A i \in Ids : /\ rows'[i].active = rows[i].active /\ rows'[i].uploader = rows[i].uploader
                            /\ rows'[i].status = "none" => rows[i].status = "none"
      PROVE  LimitInv' /\ PendingBounded'
  <2>1. PendingBounded' /\ \A u : UnderLimits(u)' <=> UnderLimits(u)
    BY <1>k, <1>l
  <2>2. op.pc = "save" => op.id \in Ids
    BY Shapes
  <2> QED BY <1>l, <2>1, <2>2 DEF LimitInv
<1>1. CASE UNCHANGED vars
  BY <1>1, <1>l DEF vars
<1>2. ASSUME NEW i \in Ids, Elapse(i) PROVE LimitInv' /\ PendingBounded'
  <2>1. UNCHANGED <<put, op>>
    BY <1>2 DEF Elapse
  <2>2. \A j \in Ids : /\ rows'[j].active = rows[j].active /\ rows'[j].uploader = rows[j].uploader
                       /\ rows'[j].status = rows[j].status
    BY <1>2, Shapes DEF Elapse
  <2> QED BY <2>1, <2>2, <1>l
<1>3. CASE Crash
  <2>1. UNCHANGED rows /\ op'.pc = "idle"
    BY <1>3 DEF Crash, NoOp
  <2> QED BY <2>1, CountsShrink DEF LimitInv
<1>4. CASE Restore
  <2>1. UNCHANGED op /\ op.pc = "idle"
    BY <1>4, LockedAlone DEF Restore
  <2>2. \A j \in Ids : rows'[j].active = rows[j].active /\ rows'[j].uploader = rows[j].uploader
    BY <1>4, Shapes DEF Restore
  <2> QED BY <2>1, <2>2, CountsShrink DEF LimitInv
<1>5. ASSUME NEW a \in Artifacts, UploadNext(a) PROVE LimitInv' /\ PendingBounded'
  <2>0. put \in [Artifacts -> Puts]
    BY DEF Core, TypeInv, TypeOK
  <2>1. ASSUME NEW k \in Kinds, NEW u \in Users, NEW c \in Contents, NEW e \in BOOLEAN,
               BeginPut(a, k, u, c, e)
        PROVE  LimitInv' /\ PendingBounded'
    <3>1. UNCHANGED <<rows, op>> /\ put[a].pc = "idle" /\ \A b \in Artifacts : b # a => put'[b] = put[b]
      BY <2>0, <2>1 DEF BeginPut
    <3> QED BY <3>1, <1>l DEF LimitInv
  <2>2. CASE AbandonPut(a)
    <3>1. /\ UNCHANGED <<rows, op>> /\ ~(op.pc = "save" /\ op.paths = {a})
          /\ \A b \in Artifacts : b # a => put'[b] = put[b]
      BY <2>0, <2>2 DEF AbandonPut
    <3> QED BY <3>1, <1>l
  <2>3. ASSUME NEW i \in Ids, Stage(a, i) PROVE LimitInv' /\ PendingBounded'
    <3>1. /\ UNCHANGED <<rows, put>> /\ put[a].pc = "body" /\ op' = [pc |-> "save", id |-> i, paths |-> {a}]
      BY <2>3 DEF Stage
    <3>2. rows[i].status = "none" => UnderLimits(put[a].user)
      BY <2>3 DEF Stage, Active, Core, Lifecycle
    <3>3. PendingBounded' /\ \A u : UnderLimits(u)' <=> UnderLimits(u)
      BY <1>k, <3>1
    <3>4. op'.id = i /\ \A b : op'.paths = {b} => b = a
      BY <3>1
    <3> QED BY <3>1, <3>2, <3>3, <3>4 DEF LimitInv
  <2>4. ASSUME NEW i \in Ids, StageCompanion(a, i) PROVE LimitInv' /\ PendingBounded'
    <3>1. UNCHANGED <<rows, op>> /\ op.pc = "idle"
      BY <2>4, LockedAlone DEF StageCompanion
    <3> QED BY <3>1, <1>l
  <2>5. CASE DirectUnsign(a)
    <3>1. UNCHANGED rows /\ op'.pc # "save"
      BY <2>5, LockedAlone DEF DirectUnsign
    <3>2. op.pc = "idle"
      BY <2>5, LockedAlone DEF DirectUnsign
    <3> QED BY <3>1, <3>2, <1>l
  <2> QED BY <1>5, <2>1, <2>2, <2>3, <2>4, <2>5 DEF UploadNext
<1>6. CASE DeleteNext
  <2>1. lock = "free" /\ op.pc = "idle"
    BY <1>6, LockedAlone DEF DeleteNext, BeginDelete, BeginDeleteTree, DeleteSignature
  <2>2. \A j \in Ids : rows'[j].active => rows[j].active /\ rows'[j].uploader = rows[j].uploader
    BY <1>6, DiscardRows DEF DeleteNext, BeginDelete, BeginDeleteTree, DeleteSignature, SameAbout
  <2>3. op'.pc # "save"
    <3>1. ASSUME NEW D, NEW o, Discard(D, o), o.pc # "save" PROVE op'.pc # "save"
      BY <3>1, <2>1 DEF Discard
    <3>2. ASSUME NEW a \in Artifacts, BeginDelete(a) PROVE op'.pc # "save"
      BY <3>1, <3>2 DEF BeginDelete
    <3>3. ASSUME NEW D \in SUBSET Artifacts, BeginDeleteTree(D) PROVE op'.pc # "save"
      BY <3>1, <3>3 DEF BeginDeleteTree
    <3>4. ASSUME NEW a \in Artifacts, DeleteSignature(a) PROVE op'.pc # "save"
      BY <2>1, <3>4 DEF DeleteSignature
    <3> QED BY <1>6, <3>2, <3>3, <3>4 DEF DeleteNext
  <2> QED BY <2>2, <2>3, CountsShrink DEF LimitInv
<1>7. CASE RequestNext
  <2>1. op'.pc # "save"
    <3>1. NoOp.pc = "idle" /\ \A x \in {"remove", "siblings", "records"} : [op EXCEPT !.pc = x].pc = x
      BY Shapes DEF NoOp
    <3>2. ASSUME NEW a \in Artifacts, SaveStaged(a) \/ DirectCommit(a) \/ DeleteSiblings(a) PROVE op' = NoOp
      BY <3>2, Zenon DEF SaveStaged, DirectCommit, DeleteSiblings
    <3>3. ASSUME NEW a \in Artifacts, DeleteUnsign(a) \/ DeleteFile(a)
          PROVE  op' = NoOp \/ op' = [op EXCEPT !.pc = "remove"] \/ op' = [op EXCEPT !.pc = "siblings"]
      BY <3>3, Zenon DEF DeleteUnsign, DeleteFile
    <3>4. ASSUME DeleteTree \/ DeleteRecords PROVE op' = NoOp \/ op' = [op EXCEPT !.pc = "records"]
      BY <3>4, Zenon DEF DeleteTree, DeleteRecords
    <3> QED BY <1>7, <3>1, <3>2, <3>3, <3>4 DEF RequestNext
  <2>2. CASE rows' = rows
    BY <2>1, <2>2, CountsShrink DEF LimitInv
  <2>3. ASSUME NEW a \in Artifacts, SaveStaged(a) PROVE PendingBounded'
    <3>1. CASE rows[op.id].status = "none" /\ rows' # rows
      BY <3>1, <2>3, SaveRows, CountsGrow DEF LimitInv
    <3>2. CASE rows[op.id].status # "none" \/ rows' = rows
      <4>1. rows[op.id].status # "none" => rows[op.id].active
        BY <2>3, SaveRows DEF Core, SaveInv
      <4> QED BY <3>2, <2>3, <4>1, SaveRows, CountsShrink
    <3> QED BY <3>1, <3>2
  <2> QED BY <1>7, <2>1, <2>2, <2>3, RequestRows DEF LimitInv
<1>8. CASE WorkerNext
  <2>1. UNCHANGED <<put, op>>
    BY <1>8, WorkerLeaves
  <2>2. \A j \in Ids : rows'[j].active => rows[j].active /\ rows'[j].uploader = rows[j].uploader
    BY <1>8, WorkerRow DEF RowFails, RowClaimed, RowStarted, RowSucceeds, RowCleaned, OnlyRow, SameAbout
  <2>3. op.pc = "save" => rows' = rows
    <3>1. op.pc = "save" => lock # "free" /\ w.pc \notin LockedPcs
      BY LockedAlone
    <3> QED BY <1>8, <3>1, WorkerRow, Places
  <2>4. LimitInv'
    BY <2>1, <2>3, <1>l DEF LimitInv
  <2> QED BY <2>2, <2>4, CountsShrink
<1> QED BY <1>1, <1>2, <1>3, <1>4, <1>5, <1>6, <1>7, <1>8 DEF Next

-----------------------------------------------------------------------------
(* What a request under the lock may rely on.                              *)

DeletePcs == {"file", "remove", "siblings", "tree", "records"}

\* A direct commit found no release of its artifact and removed its record; what a
\* deletion is about to remove belongs to no release that can still be published.
RequestInv ==
    /\ op.pc = "commit" => ~RequireGPG /\ \A a \in op.paths : Active(a) = {} /\ record[a] = None
    /\ op.pc \in DeletePcs => \A a \in op.paths : \A i \in Active(a) : rows[i].status = "failed"

\* While a request is between two steps the worker changes nothing but itself.
LEMMA WorkerWaits ==
    ASSUME Core, WorkerNext, w.pc \notin LockedPcs
    PROVE  /\ UNCHANGED <<record, art, sig, blocked>>
           /\ op.pc # "idle" => rows' = rows
<1> USE DEF dbVars, fileVars
<1>1. /\ ~(PublishUnsign \/ PublishArtifact \/ PublishSignature \/ PublishRecord \/ PublishSuccess \/ Reveal)
      /\ ~(CleanFiles \/ CleanDir \/ CleanSave \/ CleanUnblock)
  BY Places DEF PublishUnsign, PublishArtifact, PublishSignature, PublishRecord, PublishSuccess, Reveal,
     CleanFiles, CleanDir, CleanSave, CleanUnblock
<1>2. CASE StartPass \/ EndSweep \/ EndPass \/ Verify \/ VerifyFails
  BY <1>2, Zenon DEF StartPass, EndSweep, EndPass, Verify, VerifyFails
<1>3. ASSUME NEW i \in Ids, SweepClean(i) \/ SweepExpire(i) \/ Claim(i)
      PROVE  UNCHANGED <<record, art, sig, blocked>> /\ lock = "free"
  BY <1>3, Zenon DEF SweepClean, SweepExpire, Claim
<1>4. ASSUME LockRelease \/ FailClaimed
      PROVE  UNCHANGED <<record, art, sig, blocked>> /\ lock = "free"
  BY <1>4, Zenon DEF LockRelease, FailClaimed
<1>5. op.pc # "idle" => lock # "free"
  BY LockedAlone
<1> QED BY <1>1, <1>2, <1>3, <1>4, <1>5 DEF WorkerNext

\* A worker that holds the lock publishes or cleans.
LEMMA WorkerLocked ==
    ASSUME WorkerNext, w.pc \in LockedPcs
    PROVE  \/ PublishUnsign \/ PublishArtifact \/ PublishSignature \/ PublishRecord \/ PublishSuccess
           \/ Reveal \/ CleanFiles \/ CleanDir \/ CleanSave \/ CleanUnblock
<1>1. /\ ~(StartPass \/ EndSweep \/ EndPass \/ Verify \/ VerifyFails \/ LockRelease \/ FailClaimed)
      /\ \A i \in Ids : ~(SweepClean(i) \/ SweepExpire(i) \/ Claim(i))
  BY Places DEF StartPass, EndSweep, EndPass, Verify, VerifyFails, LockRelease, FailClaimed,
     SweepClean, SweepExpire, Claim
<1> QED BY <1>1 DEF WorkerNext

\* The places a request goes on to.
LEMMA RequestMoves ==
    ASSUME Core, RequestNext
    PROVE  /\ op.pc # "idle"
           /\ \/ op'.pc = "idle"
              \/ op.pc \in DeletePcs /\ op'.pc \in DeletePcs /\ op'.paths = op.paths /\ UNCHANGED rows
<1> USE DEF dbVars, fileVars
<1>1. /\ NoOp.pc = "idle"
      /\ \A x \in {"remove", "siblings", "records"} :
            [op EXCEPT !.pc = x].pc = x /\ [op EXCEPT !.pc = x].paths = op.paths
  BY Shapes DEF NoOp
<1>2. ASSUME NEW a \in Artifacts, SaveStaged(a) \/ DirectCommit(a) \/ DeleteSiblings(a)
      PROVE  op' = NoOp /\ op.pc # "idle"
  BY <1>2 DEF SaveStaged, DirectCommit, DeleteSiblings
<1>3. ASSUME NEW a \in Artifacts, DeleteUnsign(a)
      PROVE  op.pc = "file" /\ (op' = NoOp \/ (op' = [op EXCEPT !.pc = "remove"] /\ UNCHANGED rows))
  BY <1>3, Zenon DEF DeleteUnsign
<1>4. ASSUME NEW a \in Artifacts, DeleteFile(a)
      PROVE  op.pc = "remove" /\ (op' = NoOp \/ (op' = [op EXCEPT !.pc = "siblings"] /\ UNCHANGED rows))
  BY <1>4, Zenon DEF DeleteFile
<1>5. ASSUME DeleteTree
      PROVE  op.pc = "tree" /\ (op' = NoOp \/ (op' = [op EXCEPT !.pc = "records"] /\ UNCHANGED rows))
  BY <1>5, Zenon DEF DeleteTree
<1>6. ASSUME DeleteRecords PROVE op.pc = "records" /\ op' = NoOp
  BY <1>6, Zenon DEF DeleteRecords
<1> QED BY <1>1, <1>2, <1>3, <1>4, <1>5, <1>6 DEF RequestNext, DeletePcs

\* Every step keeps what requests rely on.
LEMMA RequestStep == ASSUME Core, RequestInv, [Next]_vars PROVE RequestInv'
<1> USE DEF dbVars, fileVars
<1>d. "idle" \notin DeletePcs /\ "commit" \notin DeletePcs /\ "save" \notin DeletePcs
  BY DEF DeletePcs
\* a step of somebody else
<1>k. ASSUME UNCHANGED <<op, record>>,
             \A i \in Ids : /\ rows'[i].active = rows[i].active /\ rows'[i].artifact = rows[i].artifact
                            /\ rows'[i].status = rows[i].status
      PROVE  RequestInv'
  BY <1>k DEF RequestInv, Active
<1>1. CASE UNCHANGED vars
  BY <1>1, <1>k DEF vars
<1>2. ASSUME NEW i \in Ids, Elapse(i) PROVE RequestInv'
  BY <1>2, <1>k, Shapes DEF Elapse
<1>3. CASE Crash
  BY <1>3, <1>d DEF Crash, NoOp, RequestInv
<1>4. CASE Restore
  <2>1. op'.pc = "idle"
    BY <1>4, LockedAlone DEF Restore
  <2> QED BY <1>d, <2>1 DEF RequestInv
<1>5. ASSUME NEW a \in Artifacts, UploadNext(a) PROVE RequestInv'
  <2>1. ASSUME NEW k \in Kinds, NEW u \in Users, NEW c \in Contents, NEW e \in BOOLEAN,
               BeginPut(a, k, u, c, e)
        PROVE  RequestInv'
    BY <1>k, <2>1 DEF BeginPut
  <2>2. CASE AbandonPut(a)
    BY <1>k, <2>2 DEF AbandonPut
  <2>3. ASSUME NEW i \in Ids, Stage(a, i) PROVE RequestInv'
    BY <1>d, <2>3 DEF Stage, RequestInv
  <2>4. ASSUME NEW i \in Ids, StageCompanion(a, i) PROVE RequestInv'
    BY <1>k, <2>4 DEF StageCompanion
  <2>5. CASE DirectUnsign(a)
    <3>1. UNCHANGED rows /\ Active(a) = {} /\ ~RequireGPG /\ op.pc = "idle" /\ Active(a)' = Active(a)
      BY <2>5, LockedAlone DEF DirectUnsign, Direct, Active
    <3>2. CASE op' = op
      BY <1>d, <3>1, <3>2 DEF RequestInv
    <3>3. CASE op' = [pc |-> "commit", id |-> 0, paths |-> {a}] /\ Unsigned(a)
      <4>1. record'[a] = None /\ op'.pc = "commit" /\ op'.paths = {a}
        BY <3>3 DEF Unsigned, Core, TypeInv, TypeOK
      <4> QED BY <1>d, <3>1, <4>1 DEF RequestInv
    <3> QED BY <2>5, <3>2, <3>3 DEF DirectUnsign
  <2> QED BY <1>5, <2>1, <2>2, <2>3, <2>4, <2>5 DEF UploadNext
<1>6. CASE DeleteNext
  <2>0. lock = "free" /\ op.pc = "idle"
    BY <1>6, LockedAlone DEF DeleteNext, BeginDelete, BeginDeleteTree, DeleteSignature
  <2>1. ASSUME NEW D, NEW o, Discard(D, o), o.pc \in {"file", "tree"}, o.paths = D PROVE RequestInv'
    <3>1. CASE op' = op
      BY <1>d, <2>0, <3>1 DEF RequestInv
    <3>2. CASE op' = o /\ FailRows({i \in Ids : rows[i].active /\ rows[i].artifact \in D})
      <4>1. \A i \in Ids : rows[i].active /\ rows[i].artifact \in D => rows'[i].status = "failed"
        BY <3>2, Shapes DEF FailRows, Failed
      <4>2. \A i \in Ids : rows'[i].active => rows[i].active /\ rows'[i].artifact = rows[i].artifact
        BY <2>1, DiscardRows DEF SameAbout
      <4> QED BY <1>d, <2>1, <3>2, <4>1, <4>2 DEF RequestInv, Active
    <3> QED BY <2>1, <3>1, <3>2 DEF Discard
  <2>2. ASSUME NEW a \in Artifacts, BeginDelete(a) PROVE RequestInv'
    BY <2>1, <2>2 DEF BeginDelete
  <2>3. ASSUME NEW D \in SUBSET Artifacts, BeginDeleteTree(D) PROVE RequestInv'
    BY <2>1, <2>3 DEF BeginDeleteTree
  <2>4. ASSUME NEW a \in Artifacts, DeleteSignature(a) PROVE RequestInv'
    BY <1>d, <2>0, <2>4 DEF DeleteSignature, RequestInv
  <2> QED BY <1>6, <2>2, <2>3, <2>4 DEF DeleteNext
<1>7. CASE RequestNext
  BY <1>7, <1>d, RequestMoves DEF RequestInv, Active, DeletePcs
<1>8. CASE WorkerNext
  <2>1. UNCHANGED op
    BY <1>8, WorkerLeaves
  <2>2. op.pc # "idle" => UNCHANGED <<rows, record>>
    BY <1>8, LockedAlone, WorkerWaits
  <2> QED BY <1>d, <2>1, <2>2 DEF RequestInv, Active
<1> QED BY <1>1, <1>2, <1>3, <1>4, <1>5, <1>6, <1>7, <1>8 DEF Next

-----------------------------------------------------------------------------
(* The policy of the repository.                                           *)

\* Where signatures are required a release with an artifact requires one.
RequireInv == \A i \in Ids : RequireGPG /\ rows[i].art # None => rows[i].require

\* What releases are about changes only when a request saves one.
LEMMA AboutKept ==
    ASSUME Core, [Next]_vars
    PROVE  (\A i \in Ids : SameAbout(i)) \/ \E a \in Artifacts : SaveStaged(a)
<1> USE DEF dbVars, fileVars
<1>k. rows' = rows => \A i \in Ids : SameAbout(i)
  BY DEF SameAbout
<1>1. CASE UNCHANGED vars
  BY <1>1, <1>k DEF vars
<1>2. ASSUME NEW i \in Ids, Elapse(i) PROVE \A j \in Ids : SameAbout(j)
  BY <1>2, Shapes DEF Elapse, SameAbout
<1>3. CASE Crash
  BY <1>3, <1>k DEF Crash
<1>4. CASE Restore
  BY <1>4, Shapes DEF Restore, SameAbout
<1>5. ASSUME NEW a \in Artifacts, UploadNext(a) PROVE rows' = rows
  BY <1>5 DEF UploadNext, BeginPut, AbandonPut, Stage, StageCompanion, DirectUnsign
<1>6. ASSUME DeleteNext PROVE \A j \in Ids : SameAbout(j)
  <2>1. ASSUME NEW D, NEW o, Discard(D, o) PROVE \A j \in Ids : SameAbout(j)
    BY <2>1, DiscardRows DEF SameAbout
  <2> QED BY <1>6, <1>k, <2>1 DEF DeleteNext, BeginDelete, BeginDeleteTree, DeleteSignature
<1>7. CASE RequestNext
  BY <1>7, <1>k, RequestRows
<1>8. CASE WorkerNext
  BY <1>8, <1>k, WorkerRow DEF RowFails, RowClaimed, RowStarted, RowSucceeds, RowCleaned, OnlyRow, SameAbout
<1> QED BY <1>1, <1>2, <1>3, <1>4, <1>5, <1>6, <1>7, <1>8, <1>k DEF Next

\* Every step keeps the policy.
LEMMA RequireStep == ASSUME Core, RequireInv, [Next]_vars PROVE RequireInv'
<1>1. CASE \A i \in Ids : SameAbout(i)
  BY <1>1 DEF SameAbout, RequireInv
<1>2. ASSUME NEW a \in Artifacts, SaveStaged(a) PROVE RequireInv'
  BY <1>2, SaveRows DEF RequireInv
<1> QED BY <1>1, <1>2, AboutKept

-----------------------------------------------------------------------------
(* The stored files and the records.                                       *)

\* A step only takes files and records away.
OnlyRemoves == \A a \in Artifacts : record'[a] \in {record[a], None} /\ art'[a] \in {art[a], None}

\* Only a commit, a publication and the record of one add to the store.
LEMMA FilesStep ==
    ASSUME Core, [Next]_vars
    PROVE  \/ OnlyRemoves
           \/ \E a \in Artifacts : DirectCommit(a)
           \/ PublishArtifact \/ PublishRecord
<1> USE DEF dbVars, fileVars
<1>t. record \in [Artifacts -> Stored] /\ art \in [Artifacts -> Stored] /\ sig \in [Artifacts -> Stored]
  BY DEF Core, TypeInv, TypeOK
<1>k. UNCHANGED <<record, art>> => OnlyRemoves
  BY DEF OnlyRemoves
<1>u. \A a : Unsigned(a) \/ PartlyUnsigned(a) => \A b \in Artifacts : record'[b] \in {record[b], None}
  BY <1>t DEF Unsigned, PartlyUnsigned
<1>1. CASE UNCHANGED vars
  BY <1>1, <1>k DEF vars
<1>2. ASSUME NEW i \in Ids, Elapse(i) PROVE OnlyRemoves
  BY <1>2, <1>k DEF Elapse
<1>3. CASE Crash \/ Restore
  BY <1>3, <1>k DEF Crash, Restore
<1>4. ASSUME NEW a \in Artifacts, UploadNext(a) PROVE OnlyRemoves
  <2>1. CASE DirectUnsign(a)
    BY <1>u, <2>1 DEF DirectUnsign, OnlyRemoves
  <2>2. CASE ~DirectUnsign(a)
    BY <1>4, <1>k, <2>2 DEF UploadNext, BeginPut, AbandonPut, Stage, StageCompanion
  <2> QED BY <2>1, <2>2
<1>5. CASE DeleteNext
  <2>1. ASSUME NEW a \in Artifacts, DeleteSignature(a) PROVE OnlyRemoves
    BY <1>u, <2>1 DEF DeleteSignature, OnlyRemoves
  <2> QED BY <1>5, <1>k, <2>1 DEF DeleteNext, BeginDelete, BeginDeleteTree
<1>6. CASE RequestNext
  <2>1. ASSUME NEW a \in Artifacts, SaveStaged(a) PROVE OnlyRemoves
    BY <1>k, <2>1 DEF SaveStaged
  <2>2. ASSUME NEW a \in Artifacts, DeleteUnsign(a) PROVE OnlyRemoves
    BY <1>u, <2>2 DEF DeleteUnsign, OnlyRemoves
  <2>3. ASSUME NEW a \in Artifacts, DeleteFile(a) PROVE OnlyRemoves
    BY <1>t, <2>3 DEF DeleteFile, OnlyRemoves
  <2>4. ASSUME NEW a \in Artifacts, DeleteSiblings(a) PROVE OnlyRemoves
    <3>1. \E A, R : art' = Cleared(art, A) /\ record' = Cleared(record, R)
      BY <2>4, Zenon DEF DeleteSiblings
    <3> QED BY <3>1 DEF Cleared, OnlyRemoves
  <2>5. CASE DeleteTree
    <3>1. (\E A : art' = Cleared(art, A)) /\ record' = record
      BY <2>5, Zenon DEF DeleteTree
    <3> QED BY <3>1 DEF Cleared, OnlyRemoves
  <2>6. CASE DeleteRecords
    BY <2>6 DEF DeleteRecords, Cleared, OnlyRemoves
  <2> QED BY <1>6, <2>1, <2>2, <2>3, <2>4, <2>5, <2>6 DEF RequestNext
<1>7. CASE WorkerNext
  <2>1. CASE w.pc \notin LockedPcs
    BY <1>7, <1>k, <2>1, WorkerWaits
  <2>2. CASE PublishUnsign
    BY <1>u, <2>2 DEF PublishUnsign, OnlyRemoves
  <2>3. CASE PublishSignature \/ PublishSuccess \/ Reveal
    BY <1>k, <2>3, Zenon DEF PublishSignature, PublishSuccess, Reveal
  <2>4. CASE CleanDir \/ CleanSave \/ CleanUnblock
    BY <1>k, <2>4, Zenon DEF CleanDir, CleanSave, CleanUnblock
  <2>5. CASE CleanFiles
    <3>1. record' = record \/ Unsigned(rows[w.id].artifact) \/ PartlyUnsigned(rows[w.id].artifact)
      BY <2>5, Zenon DEF CleanFiles
    <3>2. art' = art \/ \E c \in {art[rows[w.id].artifact], None} : art' = [art EXCEPT ![rows[w.id].artifact] = c]
      BY <2>5 DEF CleanFiles
    <3> QED BY <1>t, <1>u, <3>1, <3>2 DEF OnlyRemoves
  <2> QED BY <1>7, <2>1, <2>2, <2>3, <2>4, <2>5, WorkerLocked
<1> QED BY <1>1, <1>2, <1>3, <1>4, <1>5, <1>6, <1>7 DEF Next

\* The artifact of a release that can still be published is replaced or removed by
\* the worker alone, or removed with a .jar while it is not hidden.
LEMMA ArtKept ==
    ASSUME Core, RequestInv, [Next]_vars, NEW a \in Artifacts, NEW i \in Active(a), rows[i].status # "failed"
    PROVE  \/ art'[a] = art[a]
           \/ /\ op.pc = "siblings" /\ a \notin blocked /\ art'[a] = None
              /\ \E b \in Artifacts : a \in Siblings[b]
           \/ w.pc = "artifact" /\ PublishArtifact
           \/ w.pc = "files" /\ CleanFiles
<1> USE DEF dbVars, fileVars
<1>t. art \in [Artifacts -> Stored]
  BY DEF Core, TypeInv, TypeOK
<1>0. op.pc \in DeletePcs \union {"commit"} => a \notin op.paths
  BY DEF RequestInv, DeletePcs
<1>1. CASE UNCHANGED vars
  BY <1>1 DEF vars
<1>2. ASSUME NEW j \in Ids, Elapse(j) PROVE art' = art
  BY <1>2 DEF Elapse
<1>3. CASE Crash \/ Restore
  BY <1>3 DEF Crash, Restore
<1>4. ASSUME NEW b \in Artifacts, UploadNext(b) PROVE art' = art
  BY <1>4 DEF UploadNext, BeginPut, AbandonPut, Stage, StageCompanion, DirectUnsign
<1>5. CASE DeleteNext
  BY <1>5 DEF DeleteNext, BeginDelete, BeginDeleteTree, DeleteSignature
<1>6. CASE RequestNext
  <2>1. ASSUME NEW b \in Artifacts, SaveStaged(b) \/ DeleteUnsign(b) PROVE art' = art
    BY <2>1, Zenon DEF SaveStaged, DeleteUnsign
  <2>2. ASSUME NEW b \in Artifacts, DirectCommit(b) PROVE art'[a] = art[a]
    BY <1>0, <1>t, <2>2 DEF DirectCommit, Commit
  <2>3. ASSUME NEW b \in Artifacts, DeleteFile(b) PROVE art'[a] = art[a]
    BY <1>0, <1>t, <2>3 DEF DeleteFile, DeletePcs
  <2>4. ASSUME NEW b \in Artifacts, DeleteSiblings(b)
        PROVE  \/ art'[a] = art[a]
               \/ op.pc = "siblings" /\ a \notin blocked /\ art'[a] = None /\ a \in Siblings[b]
    <3>1. op.pc = "siblings" /\ \E A \in SUBSET VisibleSiblings(b) : art' = Cleared(art, A)
      BY <2>4, Zenon DEF DeleteSiblings
    <3> QED BY <3>1 DEF Cleared, VisibleSiblings
  <2>5. CASE DeleteTree
    <3>1. op.pc = "tree" /\ \E A \in SUBSET op.paths : art' = Cleared(art, A)
      BY <2>5, Zenon DEF DeleteTree
    <3> QED BY <1>0, <3>1 DEF Cleared, DeletePcs
  <2>6. CASE DeleteRecords
    BY <2>6 DEF DeleteRecords
  <2> QED BY <1>6, <2>1, <2>2, <2>3, <2>4, <2>5, <2>6 DEF RequestNext
<1>7. CASE WorkerNext
  <2>1. CASE w.pc \notin LockedPcs
    BY <1>7, <2>1, WorkerWaits
  <2>2. CASE PublishUnsign \/ PublishSignature \/ PublishRecord \/ PublishSuccess \/ Reveal
    BY <2>2, Zenon DEF PublishUnsign, PublishSignature, PublishRecord, PublishSuccess, Reveal
  <2>3. CASE CleanDir \/ CleanSave \/ CleanUnblock
    BY <2>3, Zenon DEF CleanDir, CleanSave, CleanUnblock
  <2>4. CASE PublishArtifact \/ CleanFiles
    BY <2>4 DEF PublishArtifact, CleanFiles
  <2> QED BY <1>7, <2>1, <2>2, <2>3, <2>4, WorkerLocked
<1> QED BY <1>1, <1>2, <1>3, <1>4, <1>5, <1>6, <1>7 DEF Next

\* The release the worker is about to publish is the one it verified: without a
\* signature it needs none, with one the signature is the record and was made for
\* the staged artifact, or for the stored one, which only the deletion of a .jar
\* may have taken since.
Vouched(r, rec, stored) ==
    IF r.sig = None THEN ~r.require /\ rec = None
    ELSE /\ rec = r.sig
         /\ IF r.art # None THEN r.sig = r.art
            ELSE stored = r.sig \/ (stored = None /\ \E b \in Artifacts : r.artifact \in Siblings[b])

VerifiedInv == w.pc \in PublishPcs \union {"lock"} /\ StillClaimed(w.id) =>
    Vouched(rows[w.id], w.rec, art[rows[w.id].artifact])

\* What the worker has done when it is at one of the places of a publication.
PublishedInv ==
    LET r == rows[w.id]
        a == r.artifact
    IN  /\ w.pc \in {"artifact", "signature", "record"} => record[a] = None
        /\ w.pc \in {"signature", "record", "success"} /\ r.art # None => art[a] = r.art
        /\ w.pc \in {"record", "success"} /\ r.sig # None => sig[a] = r.sig
        /\ w.pc = "success" /\ r.sig # None => record[a] = r.sig

\* A release the worker publishes belongs to an artifact and is active.
LEMMA Claimed ==
    ASSUME Core, w.pc \in PublishPcs
    PROVE  /\ w.id \in Ids /\ StillClaimed(w.id) /\ rows[w.id].artifact \in Artifacts
           /\ w.id \in Active(rows[w.id].artifact)
BY Shapes, Places DEF Core, WorkInv, Lifecycle, StillClaimed, Active

\* Whoever does not hold the lock changes nothing that its holder works on.
LEMMA OthersWait ==
    ASSUME Core, w.pc \in LockedPcs, [Next]_vars, ~WorkerNext, ~Crash
    PROVE  /\ UNCHANGED <<record, art, sig, blocked, w>>
           /\ \A i \in Ids : /\ SameAbout(i)
                             /\ rows[i].status \in Ended \union {"validating"} => rows'[i] = rows[i]
<1> USE DEF dbVars, fileVars
<1>0. lock = "worker" /\ op.pc = "idle" /\ up
  BY LockedAlone
<1>1. CASE UNCHANGED vars
  BY <1>1 DEF vars, SameAbout
<1>2. ASSUME NEW i \in Ids, Elapse(i)
      PROVE  /\ UNCHANGED <<record, art, sig, blocked, w>>
             /\ \A j \in Ids : SameAbout(j) /\ (rows[j].status \in Ended \union {"validating"} => rows'[j] = rows[j])
  BY <1>2, Shapes DEF Elapse, SameAbout, Ended
<1>3. ~Restore /\ ~DeleteNext /\ ~RequestNext
  BY <1>0, RequestMoves DEF Restore, DeleteNext, BeginDelete, BeginDeleteTree, DeleteSignature
<1>4. ASSUME NEW a \in Artifacts, UploadNext(a) PROVE UNCHANGED <<rows, record, art, sig, blocked, w>>
  BY <1>0, <1>4 DEF UploadNext, BeginPut, AbandonPut, Stage, StageCompanion, DirectUnsign
<1> QED BY <1>1, <1>2, <1>3, <1>4 DEF Next, SameAbout

\* A step of another process leaves the worker alone, unless it is the crash.
LEMMA OthersWorker == ASSUME [Next]_vars, ~WorkerNext PROVE w' = w \/ (Crash /\ w' = Asleep)
<1>1. ASSUME NEW a \in Artifacts, UploadNext(a) PROVE w' = w
  BY <1>1 DEF UploadNext, BeginPut, AbandonPut, Stage, StageCompanion, DirectUnsign
<1>2. DeleteNext => w' = w
  BY DEF DeleteNext, BeginDelete, BeginDeleteTree, DeleteSignature
<1>3. RequestNext => w' = w
  BY RequestRows DEF SaveStaged
<1>4. (Restore \/ UNCHANGED vars \/ \E i \in Ids : Elapse(i)) => w' = w
  BY DEF Restore, vars, Elapse
<1>5. Crash => w' = Asleep
  BY DEF Crash
<1> QED BY <1>1, <1>2, <1>3, <1>4, <1>5 DEF Next

\* A step of another process keeps what the worker has verified.
LEMMA VerifiedOthers ==
    ASSUME Core, RequestInv, VerifiedInv, [Next]_vars, ~WorkerNext
    PROVE  VerifiedInv'
<1>1. CASE w' = w
  <2> SUFFICES ASSUME w.pc \in PublishPcs \union {"lock"}, StillClaimed(w.id)'
               PROVE  Vouched(rows'[w.id], w.rec, art'[rows'[w.id].artifact])
    BY <1>1 DEF VerifiedInv, StillClaimed
  <2>1. w.id \in Ids
    BY Shapes, Places
  <2>2. rows'[w.id].active /\ rows'[w.id].status = "validating"
    BY <1>1 DEF StillClaimed
  <2>3. SameAbout(w.id) /\ StillClaimed(w.id)
    <3>1. ASSUME NEW a \in Artifacts, SaveStaged(a) PROVE SameAbout(w.id) /\ StillClaimed(w.id)
      <4>1. op.id # w.id \/ rows' = rows
        BY <2>2, <3>1, SaveRows
      <4> QED BY <2>1, <2>2, <3>1, <4>1, SaveRows DEF SameAbout, StillClaimed
    <3>2. ASSUME \A i \in Ids : SameAbout(i), ~\E a \in Artifacts : SaveStaged(a) PROVE StillClaimed(w.id)
      <4>1. CASE UNCHANGED vars
        BY <2>2, <4>1 DEF vars, StillClaimed
      <4>2. ASSUME NEW i \in Ids, Elapse(i) PROVE StillClaimed(w.id)
        BY <2>1, <2>2, <4>2, Shapes DEF Elapse, StillClaimed
      <4>3. ~Crash /\ ~Restore
        BY <1>1, LockedAlone, Places DEF Crash, Restore, Asleep, Core, LockInv
      <4>4. ASSUME NEW a \in Artifacts, UploadNext(a) PROVE rows' = rows
        BY <4>4 DEF UploadNext, BeginPut, AbandonPut, Stage, StageCompanion, DirectUnsign, dbVars
      <4>5. ASSUME DeleteNext PROVE rows'[w.id] = rows[w.id]
        BY <2>1, <2>2, <4>5, DiscardRows
        DEF DeleteNext, BeginDelete, BeginDeleteTree, DeleteSignature
      <4>6. RequestNext => rows' = rows
        BY <3>2, RequestRows
      <4> QED BY <2>2, <4>1, <4>2, <4>3, <4>4, <4>5, <4>6 DEF Next, StillClaimed
    <3> QED BY <2>1, <3>1, <3>2, AboutKept
  <2>4. w.id \in Active(rows[w.id].artifact) /\ rows[w.id].artifact \in Artifacts /\ rows[w.id].status = "validating"
    BY <2>1, <2>3 DEF StillClaimed, Active, Core, Lifecycle
  <2>5. ~PublishArtifact /\ ~CleanFiles
    BY DEF WorkerNext
  <2>6. PICK a \in Artifacts : a = rows[w.id].artifact
    BY <2>4
  <2>7. art'[a] = art[a] \/ (art'[a] = None /\ \E b \in Artifacts : a \in Siblings[b])
    BY <2>4, <2>5, <2>6, ArtKept
  <2>8. Vouched(rows[w.id], w.rec, art[a])
    BY <2>3, <2>6 DEF VerifiedInv
  <2>9. /\ rows'[w.id].artifact = a /\ rows'[w.id].sig = rows[w.id].sig
        /\ rows'[w.id].art = rows[w.id].art /\ rows'[w.id].require = rows[w.id].require
    BY <2>3, <2>6 DEF SameAbout
  <2> QED BY <2>6, <2>7, <2>8, <2>9 DEF Vouched
<1>2. CASE w' # w
  <2>1. w' = Asleep
    BY <1>2, OthersWorker
  <2> QED BY <2>1, Places DEF VerifiedInv, Asleep
<1> QED BY <1>1, <1>2

\* The steps on the way of a publication.
LEMMA WorkerPublishes ==
    ASSUME Core, WorkerNext, w'.pc \in PublishPcs \union {"lock"}
    PROVE  \/ Verify /\ w'.pc = "lock"
           \/ /\ w'.id = w.id /\ w'.rec = w.rec
              /\ \/ LockRelease /\ w'.pc = "unsign"
                 \/ PublishUnsign /\ w'.pc = "artifact"
                 \/ PublishArtifact /\ w'.pc = "signature"
                 \/ PublishSignature /\ w'.pc = "record"
                 \/ PublishRecord /\ w'.pc = "success"
<1> USE DEF dbVars, fileVars
<1>p. PublishPcs \union {"lock"} = {"unsign", "artifact", "signature", "record", "success", "lock"}
  BY Places
<1>1. ~(StartPass \/ EndSweep \/ EndPass)
  <2>1. StartPass => w'.pc = "sweep"
    BY Shapes DEF StartPass
  <2>2. EndSweep => w'.pc = "claim"
    BY Shapes DEF EndSweep
  <2>3. EndPass => w'.pc = "asleep"
    BY DEF EndPass, Asleep
  <2> QED BY <1>p, <2>1, <2>2, <2>3
<1>2. ASSUME NEW i \in Ids PROVE ~(SweepClean(i) \/ SweepExpire(i) \/ Claim(i))
  BY <1>p, Shapes DEF SweepClean, SweepExpire, Claim
<1>3. ~(VerifyFails \/ Reveal \/ CleanUnblock)
  BY <1>p, Shapes DEF VerifyFails, Reveal, CleanUnblock
<1>4. ~(PublishSuccess \/ FailClaimed \/ CleanSave)
  <2>1. PublishSuccess => w' = [w EXCEPT !.pc = "reveal"] \/ w' = [w EXCEPT !.pc = "fail"]
    BY Zenon DEF PublishSuccess, PublishFails
  <2>2. FailClaimed => w' = [w EXCEPT !.pc = "files", !.ret = "claim"] \/ w' = [w EXCEPT !.pc = "claim"]
    BY Zenon DEF FailClaimed
  <2>3. CleanSave => w' = [w EXCEPT !.pc = "unblock"] \/ w' = [w EXCEPT !.pc = w.ret]
    BY Zenon DEF CleanSave, CleanupFails
  <2>4. PublishSuccess => w'.pc \in {"reveal", "fail"}
    BY <2>1, Shapes
  <2>5. FailClaimed => w'.pc \in {"files", "claim"}
    BY <2>2, Shapes
  <2>6. CleanSave => w'.pc \in {"unblock", "sweep", "claim"}
    BY <2>3, Shapes
  <2> QED BY <1>p, <2>4, <2>5, <2>6
<1>5. ~CleanFiles
  <2>1. CleanFiles => w' = [w EXCEPT !.pc = "dir"] \/ w' = [w EXCEPT !.pc = w.ret]
    BY Zenon DEF CleanFiles, CleanupFails
  <2> QED BY <1>p, <2>1, Shapes
<1>6. ~CleanDir
  BY <1>p, Shapes DEF CleanDir, CleanupFails
<1>7. Verify => w'.pc = "lock"
  BY Shapes DEF Verify
<1>8. LockRelease => w'.pc = "unsign" /\ w'.id = w.id /\ w'.rec = w.rec
  <2>1. LockRelease => \/ w' = [w EXCEPT !.pc = "unsign"] \/ w' = [w EXCEPT !.pc = "fail"]
                       \/ w' = [w EXCEPT !.pc = "files", !.ret = "claim"] \/ w' = [w EXCEPT !.pc = "claim"]
    BY Zenon DEF LockRelease
  <2> QED BY <1>p, <2>1, Shapes
<1>9. PublishUnsign => w'.pc = "artifact" /\ w'.id = w.id /\ w'.rec = w.rec
  <2>1. PublishUnsign => w' = [w EXCEPT !.pc = "artifact"] \/ w' = [w EXCEPT !.pc = "fail"]
    BY Zenon DEF PublishUnsign, PublishFails
  <2> QED BY <1>p, <2>1, Shapes
<1>10. PublishArtifact => w'.pc = "signature" /\ w'.id = w.id /\ w'.rec = w.rec
  <2>1. PublishArtifact => w' = [w EXCEPT !.pc = "signature"] \/ w' = [w EXCEPT !.pc = "fail"]
    BY Zenon DEF PublishArtifact, PublishFails
  <2> QED BY <1>p, <2>1, Shapes
<1>11. PublishSignature => w'.pc = "record" /\ w'.id = w.id /\ w'.rec = w.rec
  <2>1. PublishSignature => w' = [w EXCEPT !.pc = "record"] \/ w' = [w EXCEPT !.pc = "fail"]
    BY Zenon DEF PublishSignature, PublishFails
  <2> QED BY <1>p, <2>1, Shapes
<1>12. PublishRecord => w'.pc = "success" /\ w'.id = w.id /\ w'.rec = w.rec
  <2>1. PublishRecord => w' = [w EXCEPT !.pc = "success"] \/ w' = [w EXCEPT !.pc = "fail"]
    BY Zenon DEF PublishRecord, PublishFails
  <2> QED BY <1>p, <2>1, Shapes
<1> QED BY <1>1, <1>2, <1>3, <1>4, <1>5, <1>6, <1>7, <1>8, <1>9, <1>10, <1>11, <1>12 DEF WorkerNext

\* What each of these steps leaves in the store.
LEMMA PublishEffects ==
    ASSUME Core, w.pc \in PublishPcs, NEW a, a = rows[w.id].artifact
    PROVE  /\ PublishUnsign /\ w'.pc = "artifact" => UNCHANGED <<rows, art>> /\ record'[a] = None
           /\ PublishArtifact /\ w'.pc = "signature" =>
                /\ UNCHANGED <<rows, record, sig>>
                /\ rows[w.id].art = None => art' = art
                /\ rows[w.id].art # None => art' = [art EXCEPT ![a] = rows[w.id].art]
           /\ PublishSignature /\ w'.pc = "record" =>
                /\ UNCHANGED <<rows, record, art>>
                /\ rows[w.id].sig # None => sig'[a] = rows[w.id].sig
           /\ PublishRecord /\ w'.pc = "success" =>
                /\ UNCHANGED <<rows, art, sig>>
                /\ record' = IF w.rec = None THEN record ELSE [record EXCEPT ![a] = w.rec]
<1> USE DEF dbVars, fileVars
<1>t. /\ record \in [Artifacts -> Stored] /\ art \in [Artifacts -> Stored] /\ sig \in [Artifacts -> Stored]
      /\ a \in Artifacts /\ w.id \in Ids
  BY Claimed DEF Core, TypeInv, TypeOK
<1>f. \A x : [w EXCEPT !.pc = x].pc = x
  BY Shapes
<1>1. ASSUME PublishUnsign, w'.pc = "artifact" PROVE UNCHANGED <<rows, art>> /\ record'[a] = None
  BY <1>t, <1>f, <1>1 DEF PublishUnsign, PublishFails, Unsigned
<1>2. ASSUME PublishArtifact, w'.pc = "signature"
      PROVE  /\ UNCHANGED <<rows, record, sig>>
             /\ art' = IF rows[w.id].art = None THEN art ELSE [art EXCEPT ![a] = rows[w.id].art]
  BY <1>f, <1>2 DEF PublishArtifact, PublishFails
<1>3. ASSUME PublishSignature, w'.pc = "record"
      PROVE  /\ UNCHANGED <<rows, record, art>>
             /\ rows[w.id].sig # None => sig'[a] = rows[w.id].sig
  BY <1>t, <1>f, <1>3 DEF PublishSignature, PublishFails
<1>4. ASSUME PublishRecord, w'.pc = "success"
      PROVE  /\ UNCHANGED <<rows, art, sig>>
             /\ record' = IF w.rec = None THEN record ELSE [record EXCEPT ![a] = w.rec]
  BY <1>f, <1>4 DEF PublishRecord, PublishFails
<1> QED BY <1>1, <1>2, <1>3, <1>4

\* The worker keeps what it has verified on its way through a publication.
LEMMA VerifiedWorker == ASSUME Core, VerifiedInv, WorkerNext PROVE VerifiedInv'
<1> SUFFICES ASSUME w'.pc \in PublishPcs \union {"lock"}
             PROVE  Vouched(rows'[w'.id], w'.rec, art'[rows'[w'.id].artifact])
  BY DEF VerifiedInv
<1> USE DEF dbVars, fileVars
<1>1. CASE Verify
  <2>1. w'.id = w.id /\ w.id \in Ids /\ UNCHANGED <<rows, art>>
    BY <1>1, Shapes, Places DEF Verify
  <2>2. w'.rec = IF rows[w.id].sig = None THEN None ELSE rows[w.id].sig
    BY <1>1, Shapes DEF Verify
  <2> QED BY <1>1, <2>1, <2>2 DEF Verify, VerifiedBytes, Vouched
<1>2. CASE LockRelease /\ w'.pc = "unsign" /\ w'.id = w.id /\ w'.rec = w.rec
  <2>1. w.pc = "lock" /\ w.id \in Ids /\ art' = art
    BY <1>2, Shapes, Places DEF LockRelease
  <2>2. StillClaimed(w.id) /\ rows' = [rows EXCEPT ![w.id].started = TRUE]
    <3>1. \A x : [w EXCEPT !.pc = x].pc = x /\ [w EXCEPT !.pc = x, !.ret = "claim"].pc = x
      BY Shapes
    <3> QED BY <1>2, <3>1 DEF LockRelease
  <2>3. SameAbout(w.id)
    BY <2>1, <2>2, Shapes DEF SameAbout
  <2>4. Vouched(rows[w.id], w.rec, art[rows[w.id].artifact])
    BY <2>1, <2>2 DEF VerifiedInv
  <2> QED BY <1>2, <2>1, <2>3, <2>4 DEF SameAbout, Vouched
<1>3. CASE /\ w'.id = w.id /\ w'.rec = w.rec
           /\ \/ PublishUnsign /\ w'.pc = "artifact"
              \/ PublishArtifact /\ w'.pc = "signature"
              \/ PublishSignature /\ w'.pc = "record"
              \/ PublishRecord /\ w'.pc = "success"
  <2>1. w.pc \in PublishPcs
    BY <1>3, Places DEF PublishUnsign, PublishArtifact, PublishSignature, PublishRecord
  <2>2. PICK a \in Artifacts : a = rows[w.id].artifact
    BY <2>1, Claimed
  <2>3. rows' = rows /\ (rows[w.id].art = None => art' = art)
    BY <1>3, <2>1, <2>2, PublishEffects
  <2>4. Vouched(rows[w.id], w.rec, art[a])
    BY <2>1, <2>2, Claimed DEF VerifiedInv
  <2> QED BY <1>3, <2>2, <2>3, <2>4 DEF Vouched
<1> QED BY <1>1, <1>2, <1>3, WorkerPublishes

\* Every step keeps what the worker has done.
LEMMA PublishedStep == ASSUME Core, VerifiedInv, PublishedInv, [Next]_vars PROVE PublishedInv'
<1>p. {"artifact", "signature", "record", "success"} \subseteq LockedPcs
  BY Places
<1>1. CASE Crash
  BY <1>1 DEF Crash, Asleep, PublishedInv
<1>2. CASE ~WorkerNext /\ ~Crash
  <2>1. CASE w.pc \notin {"artifact", "signature", "record", "success"}
    <3>1. w' = w
      BY <1>2, OthersWorker
    <3> QED BY <2>1, <3>1 DEF PublishedInv
  <2>2. CASE w.pc \in {"artifact", "signature", "record", "success"}
    <3>1. w.pc \in PublishPcs
      BY <2>2, Places
    <3>2. UNCHANGED <<record, art, sig, w>> /\ rows'[w.id] = rows[w.id]
      BY <1>2, <1>p, <2>2, <3>1, OthersWait, Claimed DEF StillClaimed
    <3> QED BY <3>2 DEF PublishedInv
  <2> QED BY <2>1, <2>2
<1>3. CASE WorkerNext
  <2>1. CASE w'.pc \notin {"artifact", "signature", "record", "success"}
    BY <2>1 DEF PublishedInv
  <2>2. CASE w'.pc \in {"artifact", "signature", "record", "success"}
    <3>0. w'.pc \in PublishPcs \union {"lock"} /\ w'.pc # "lock" /\ w'.pc # "unsign"
      BY <2>2, Places
    <3>1. /\ w'.id = w.id
          /\ \/ PublishUnsign /\ w'.pc = "artifact"
             \/ PublishArtifact /\ w'.pc = "signature"
             \/ PublishSignature /\ w'.pc = "record"
             \/ PublishRecord /\ w'.pc = "success"
      BY <1>3, <3>0, WorkerPublishes
    <3>2. w.pc \in PublishPcs
      BY <3>1, Places DEF PublishUnsign, PublishArtifact, PublishSignature, PublishRecord
    <3>3. PICK a \in Artifacts : a = rows[w.id].artifact
      BY <3>2, Claimed
    <3>4. Vouched(rows[w.id], w.rec, art[a])
      BY <3>2, <3>3, Claimed DEF VerifiedInv
    <3>t. record \in [Artifacts -> Stored] /\ art \in [Artifacts -> Stored]
      BY DEF Core, TypeInv, TypeOK
    <3>5. CASE PublishUnsign /\ w'.pc = "artifact"
      BY <3>1, <3>2, <3>3, <3>5, PublishEffects DEF PublishedInv
    <3>6. CASE PublishArtifact /\ w'.pc = "signature"
      <4>1. w.pc = "artifact"
        BY <3>6 DEF PublishArtifact
      <4> QED BY <3>1, <3>2, <3>3, <3>6, <3>t, <4>1, PublishEffects DEF PublishedInv
    <3>7. CASE PublishSignature /\ w'.pc = "record"
      <4>1. w.pc = "signature"
        BY <3>7 DEF PublishSignature
      <4> QED BY <3>1, <3>2, <3>3, <3>7, <4>1, PublishEffects DEF PublishedInv
    <3>8. CASE PublishRecord /\ w'.pc = "success"
      <4>1. w.pc = "record"
        BY <3>8 DEF PublishRecord
      <4>2. rows[w.id].sig # None => w.rec = rows[w.id].sig
        BY <3>4 DEF Vouched
      <4> QED BY <3>1, <3>2, <3>3, <3>8, <3>t, <4>1, <4>2, PublishEffects DEF PublishedInv
    <3> QED BY <3>1, <3>5, <3>6, <3>7, <3>8
  <2> QED BY <2>1, <2>2
<1> QED BY <1>1, <1>2, <1>3

\* Every step keeps the records true to the stored files.
LEMMA RecordStep ==
    ASSUME Core, RequestInv, VerifiedInv, PublishedInv, RecordMatchesArtifact, [Next]_vars
    PROVE  RecordMatchesArtifact'
<1> USE DEF dbVars, fileVars
<1>t. record \in [Artifacts -> Stored] /\ art \in [Artifacts -> Stored]
  BY DEF Core, TypeInv, TypeOK
<1>1. CASE OnlyRemoves
  BY <1>1 DEF OnlyRemoves, RecordMatchesArtifact
<1>2. ASSUME NEW a \in Artifacts, DirectCommit(a) PROVE RecordMatchesArtifact'
  <2>1. record[a] = None /\ record' = record
    BY <1>2 DEF DirectCommit, RequestInv
  <2>2. \A b \in Artifacts : b # a => art'[b] = art[b]
    BY <1>t, <1>2 DEF DirectCommit, Commit
  <2> QED BY <2>1, <2>2 DEF RecordMatchesArtifact
<1>3. CASE PublishArtifact
  <2>1. w.pc = "artifact" /\ record' = record
    BY <1>3 DEF PublishArtifact
  <2>2. PICK a \in Artifacts : a = rows[w.id].artifact
    BY <2>1, Claimed, Places
  <2>3. record[a] = None
    BY <2>1, <2>2 DEF PublishedInv
  <2>4. \A b \in Artifacts : b # a => art'[b] = art[b]
    BY <1>t, <1>3, <2>2 DEF PublishArtifact
  <2> QED BY <2>1, <2>3, <2>4 DEF RecordMatchesArtifact
<1>4. CASE PublishRecord
  <2>1. w.pc = "record" /\ art' = art
    BY <1>4 DEF PublishRecord
  <2>2. PICK a \in Artifacts : a = rows[w.id].artifact
    BY <2>1, Claimed, Places
  <2>3. record' = record \/ (w.rec # None /\ record' = [record EXCEPT ![a] = w.rec])
    BY <1>4, <2>2 DEF PublishRecord
  <2>4. Vouched(rows[w.id], w.rec, art[a])
    BY <2>1, <2>2, Claimed, Places DEF VerifiedInv
  <2>5. w.rec # None => art[a] \in {None, w.rec}
    BY <2>1, <2>2, <2>4 DEF Vouched, PublishedInv
  <2> QED BY <1>t, <2>1, <2>3, <2>5 DEF RecordMatchesArtifact
<1> QED BY <1>1, <1>2, <1>3, <1>4, FilesStep

-----------------------------------------------------------------------------
(* The cleanup.                                                            *)

\* A failed release keeps its key as long as it awaits its cleanup.
RowsClean == \A i \in Ids : rows[i].cleanup /\ rows[i].status = "failed" => rows[i].active

\* What a pass lists it cleans before it claims, and what it cleans is off the list.
WorkClean ==
    /\ w.pc \in {"claim", "verify", "lock", "fail", "reveal"} \union PublishPcs => w.clean = {}
    /\ w.pc \in CleanPcs => w.id \notin w.clean /\ (w.ret = "claim" => w.clean = {})

\* What is listed or being cleaned awaits its cleanup.
DueInv ==
    /\ \A i \in w.clean : rows[i].cleanup
    /\ w.pc \in {"files", "dir", "save", "reveal"} => rows[w.id].cleanup

\* Behind the first step of the cleanup nothing is left of a partial publication.
CleanedInv == w.pc \in {"dir", "save"} /\ Partial(rows[w.id]) =>
    LET a == rows[w.id].artifact IN
    /\ rows[w.id].art # None => art[a] = None
    /\ sig[a] = None /\ record[a] = None

CleanInv == RowsClean /\ WorkClean /\ DueInv /\ CleanedInv

\* What a step of another process does to a release that has ended.
LEMMA OthersRows ==
    ASSUME Core, RowsClean, [Next]_vars, ~WorkerNext, NEW i \in Ids
    PROVE  /\ rows[i].cleanup => rows'[i].cleanup
           /\ rows'[i].cleanup /\ rows'[i].status = "failed" =>
                rows'[i].active
           /\ rows[i].active /\ rows[i].status \in Ended => rows'[i].active
<1> USE DEF dbVars, fileVars
<1>k. ASSUME \/ rows'[i] = rows[i]
             \/ /\ rows'[i].cleanup = rows[i].cleanup /\ rows'[i].active = rows[i].active
                /\ rows'[i].status = rows[i].status \/ rows'[i].status \notin Ended
      PROVE  /\ rows[i].cleanup => rows'[i].cleanup
             /\ rows'[i].cleanup /\ rows'[i].status = "failed" =>
                  rows'[i].active
             /\ rows[i].active /\ rows[i].status \in Ended => rows'[i].active
  BY <1>k DEF Ended, RowsClean
<1>1. CASE UNCHANGED vars
  BY <1>1, <1>k DEF vars
<1>2. ASSUME NEW j \in Ids, Elapse(j)
      PROVE  /\ rows'[i].cleanup = rows[i].cleanup /\ rows'[i].active = rows[i].active
             /\ rows'[i].status = rows[i].status
  BY <1>2, Shapes DEF Elapse
<1>3. CASE Crash
  BY <1>3, <1>k DEF Crash
<1>4. ASSUME Restore
      PROVE  /\ rows'[i].cleanup = rows[i].cleanup /\ rows'[i].active = rows[i].active
             /\ rows'[i].status = rows[i].status \/ rows'[i].status \notin Ended
  BY <1>4, Shapes DEF Restore, Ended
<1>5. ASSUME NEW a \in Artifacts, UploadNext(a) PROVE rows' = rows
  BY <1>5 DEF UploadNext, BeginPut, AbandonPut, Stage, StageCompanion, DirectUnsign
<1>6. ASSUME DeleteNext
      PROVE  rows'[i] = rows[i] \/ (rows'[i].cleanup /\ rows'[i].active)
  <2>1. ASSUME NEW D, NEW o, Discard(D, o) PROVE rows'[i] = rows[i] \/ (rows'[i].cleanup /\ rows'[i].active)
    BY <2>1, DiscardRows
  <2> QED BY <1>6, <2>1 DEF DeleteNext, BeginDelete, BeginDeleteTree, DeleteSignature
<1>7. ASSUME NEW a \in Artifacts, SaveStaged(a)
      PROVE  rows'[i] = rows[i] \/ (rows[i].status \notin Ended /\ rows'[i].status \notin Ended)
  <2>1. op.id \in Ids /\ rows[op.id].status \in {"none", "queued"}
    BY <1>7, SaveRows DEF Core, SaveInv
  <2> QED BY <1>7, <2>1, SaveRows DEF Ended
<1>8. rows[i].cleanup => rows[i].status \in Ended
  BY DEF Core, Lifecycle, Ended
<1>9. CASE RequestNext
  <2>1. CASE rows' = rows
    BY <1>k, <2>1
  <2>2. ASSUME NEW a \in Artifacts, SaveStaged(a)
        PROVE  rows'[i] = rows[i] \/ (~rows[i].cleanup /\ rows[i].status \notin Ended /\ rows'[i].status # "failed")
    BY <1>7, <1>8, <2>2 DEF Ended
  <2> QED BY <1>9, <1>k, <2>1, <2>2, RequestRows
<1> QED BY <1>1, <1>2, <1>3, <1>4, <1>5, <1>6, <1>9, <1>k DEF Next

\* The worker's own steps keep its list apart from what it cleans.
LEMMA WorkCleanStep == ASSUME Core, WorkClean, WorkerNext PROVE WorkClean'
<1> USE DEF dbVars, fileVars
<1>p. /\ PublishPcs = {"unsign", "artifact", "signature", "record", "success"}
      /\ CleanPcs = {"files", "dir", "save", "unblock"}
  BY Places
<1> DEFINE Goes(p) == w'.pc = p /\ w'.id = w.id /\ w'.clean = w.clean /\ w'.ret = w.ret
           Cleans == w'.pc = "files" /\ w'.id = w.id /\ w'.clean = w.clean /\ w'.ret = "claim"
\* on to a place without a list, from one
<1>k. ASSUME w.pc \in {"claim", "verify", "lock", "fail", "reveal"} \union PublishPcs,
             \/ Cleans
             \/ \E p \in {"claim", "verify", "lock", "fail", "reveal"} \union PublishPcs : Goes(p)
      PROVE  WorkClean'
  BY <1>k, <1>p DEF WorkClean
\* from one place of the cleanup to another, or back to what the worker did
<1>c. ASSUME w.pc \in CleanPcs, \E p \in CleanPcs \union {w.ret} : Goes(p) PROVE WorkClean'
  <2>1. w.ret \in {"sweep", "claim"}
    BY Shapes
  <2> QED BY <1>c, <1>p, <2>1 DEF WorkClean
<1>1. CASE StartPass
  BY <1>1, <1>p, Shapes DEF StartPass, WorkClean
<1>2. CASE EndSweep
  BY <1>2, <1>p, Shapes DEF EndSweep, WorkClean
<1>3. CASE EndPass
  BY <1>3, <1>p DEF EndPass, Asleep, WorkClean
<1>4. ASSUME NEW i \in Ids, SweepClean(i) PROVE WorkClean'
  BY <1>4, <1>p, Shapes DEF SweepClean, WorkClean
<1>5. ASSUME NEW i \in Ids, SweepExpire(i) PROVE WorkClean'
  <2>0. w.pc = "sweep" /\ \A j \in w.clean : rows[j].status \in Ended
    BY <1>5 DEF SweepExpire, Core, WorkInv
  <2>1. CASE Expirable(i)
    <3>1. i \notin w.clean
      BY <2>0, <2>1 DEF Expirable, Ended
    <3> QED BY <1>5, <1>p, <2>1, <3>1, Shapes DEF SweepExpire, WorkClean
  <2>2. CASE ~Expirable(i)
    BY <1>5, <1>p, <2>0, <2>2, Shapes DEF SweepExpire, WorkClean
  <2> QED BY <2>1, <2>2
<1>6. ASSUME NEW i \in Ids, Claim(i) PROVE WorkClean'
  BY <1>6, <1>p, Shapes DEF Claim, WorkClean
<1>7. CASE Verify
  BY <1>7, <1>p, Shapes DEF Verify, WorkClean
<1>8. CASE VerifyFails
  BY <1>8, <1>k, Shapes DEF VerifyFails
<1>9. CASE LockRelease
  <2>1. w.pc = "lock" /\ \/ w' = [w EXCEPT !.pc = "unsign"] \/ w' = [w EXCEPT !.pc = "fail"]
                         \/ w' = [w EXCEPT !.pc = "files", !.ret = "claim"] \/ w' = [w EXCEPT !.pc = "claim"]
    BY <1>9, Zenon DEF LockRelease
  <2>2. Cleans \/ Goes("unsign") \/ Goes("fail") \/ Goes("claim")
    BY <2>1, Shapes
  <2> QED BY <1>k, <1>p, <2>1, <2>2
<1>10. CASE PublishUnsign
  <2>1. w.pc = "unsign" /\ (w' = [w EXCEPT !.pc = "artifact"] \/ w' = [w EXCEPT !.pc = "fail"])
    BY <1>10, Zenon DEF PublishUnsign, PublishFails
  <2>2. Goes("artifact") \/ Goes("fail")
    BY <2>1, Shapes
  <2> QED BY <1>k, <1>p, <2>1, <2>2
<1>11. CASE PublishArtifact
  <2>1. w.pc = "artifact" /\ (w' = [w EXCEPT !.pc = "signature"] \/ w' = [w EXCEPT !.pc = "fail"])
    BY <1>11, Zenon DEF PublishArtifact, PublishFails
  <2>2. Goes("signature") \/ Goes("fail")
    BY <2>1, Shapes
  <2> QED BY <1>k, <1>p, <2>1, <2>2
<1>12. CASE PublishSignature
  <2>1. w.pc = "signature" /\ (w' = [w EXCEPT !.pc = "record"] \/ w' = [w EXCEPT !.pc = "fail"])
    BY <1>12, Zenon DEF PublishSignature, PublishFails
  <2>2. Goes("record") \/ Goes("fail")
    BY <2>1, Shapes
  <2> QED BY <1>k, <1>p, <2>1, <2>2
<1>13. CASE PublishRecord
  <2>1. w.pc = "record" /\ (w' = [w EXCEPT !.pc = "success"] \/ w' = [w EXCEPT !.pc = "fail"])
    BY <1>13, Zenon DEF PublishRecord, PublishFails
  <2>2. Goes("success") \/ Goes("fail")
    BY <2>1, Shapes
  <2> QED BY <1>k, <1>p, <2>1, <2>2
<1>14. CASE PublishSuccess
  <2>1. w.pc = "success" /\ (w' = [w EXCEPT !.pc = "reveal"] \/ w' = [w EXCEPT !.pc = "fail"])
    BY <1>14, Zenon DEF PublishSuccess, PublishFails
  <2>2. Goes("reveal") \/ Goes("fail")
    BY <2>1, Shapes
  <2> QED BY <1>k, <1>p, <2>1, <2>2
<1>15. CASE Reveal
  BY <1>15, <1>k, Shapes DEF Reveal
<1>16. CASE FailClaimed
  <2>1. w.pc = "fail" /\ (w' = [w EXCEPT !.pc = "files", !.ret = "claim"] \/ w' = [w EXCEPT !.pc = "claim"])
    BY <1>16, Zenon DEF FailClaimed
  <2>2. Cleans \/ Goes("claim")
    BY <2>1, Shapes
  <2> QED BY <1>k, <1>p, <2>1, <2>2
<1>17. CASE CleanFiles
  <2>1. w.pc = "files" /\ (w' = [w EXCEPT !.pc = "dir"] \/ w' = [w EXCEPT !.pc = w.ret])
    BY <1>17, Zenon DEF CleanFiles, CleanupFails
  <2>2. Goes("dir") \/ Goes(w.ret)
    BY <2>1, Shapes
  <2> QED BY <1>c, <1>p, <2>1, <2>2
<1>18. CASE CleanDir
  <2>1. w.pc = "dir" /\ (w' = [w EXCEPT !.pc = "save"] \/ w' = [w EXCEPT !.pc = w.ret])
    BY <1>18, Zenon DEF CleanDir, CleanupFails
  <2>2. Goes("save") \/ Goes(w.ret)
    BY <2>1, Shapes
  <2> QED BY <1>c, <1>p, <2>1, <2>2
<1>19. CASE CleanSave
  <2>1. w.pc = "save" /\ (w' = [w EXCEPT !.pc = "unblock"] \/ w' = [w EXCEPT !.pc = w.ret])
    BY <1>19, Zenon DEF CleanSave, CleanupFails
  <2>2. Goes("unblock") \/ Goes(w.ret)
    BY <2>1, Shapes
  <2> QED BY <1>c, <1>p, <2>1, <2>2
<1>20. CASE CleanUnblock
  <2>1. w.pc = "unblock" /\ w' = [w EXCEPT !.pc = w.ret]
    BY <1>20, Zenon DEF CleanUnblock
  <2>2. Goes(w.ret)
    BY <2>1, Shapes
  <2> QED BY <1>c, <1>p, <2>1, <2>2
<1> QED BY <1>1, <1>2, <1>3, <1>4, <1>5, <1>6, <1>7, <1>8, <1>9, <1>10, <1>11, <1>12, <1>13, <1>14,
     <1>15, <1>16, <1>17, <1>18, <1>19, <1>20 DEF WorkerNext

\* Where the steps of the worker that lead to a cleanup come from.
LEMMA CleansDue ==
    ASSUME Core, WorkerNext, w'.pc \in {"files", "dir", "save", "reveal"}
    PROVE  \/ w'.pc \in {"files", "reveal"} /\ rows' = rows /\ w'.id \in w.clean
           \/ w'.pc \in {"files", "reveal"} /\ rows'[w'.id].cleanup
           \/ /\ rows' = rows /\ w'.id = w.id
              /\ \/ CleanFiles /\ w'.pc = "dir"
                 \/ CleanDir /\ w'.pc = "save"
                 \/ Reveal /\ w'.pc = "files"
<1> USE DEF dbVars, fileVars
<1>r. w.ret \in {"sweep", "claim"}
  BY Shapes
<1>1. ~StartPass /\ ~EndSweep /\ ~EndPass
  <2>1. StartPass => w'.pc = "sweep"
    BY Shapes DEF StartPass
  <2>2. EndSweep => w'.pc = "claim"
    BY Shapes DEF EndSweep
  <2>3. EndPass => w'.pc = "asleep"
    BY DEF EndPass, Asleep
  <2> QED BY <2>1, <2>2, <2>3
<1>2. ~Verify /\ ~VerifyFails /\ \A i \in Ids : ~Claim(i)
  BY Shapes DEF Verify, VerifyFails, Claim
<1>3. ~PublishUnsign /\ ~PublishArtifact /\ ~PublishSignature /\ ~PublishRecord
  <2>1. PublishUnsign \/ PublishArtifact \/ PublishSignature \/ PublishRecord =>
          \E p \in {"artifact", "signature", "record", "success", "fail"} : w' = [w EXCEPT !.pc = p]
    BY Zenon DEF PublishUnsign, PublishArtifact, PublishSignature, PublishRecord, PublishFails
  <2> QED BY <2>1, Shapes
<1>4. ASSUME NEW i \in Ids, SweepClean(i) PROVE w'.pc = "files" /\ rows' = rows /\ w'.id \in w.clean
  BY <1>4, Shapes DEF SweepClean
<1>5. ASSUME NEW i \in Ids, SweepExpire(i) PROVE w'.pc = "files" /\ rows'[w'.id].cleanup
  <2>1. w' # [w EXCEPT !.expire = @ \ {i}]
    BY <1>5, Shapes DEF SweepExpire
  <2>2. rows' = [rows EXCEPT ![i] = Failed(rows[i])]
        /\ w' = [w EXCEPT !.pc = "files", !.expire = @ \ {i}, !.id = i, !.ret = "sweep"]
    BY <1>5, <2>1, Zenon DEF SweepExpire
  <2>3. w'.id = i /\ w'.pc = "files"
    BY <2>2, Shapes
  <2> QED BY <2>2, <2>3, EndRows
<1>6. CASE LockRelease
  <2>1. w' # [w EXCEPT !.pc = "unsign"] /\ w' # [w EXCEPT !.pc = "fail"] /\ w' # [w EXCEPT !.pc = "claim"]
    BY Shapes
  <2>2. rows' = rows /\ rows[w.id].cleanup /\ w' = [w EXCEPT !.pc = "files", !.ret = "claim"]
    BY <1>6, <2>1, Zenon DEF LockRelease
  <2> QED BY <2>2, Shapes
<1>7. CASE PublishSuccess
  <2>0. w.id \in Ids /\ w' # [w EXCEPT !.pc = "fail"]
    BY <1>7, Shapes, Places DEF PublishSuccess
  <2>1. rows' = [rows EXCEPT ![w.id] = Succeeded(rows[w.id])] /\ w' = [w EXCEPT !.pc = "reveal"]
    BY <1>7, <2>0, Zenon DEF PublishSuccess, PublishFails
  <2>2. w'.id = w.id /\ w'.pc = "reveal"
    BY <2>1, Shapes
  <2> QED BY <2>0, <2>1, <2>2, EndRows
<1>8. CASE FailClaimed
  <2>0. w.id \in Ids /\ w' # [w EXCEPT !.pc = "claim"]
    BY <1>8, Shapes, Places DEF FailClaimed
  <2>1. /\ w' = [w EXCEPT !.pc = "files", !.ret = "claim"]
        /\ rows' = [rows EXCEPT ![w.id] = Failed(rows[w.id])] \/ (rows' = rows /\ rows[w.id].cleanup)
    BY <1>8, <2>0, Zenon DEF FailClaimed
  <2>2. w'.id = w.id /\ w'.pc = "files"
    BY <2>1, Shapes
  <2> QED BY <2>0, <2>1, <2>2, EndRows
<1>9. CASE Reveal
  BY <1>9, Shapes DEF Reveal
<1>10. CASE CleanFiles
  <2>1. w' # [w EXCEPT !.pc = w.ret]
    BY <1>r, Shapes
  <2>2. rows' = rows /\ w' = [w EXCEPT !.pc = "dir"]
    BY <1>10, <2>1, Zenon DEF CleanFiles, CleanupFails
  <2> QED BY <1>10, <2>2, Shapes
<1>11. CASE CleanDir
  <2>1. w' # [w EXCEPT !.pc = w.ret]
    BY <1>r, Shapes
  <2>2. rows' = rows /\ w' = [w EXCEPT !.pc = "save"]
    BY <1>11, <2>1, Zenon DEF CleanDir, CleanupFails
  <2> QED BY <1>11, <2>2, Shapes
<1>12. ~CleanSave /\ ~CleanUnblock
  <2>1. CleanSave => w' = [w EXCEPT !.pc = "unblock"] \/ w' = [w EXCEPT !.pc = w.ret]
    BY Zenon DEF CleanSave, CleanupFails
  <2>2. CleanUnblock => w' = [w EXCEPT !.pc = w.ret]
    BY Zenon DEF CleanUnblock
  <2> QED BY <1>r, <2>1, <2>2, Shapes
<1> QED BY <1>1, <1>2, <1>3, <1>4, <1>5, <1>6, <1>7, <1>8, <1>9, <1>10, <1>11, <1>12 DEF WorkerNext

\* The list of a pass only gets shorter.
LEMMA ListShrinks == ASSUME Core, WorkerNext PROVE StartPass \/ w'.clean \subseteq w.clean
<1>1. CASE \E p \in WorkerPcs : w' = [w EXCEPT !.pc = p] \/ w' = [w EXCEPT !.pc = p, !.ret = "claim"]
  BY <1>1, Shapes
<1>2. ASSUME NEW i \in Ids, SweepClean(i) \/ SweepExpire(i) \/ Claim(i) PROVE w'.clean \subseteq w.clean
  BY <1>2, Shapes DEF SweepClean, SweepExpire, Claim
<1>3. EndPass => w'.clean = {}
  BY DEF EndPass, Asleep
<1>4. Verify => w'.clean = w.clean
  BY Shapes DEF Verify
<1>5. /\ {"unsign", "artifact", "signature", "record", "success", "files", "dir", "save", "unblock", "reveal",
          "fail", "claim"} \subseteq WorkerPcs
      /\ w.ret \in WorkerPcs
  BY Shapes DEF WorkerPcs, PublishPcs, CleanPcs
<1>6. EndSweep \/ VerifyFails \/ LockRelease \/ PublishUnsign \/ PublishArtifact \/ PublishSignature
        \/ PublishRecord \/ PublishSuccess \/ Reveal \/ FailClaimed =>
        \E p \in WorkerPcs : w' = [w EXCEPT !.pc = p] \/ w' = [w EXCEPT !.pc = p, !.ret = "claim"]
  BY <1>5, Zenon DEF EndSweep, VerifyFails, LockRelease, PublishUnsign, PublishArtifact, PublishSignature,
     PublishRecord, PublishSuccess, PublishFails, Reveal, FailClaimed
<1>7. CleanFiles \/ CleanDir \/ CleanSave \/ CleanUnblock => \E p \in WorkerPcs : w' = [w EXCEPT !.pc = p]
  BY <1>5, Zenon DEF CleanFiles, CleanDir, CleanSave, CleanUnblock, CleanupFails
<1> QED BY <1>1, <1>2, <1>3, <1>4, <1>6, <1>7 DEF WorkerNext

\* Every step keeps the cleanup in order.
LEMMA CleanStep == ASSUME Core, CleanInv, [Next]_vars PROVE CleanInv'
<1> USE DEF dbVars, fileVars, CleanInv
<1>p. /\ {"files", "dir", "save", "reveal"} \subseteq LockedPcs \intersect BusyPcs
      /\ {"files", "dir", "save"} \subseteq CleanPcs
  BY Places
<1>1. CASE ~WorkerNext
  <2>1. \A i \in Ids : /\ rows[i].cleanup => rows'[i].cleanup
                       /\ rows'[i].cleanup /\ rows'[i].status = "failed" => rows'[i].active
    BY <1>1, OthersRows
  <2>2. CASE w' = Asleep
    BY <2>1, <2>2, Places DEF Asleep, RowsClean, WorkClean, DueInv, CleanedInv
  <2>3. CASE w' = w
    <3>1. RowsClean' /\ WorkClean'
      BY <2>1, <2>3 DEF RowsClean, WorkClean
    <3>2. DueInv'
      BY <1>p, <2>1, <2>3, Shapes DEF DueInv
    <3>3. CleanedInv'
      <4> SUFFICES ASSUME w.pc \in {"dir", "save"} PROVE CleanedInv'
        BY <2>3 DEF CleanedInv
      <4>1. ~Crash
        BY <2>3 DEF Crash, Asleep
      <4>2. UNCHANGED <<record, art, sig, w>> /\ w.id \in Ids /\ rows[w.id].status \in Ended
        BY <1>1, <1>p, <4>1, OthersWait, Shapes DEF Core, WorkInv
      <4>3. rows'[w.id] = rows[w.id]
        BY <1>1, <1>p, <4>1, <4>2, OthersWait
      <4> QED BY <4>2, <4>3 DEF CleanedInv, Partial
    <3> QED BY <3>1, <3>2, <3>3
  <2> QED BY <1>1, <2>2, <2>3, OthersWorker
<1>2. CASE WorkerNext
  <2>1. RowsClean'
    BY <1>2, WorkerRow DEF RowsClean, RowFails, RowClaimed, RowStarted, RowSucceeds, RowCleaned, OnlyRow
  <2>2. WorkClean'
    BY <1>2, WorkCleanStep
  <2>3. \A i \in Ids : rows[i].cleanup => rows'[i].cleanup \/ (w.pc = "save" /\ w.id = i)
    BY <1>2, WorkerRow DEF RowFails, RowClaimed, RowStarted, RowSucceeds, RowCleaned, OnlyRow
  <2>4. DueInv'
    <3>1. ASSUME NEW i \in w'.clean PROVE rows'[i].cleanup
      <4>1. CASE StartPass
        BY <3>1, <4>1, Shapes DEF StartPass
      <4>2. CASE w'.clean \subseteq w.clean
        <5>1. i \in Ids /\ i \in w.clean /\ rows[i].cleanup
          BY <3>1, <4>2, Shapes DEF DueInv
        <5>2. w.pc = "save" => w.id # i
          BY <1>p, <5>1 DEF WorkClean
        <5> QED BY <2>3, <5>1, <5>2
      <4> QED BY <1>2, <4>1, <4>2, ListShrinks
    <3>2. ASSUME w'.pc \in {"files", "dir", "save", "reveal"} PROVE rows'[w'.id].cleanup
      <4>1. w.pc \in {"files", "dir", "reveal"} => rows[w.id].cleanup
        BY DEF DueInv
      <4>2. \A i \in w.clean : rows[i].cleanup
        BY DEF DueInv
      <4> QED BY <1>2, <3>2, <4>1, <4>2, CleansDue DEF CleanFiles, CleanDir, Reveal
    <3> QED BY <3>1, <3>2 DEF DueInv
  <2>5. CleanedInv'
    <3> SUFFICES ASSUME w'.pc \in {"dir", "save"}, Partial(rows'[w'.id]) PROVE CleanedInv'
      BY DEF CleanedInv
    <3>t. /\ record \in [Artifacts -> Stored] /\ art \in [Artifacts -> Stored] /\ sig \in [Artifacts -> Stored]
          /\ \A i \in Ids : rows[i].status # "none" => rows[i].artifact \in Artifacts
      BY DEF Core, TypeInv, TypeOK, Lifecycle
    <3>1. CASE CleanFiles
      <4>1. w.pc = "files" /\ w.id \in Ids /\ rows' = rows /\ w.ret \in {"sweep", "claim"}
        BY <1>p, <3>1, Shapes DEF CleanFiles
      <4>2. w' # [w EXCEPT !.pc = w.ret]
        BY <4>1, Shapes
      <4>3. /\ w' = [w EXCEPT !.pc = "dir"]
            /\ Partial(rows[w.id]) =>
                 /\ art' = IF rows[w.id].art = None THEN art ELSE [art EXCEPT ![rows[w.id].artifact] = None]
                 /\ Unsigned(rows[w.id].artifact)
        BY <3>1, <4>2, Zenon DEF CleanFiles, CleanupFails
      <4>4. w'.id = w.id
        BY <4>3, Shapes
      <4>5. Partial(rows[w.id]) /\ rows[w.id].artifact \in Artifacts
        BY <3>t, <4>1, <4>4 DEF Partial
      <4> QED BY <3>t, <4>1, <4>3, <4>4, <4>5 DEF Unsigned, CleanedInv
    <3>2. CASE CleanDir
      <4>1. w.pc = "dir" /\ UNCHANGED <<rows, record, art, sig>> /\ w.ret \in {"sweep", "claim"}
        BY <3>2, Shapes, Zenon DEF CleanDir
      <4>2. w' # [w EXCEPT !.pc = w.ret]
        BY <4>1, Shapes
      <4>3. w' = [w EXCEPT !.pc = "save"]
        BY <3>2, <4>2, Zenon DEF CleanDir, CleanupFails
      <4>4. w'.id = w.id
        BY <4>3, Shapes
      <4> QED BY <4>1, <4>4 DEF CleanedInv
    <3> QED BY <1>2, <3>1, <3>2, CleansDue
  <2> QED BY <2>1, <2>2, <2>4, <2>5
<1> QED BY <1>1, <1>2

-----------------------------------------------------------------------------
(* Releases that can still be published stay hidden.                       *)

\* Something has failed, or the process has crashed.
Disturbed == faults + crashes > 0

\* A success that still awaits its clean-up is being cleaned under the lock it was
\* published under, or was left behind by a failure or a crash.
LateInv == \A j \in Ids : rows[j].status = "success" /\ rows[j].cleanup =>
    Disturbed \/ (w.id = j /\ w.pc \in {"reveal", "files", "dir", "save"})

\* Nobody else holds the key of the release that is being ended, unless that is a
\* success left behind.
SoleInv == w.pc \in CleanPcs \union {"reveal"} =>
    \/ \A j \in Ids : rows[j].active /\ rows[j].artifact = rows[w.id].artifact => j = w.id
    \/ w.pc # "reveal" /\ rows[w.id].status = "success" /\ Disturbed

\* A release that is about to be revealed awaits no clean-up any more.
RevealInv == w.pc = "unblock" => ~rows[w.id].cleanup

\* The path of a release that can still be published is hidden, or was revealed by
\* the late clean-up of an earlier success.
CoveredInv == up => \A i \in Ids : rows[i].active /\ rows[i].status # "failed" =>
    rows[i].artifact \in blocked \/ RevealedLate(rows[i].artifact)

CoverInv == LateInv /\ SoleInv /\ RevealInv /\ CoveredInv

\* What has gone wrong stays counted.
LEMMA Misfortunes ==
    ASSUME Core, [Next]_vars
    PROVE  (Disturbed => Disturbed') /\ (Crash \/ Fault => Disturbed')
<1> USE DEF dbVars, fileVars
<1>0. faults \in Nat /\ crashes \in Nat
  BY DEF Core, TypeInv, TypeOK
<1>f. Fault => faults' = faults + 1
  BY DEF Fault
<1>n. NoFault => faults' = faults
  BY DEF NoFault
<1> DEFINE Counted == (faults' = faults \/ faults' = faults + 1) /\ crashes' = crashes
<1>1. CASE UNCHANGED vars \/ Restore \/ \E i \in Ids : Elapse(i)
  <2>1. Counted
    BY <1>1 DEF vars, Restore, Elapse
  <2> QED BY <1>0, <1>f, <2>1 DEF Disturbed, Crash
<1>2. CASE Crash
  <2>1. faults' = faults /\ crashes' = crashes + 1
    BY <1>2 DEF Crash
  <2> QED BY <1>0, <2>1 DEF Disturbed
<1>3. ASSUME NEW a \in Artifacts, UploadNext(a) PROVE Counted
  BY <1>3, <1>f, <1>n, Zenon DEF UploadNext, BeginPut, AbandonPut, Stage, StageCompanion, DirectUnsign
<1>4. ASSUME DeleteNext PROVE Counted
  BY <1>4, <1>f, <1>n, Zenon DEF DeleteNext, BeginDelete, BeginDeleteTree, DeleteSignature, Discard
<1>5. ASSUME RequestNext PROVE Counted
  BY <1>5, <1>f, <1>n, Zenon DEF RequestNext, SaveStaged, DirectCommit, Commit, DeleteUnsign, DeleteFile,
     DeleteSiblings, DeleteTree, DeleteRecords
<1>6. ASSUME WorkerNext PROVE Counted
  <2>1. CASE StartPass \/ EndSweep \/ EndPass \/ Verify \/ VerifyFails \/ Reveal \/ CleanUnblock
    BY <2>1, <1>f, <1>n, Zenon DEF StartPass, EndSweep, EndPass, Verify, VerifyFails, Reveal, CleanUnblock
  <2>2. CASE PublishUnsign \/ PublishArtifact \/ PublishSignature \/ PublishRecord \/ PublishSuccess
    BY <2>2, <1>f, <1>n, Zenon DEF PublishUnsign, PublishArtifact, PublishSignature, PublishRecord,
       PublishSuccess, PublishFails
  <2>3. ASSUME NEW i \in Ids, SweepClean(i) \/ SweepExpire(i) \/ Claim(i) PROVE Counted
    <3>1. CASE Expirable(i)
      BY <2>3, <3>1, <1>f, <1>n, Zenon DEF SweepClean, SweepExpire, Claim
    <3>2. CASE ~Expirable(i)
      BY <2>3, <3>2, <1>f, <1>n, Zenon DEF SweepClean, SweepExpire, Claim
    <3> QED BY <3>1, <3>2
  <2>4. CASE LockRelease \/ FailClaimed
    BY <2>4, <1>f, <1>n, Zenon DEF LockRelease, FailClaimed
  <2>5. CASE CleanFiles \/ CleanDir \/ CleanSave
    BY <2>5, <1>f, <1>n, Zenon DEF CleanFiles, CleanDir, CleanSave, CleanupFails
  <2> QED BY <1>6, <2>1, <2>2, <2>3, <2>4, <2>5 DEF WorkerNext
<1>7. CASE Counted
  <2>1. ~Crash
    BY <1>0, <1>7 DEF Crash
  <2> QED BY <1>0, <1>f, <1>7, <2>1 DEF Disturbed
<1> HIDE DEF Counted
<1> QED BY <1>1, <1>2, <1>3, <1>4, <1>5, <1>6, <1>7 DEF Next

\* What a step may do to one release: only a request that hides its path gives it a
\* key, a success stays one, and only the worker makes one.
LEMMA RowFate ==
    ASSUME Core, [Next]_vars, NEW i \in Ids
    PROVE  /\ rows'[i].active =>
                \/ /\ rows[i].active /\ rows'[i].artifact = rows[i].artifact
                   /\ rows[i].status = "failed" => rows'[i].status = "failed"
                \/ \E a \in Artifacts :
                      SaveStaged(a) /\ rows'[i].artifact = a /\ blocked' = blocked \union {a}
           /\ rows[i].status = "success" =>
                /\ rows'[i].status = "success" /\ rows'[i].artifact = rows[i].artifact
                /\ rows'[i].cleanup => rows[i].cleanup
           /\ rows'[i].status = "success" /\ rows[i].status # "success" =>
                w.pc = "success" /\ i = w.id /\ WorkerNext
<1> USE DEF dbVars, fileVars
<1> DEFINE Same == /\ rows'[i].active = rows[i].active /\ rows'[i].artifact = rows[i].artifact
                   /\ rows'[i].cleanup = rows[i].cleanup
                   /\ \/ rows'[i].status = rows[i].status
                      \/ rows[i].status \notin Ended /\ rows'[i].status \notin Ended
           Fate == /\ rows'[i].active =>
                        \/ /\ rows[i].active /\ rows'[i].artifact = rows[i].artifact
                           /\ rows[i].status = "failed" => rows'[i].status = "failed"
                        \/ \E a \in Artifacts :
                              SaveStaged(a) /\ rows'[i].artifact = a /\ blocked' = blocked \union {a}
                   /\ rows[i].status = "success" =>
                        /\ rows'[i].status = "success" /\ rows'[i].artifact = rows[i].artifact
                        /\ rows'[i].cleanup => rows[i].cleanup
                   /\ rows'[i].status = "success" /\ rows[i].status # "success" =>
                        w.pc = "success" /\ i = w.id /\ WorkerNext
<1>k. Same => Fate
  BY DEF Ended
<1>r. rows' = rows => Same
  OBVIOUS
<1>l. rows[i].active => rows[i].status # "success"
  BY DEF Core, Lifecycle
<1>1. ASSUME UNCHANGED vars PROVE Fate
  BY <1>1, <1>r, <1>k DEF vars
<1>2. ASSUME NEW j \in Ids, Elapse(j) PROVE Same
  BY <1>2, Shapes DEF Elapse
<1>3. ASSUME Crash PROVE Fate
  BY <1>3, <1>r, <1>k DEF Crash
<1>4. ASSUME Restore PROVE Same
  BY <1>4, Shapes DEF Restore, Ended
<1>5. ASSUME NEW a \in Artifacts, UploadNext(a) PROVE rows' = rows
  BY <1>5 DEF UploadNext, BeginPut, AbandonPut, Stage, StageCompanion, DirectUnsign
<1>6. ASSUME DeleteNext PROVE Fate
  <2>1. ASSUME NEW D, NEW o, Discard(D, o) PROVE Fate
    <3>1. CASE rows'[i] = rows[i]
      BY <3>1, <1>k
    <3>2. CASE /\ SameAbout(i) /\ rows[i].active /\ rows'[i].status = "failed"
      BY <3>2, <1>l DEF SameAbout
    <3> QED BY <2>1, <3>1, <3>2, DiscardRows
  <2> QED BY <1>6, <1>r, <1>k, <2>1 DEF DeleteNext, BeginDelete, BeginDeleteTree, DeleteSignature
<1>7. ASSUME NEW a \in Artifacts, SaveStaged(a) PROVE Fate
  <2>1. CASE rows'[i] = rows[i]
    BY <2>1, <1>k
  <2>2. CASE rows'[i] # rows[i]
    <3>1. /\ i = op.id /\ rows'[i].status = "queued" /\ rows'[i].artifact = a
          /\ blocked' = blocked \union {a}
      BY <1>7, <2>2, SaveRows
    <3>2. rows[i].status \in {"none", "queued"}
      BY <1>7, <3>1, SaveRows DEF Core, SaveInv
    <3> QED BY <1>7, <3>1, <3>2
  <2> QED BY <2>1, <2>2
<1>8. ASSUME RequestNext PROVE Fate
  BY <1>8, <1>7, <1>r, <1>k, RequestRows
<1>9. ASSUME WorkerNext PROVE Fate
  BY <1>9, <1>l, <1>r, <1>k, WorkerRow
  DEF RowFails, RowClaimed, RowStarted, RowSucceeds, RowCleaned, OnlyRow, SameAbout, Ended
<1> SUFFICES Fate
  OBVIOUS
<1> HIDE DEF Same, Fate
<1> QED BY <1>1, <1>2, <1>3, <1>4, <1>5, <1>6, <1>8, <1>9, <1>r, <1>k DEF Next

\* Without a request that saves a release no artifact gets another one.
LEMMA KeysKept ==
    ASSUME Core, [Next]_vars, op.pc = "idle" \/ WorkerNext, NEW i \in Ids, rows'[i].active
    PROVE  rows[i].active /\ rows'[i].artifact = rows[i].artifact
<1>1. ASSUME NEW b \in Artifacts, SaveStaged(b) PROVE FALSE
  <2>1. op.pc = "save" /\ op' = NoOp
    BY <1>1 DEF SaveStaged
  <2> QED BY <2>1, WorkerLeaves DEF NoOp
<1> QED BY <1>1, RowFate

\* The steps of a pass that end no release.
LEMMA PassGoesOn ==
    ASSUME Core, StartPass \/ EndSweep \/ EndPass \/ Verify \/ VerifyFails \/ \E i \in Ids : Claim(i)
    PROVE  w'.pc \in {"sweep", "claim", "asleep", "lock", "fail", "verify"}
<1>1. CASE StartPass
  BY <1>1, Shapes DEF StartPass
<1>2. CASE EndSweep
  BY <1>2, Shapes DEF EndSweep
<1>3. CASE EndPass
  BY <1>3 DEF EndPass, Asleep
<1>4. CASE Verify
  BY <1>4, Shapes DEF Verify
<1>5. CASE VerifyFails
  BY <1>5, Shapes DEF VerifyFails
<1>6. ASSUME NEW i \in Ids, Claim(i) PROVE w'.pc = "verify"
  BY <1>6, Shapes DEF Claim
<1> QED BY <1>1, <1>2, <1>3, <1>4, <1>5, <1>6

\* How the worker comes to end a release: it held its key until then, or it is a
\* success, just published or left behind.
LEMMA EndsBegin ==
    ASSUME Core, CleanInv, WorkerNext, w'.pc \in {"files", "reveal"}
    PROVE  /\ w'.id \in Ids
           /\ \/ rows[w'.id].active
              \/ w'.pc = "files" /\ w.pc = "reveal" /\ w'.id = w.id
              \/ /\ w'.pc = "files" /\ w.pc = "sweep"
                 /\ rows[w'.id].status = "success" /\ rows[w'.id].cleanup
<1> USE DEF dbVars, fileVars
<1>t. [Next]_vars
  BY DEF Next
<1>b. /\ w.pc \in {"files", "reveal", "lock", "success", "fail"} => w.id \in Ids
      /\ w.pc \in PublishPcs => rows[w.id].active
  BY Shapes, Places DEF Core, WorkInv
<1>1. ASSUME NEW i \in Ids, SweepClean(i)
      PROVE  /\ w'.id = i /\ w'.pc = "files" /\ w.pc = "sweep"
             /\ rows[i].active \/ (rows[i].status = "success" /\ rows[i].cleanup)
  <2>1. i \in w.clean /\ w'.id = i /\ w'.pc = "files" /\ w.pc = "sweep"
    BY <1>1, Shapes DEF SweepClean
  <2> QED BY <2>1 DEF CleanInv, DueInv, RowsClean, Core, WorkInv, Ended
<1>2. ASSUME NEW i \in Ids, SweepExpire(i) PROVE w'.id = i /\ rows[i].active
  <2>1. w' # [w EXCEPT !.expire = @ \ {i}]
    BY <1>2, Shapes DEF SweepExpire
  <2>2. Expirable(i) /\ w' = [w EXCEPT !.pc = "files", !.expire = @ \ {i}, !.id = i, !.ret = "sweep"]
    BY <1>2, <2>1, Zenon DEF SweepExpire
  <2> QED BY <2>2, Shapes DEF Expirable
<1>3. ASSUME LockRelease PROVE w'.id = w.id /\ w.pc = "lock" /\ rows[w.id].active
  <2>1. w' # [w EXCEPT !.pc = "unsign"] /\ w' # [w EXCEPT !.pc = "fail"] /\ w' # [w EXCEPT !.pc = "claim"]
    BY Shapes
  <2>2. w.pc = "lock" /\ rows[w.id].active /\ w' = [w EXCEPT !.pc = "files", !.ret = "claim"]
    BY <1>3, <2>1, Zenon DEF LockRelease
  <2> QED BY <2>2, Shapes
<1>4. ASSUME PublishSuccess PROVE w'.id = w.id /\ w.pc = "success" /\ rows[w.id].active
  <2>1. w.pc = "success" /\ (w' = [w EXCEPT !.pc = "reveal"] \/ w' = [w EXCEPT !.pc = "fail"])
    BY <1>4, Zenon DEF PublishSuccess, PublishFails
  <2> QED BY <1>b, <2>1, Shapes, Places
<1>5. ASSUME FailClaimed PROVE w'.id = w.id /\ w.pc = "fail" /\ rows[w.id].active
  <2>1. w' # [w EXCEPT !.pc = "claim"]
    BY Shapes
  <2>2. w.pc = "fail" /\ rows[w.id].active /\ w' = [w EXCEPT !.pc = "files", !.ret = "claim"]
    BY <1>5, <2>1, Zenon DEF FailClaimed
  <2> QED BY <2>2, Shapes
<1>6. ASSUME Reveal PROVE w'.id = w.id /\ w'.pc = "files" /\ w.pc = "reveal"
  BY <1>6, Shapes DEF Reveal
<1>7. /\ ~StartPass /\ ~EndSweep /\ ~EndPass /\ ~Verify /\ ~VerifyFails
      /\ \A i \in Ids : ~Claim(i)
  BY PassGoesOn
<1>8. ~PublishUnsign /\ ~PublishArtifact /\ ~PublishSignature /\ ~PublishRecord
  <2>1. PublishUnsign \/ PublishArtifact \/ PublishSignature \/ PublishRecord =>
          \E p \in {"artifact", "signature", "record", "success", "fail"} : w' = [w EXCEPT !.pc = p]
    BY Zenon DEF PublishUnsign, PublishArtifact, PublishSignature, PublishRecord, PublishFails
  <2> QED BY <2>1, Shapes
<1>9. ~CleanFiles /\ ~CleanDir /\ ~CleanSave /\ ~CleanUnblock
  <2>1. CleanFiles \/ CleanDir \/ CleanSave \/ CleanUnblock =>
          \E p \in {"dir", "save", "unblock", w.ret} : w' = [w EXCEPT !.pc = p]
    BY Zenon DEF CleanFiles, CleanDir, CleanSave, CleanUnblock, CleanupFails
  <2> QED BY <2>1, Shapes
<1> DEFINE Goal == /\ w'.id \in Ids
                   /\ \/ rows[w'.id].active
                      \/ w'.pc = "files" /\ w.pc = "reveal" /\ w'.id = w.id
                      \/ /\ w'.pc = "files" /\ w.pc = "sweep"
                         /\ rows[w'.id].status = "success" /\ rows[w'.id].cleanup
<1>10. ASSUME NEW i \in Ids, SweepClean(i) \/ SweepExpire(i) PROVE Goal
  BY <1>10, <1>1, <1>2
<1>11. ASSUME LockRelease \/ PublishSuccess \/ FailClaimed \/ Reveal PROVE Goal
  BY <1>11, <1>b, <1>3, <1>4, <1>5, <1>6
<1> SUFFICES Goal
  OBVIOUS
<1> HIDE DEF Goal
<1> QED BY <1>7, <1>8, <1>9, <1>10, <1>11 DEF WorkerNext

\* The steps of the clean-up itself go on with the release they are about.
LEMMA EndsGoOn ==
    ASSUME Core, WorkerNext, w'.pc \in {"dir", "save", "unblock"}
    PROVE  /\ w'.id = w.id /\ w.id \in Ids
           /\ \/ w.pc = "files" /\ w'.pc = "dir" /\ rows' = rows
              \/ w.pc = "dir" /\ w'.pc = "save" /\ rows' = rows
              \/ w.pc = "save" /\ w'.pc = "unblock" /\ RowCleaned(w.id)
<1> USE DEF dbVars, fileVars
<1>b. w.pc \in {"files", "dir", "save"} => w.id \in Ids
  BY Shapes, Places
<1>1. CASE w'.pc \in {"dir", "save"}
  <2>1. \/ CleanFiles /\ w'.pc = "dir" /\ rows' = rows /\ w'.id = w.id
        \/ CleanDir /\ w'.pc = "save" /\ rows' = rows /\ w'.id = w.id
    BY <1>1, CleansDue
  <2> QED BY <1>b, <2>1 DEF CleanFiles, CleanDir
<1>2. CASE w'.pc = "unblock"
  <2>1. CASE CleanSave
    <3>1. w.pc = "save" /\ w.id \in Ids /\ w.ret \in {"sweep", "claim"}
      BY <2>1, Shapes, Places DEF CleanSave
    <3>2. w' # [w EXCEPT !.pc = w.ret]
      BY <1>2, <3>1, Shapes
    <3>3. /\ rows' = [rows EXCEPT ![w.id].active = FALSE, ![w.id].cleanup = FALSE]
          /\ w' = [w EXCEPT !.pc = "unblock"]
      BY <2>1, <3>2, Zenon DEF CleanSave, CleanupFails
    <3>4. w'.id = w.id
      BY <3>3, Shapes
    <3>5. rows[w.id].status \in Ended
      BY <3>1, Places DEF Core, WorkInv
    <3> QED BY <1>2, <3>1, <3>3, <3>4, <3>5, Shapes DEF RowCleaned, OnlyRow, SameAbout
  <2>2. CASE ~CleanSave
    <3>1. CASE w.pc \in LockedPcs
      <4>1. \E p \in {"artifact", "signature", "record", "success", "reveal", "files", "fail", "dir", "save", w.ret} :
               w' = [w EXCEPT !.pc = p] \/ w' = [w EXCEPT !.pc = p, !.ret = "claim"]
        BY <2>2, <3>1, WorkerLocked, Zenon
        DEF PublishUnsign, PublishArtifact, PublishSignature, PublishRecord, PublishSuccess, PublishFails,
            Reveal, CleanFiles, CleanDir, CleanUnblock, CleanupFails
      <4> QED BY <1>2, <4>1, Shapes
    <3>2. CASE w.pc \notin LockedPcs
      <4>1. ~CleanFiles /\ ~CleanDir /\ ~CleanUnblock /\ ~Reveal
        BY <3>2, Places DEF CleanFiles, CleanDir, CleanUnblock, Reveal
      <4>2. ~PublishUnsign /\ ~PublishArtifact /\ ~PublishSignature /\ ~PublishRecord /\ ~PublishSuccess
        BY <3>2, Places DEF PublishUnsign, PublishArtifact, PublishSignature, PublishRecord, PublishSuccess
      <4>3. ~StartPass /\ ~EndSweep /\ ~EndPass /\ ~Verify /\ ~VerifyFails
        BY <1>2, PassGoesOn
      <4>4. \A i \in Ids : ~SweepClean(i) /\ ~SweepExpire(i) /\ ~Claim(i)
        BY <1>2, Shapes DEF SweepClean, SweepExpire, Claim
      <4>5. ~LockRelease /\ ~FailClaimed
        <5>1. LockRelease \/ FailClaimed =>
                \E p \in {"unsign", "fail", "files", "claim"} :
                   w' = [w EXCEPT !.pc = p] \/ w' = [w EXCEPT !.pc = p, !.ret = "claim"]
          BY Zenon DEF LockRelease, FailClaimed
        <5> QED BY <1>2, <5>1, Shapes
      <4> QED BY <2>2, <4>1, <4>2, <4>3, <4>4, <4>5 DEF WorkerNext
    <3> QED BY <3>1, <3>2
  <2> QED BY <2>1, <2>2
<1> QED BY <1>1, <1>2

\* A success that awaits its clean-up is being cleaned, or was left behind.
LEMMA LateStep == ASSUME Core, CleanInv, LateInv, [Next]_vars PROVE LateInv'
<1> USE DEF dbVars, fileVars
<1> SUFFICES ASSUME NEW j \in Ids, rows'[j].status = "success", rows'[j].cleanup, ~Disturbed'
             PROVE  w'.id = j /\ w'.pc \in {"reveal", "files", "dir", "save"}
  BY DEF LateInv
<1>0. ~Disturbed /\ ~Crash /\ ~Fault
  BY Misfortunes
<1>1. CASE rows[j].status # "success"
  <2>1. w.pc = "success" /\ j = w.id /\ WorkerNext
    BY <1>1, RowFate
  <2>2. PublishSuccess
    BY <2>1, Places, WorkerLocked DEF PublishUnsign, PublishArtifact, PublishSignature, PublishRecord, Reveal,
       CleanFiles, CleanDir, CleanSave, CleanUnblock
  <2>3. w' = [w EXCEPT !.pc = "reveal"]
    BY <1>0, <2>2, Zenon DEF PublishSuccess, PublishFails
  <2> QED BY <2>1, <2>3, Shapes
<1>2. CASE rows[j].status = "success"
  <2>1. w.id = j /\ w.pc \in {"reveal", "files", "dir", "save"}
    BY <1>0, <1>2, RowFate DEF LateInv
  <2>2. CASE ~WorkerNext
    BY <1>0, <2>1, <2>2, OthersWorker
  <2>3. CASE WorkerNext
    <3>1. Reveal \/ CleanFiles \/ CleanDir \/ CleanSave
      BY <2>1, <2>3, Places, WorkerLocked DEF PublishUnsign, PublishArtifact, PublishSignature, PublishRecord,
         PublishSuccess, Reveal, CleanFiles, CleanDir, CleanSave, CleanUnblock
    <3>2. ~CleanSave
      <4>1. CleanSave => rows' = [rows EXCEPT ![w.id].active = FALSE, ![w.id].cleanup = FALSE]
        BY <1>0, Zenon DEF CleanSave, CleanupFails
      <4> QED BY <2>1, <4>1, Shapes
    <3>3. \/ w' = [w EXCEPT !.pc = "files", !.ret = "claim"] \/ w' = [w EXCEPT !.pc = "dir"]
          \/ w' = [w EXCEPT !.pc = "save"]
      BY <1>0, <3>1, <3>2, Zenon DEF Reveal, CleanFiles, CleanDir, CleanupFails
    <3> QED BY <2>1, <3>3, Shapes
  <2> QED BY <2>2, <2>3
<1> QED BY <1>1, <1>2

\* The release that is being ended is alone, or a success left behind.
LEMMA SoleStep == ASSUME Core, CleanInv, LateInv, SoleInv, [Next]_vars PROVE SoleInv'
<1> SUFFICES ASSUME w'.pc \in {"files", "dir", "save", "unblock", "reveal"}
             PROVE  \/ \A j \in Ids : rows'[j].active /\ rows'[j].artifact = rows'[w'.id].artifact => j = w'.id
                    \/ w'.pc # "reveal" /\ rows'[w'.id].status = "success" /\ Disturbed'
  BY Places DEF SoleInv
<1>0. Disturbed => Disturbed'
  BY Misfortunes
<1>1. CASE ~WorkerNext
  <2>1. w' = w /\ ~Crash
    <3>1. w' # Asleep
      BY DEF Asleep
    <3> QED BY <1>1, <3>1, OthersWorker DEF Crash
  <2>2. w.pc \in LockedPcs /\ w.id \in Ids /\ rows[w.id].status \in Ended /\ op.pc = "idle"
    BY <2>1, Shapes, Places, LockedAlone DEF Core, WorkInv
  <2>3. rows'[w.id] = rows[w.id]
    BY <1>1, <2>1, <2>2, OthersWait
  <2>4. \A j \in Ids : rows'[j].active => rows[j].active /\ rows'[j].artifact = rows[j].artifact
    BY <2>2, KeysKept
  <2>5. \/ \A j \in Ids : rows[j].active /\ rows[j].artifact = rows[w.id].artifact => j = w.id
        \/ w.pc # "reveal" /\ rows[w.id].status = "success" /\ Disturbed
    BY <2>1, Places DEF SoleInv
  <2> QED BY <1>0, <2>1, <2>3, <2>4, <2>5
<1>2. CASE WorkerNext /\ w'.pc \in {"files", "reveal"}
  <2>0. PICK i \in Ids : i = w'.id
    BY <1>2, EndsBegin
  <2>a. rows'[i].artifact = rows[i].artifact
    BY <1>2, WorkerRow DEF RowFails, RowClaimed, RowStarted, RowSucceeds, RowCleaned, OnlyRow, SameAbout
  <2>b. \A j \in Ids : rows'[j].active => rows[j].active /\ rows'[j].artifact = rows[j].artifact
    BY <1>2, KeysKept
  <2>1. CASE rows[i].active
    <3>1. \A j \in Ids : rows[j].active /\ rows[j].artifact = rows[i].artifact => j = i
      BY <2>1 DEF Core, OneActiveRelease
    <3> QED BY <2>0, <2>a, <2>b, <3>1
  <2>2. CASE w'.pc = "files" /\ w.pc = "reveal" /\ i = w.id
    <3>1. \A j \in Ids : rows[j].active /\ rows[j].artifact = rows[i].artifact => j = i
      BY <2>2, Places DEF SoleInv
    <3> QED BY <2>0, <2>a, <2>b, <3>1
  <2>3. CASE w'.pc = "files" /\ w.pc = "sweep" /\ rows[i].status = "success" /\ rows[i].cleanup
    <3>1. Disturbed /\ rows'[i].status = "success"
      BY <2>3, RowFate DEF LateInv
    <3> QED BY <1>0, <2>0, <2>3, <3>1
  <2> QED BY <1>2, <2>0, <2>1, <2>2, <2>3, EndsBegin
<1>3. CASE WorkerNext /\ w'.pc \in {"dir", "save", "unblock"}
  <2>1. w'.id = w.id /\ w.id \in Ids /\ w.pc \in {"files", "dir", "save"}
    BY <1>3, EndsGoOn
  <2>2. rows'[w.id].artifact = rows[w.id].artifact /\ rows'[w.id].status = rows[w.id].status
    BY <1>3, <2>1, EndsGoOn DEF RowCleaned, OnlyRow, SameAbout
  <2>3. \A j \in Ids : rows'[j].active => rows[j].active /\ rows'[j].artifact = rows[j].artifact
    BY <1>3, KeysKept
  <2>4. \/ \A j \in Ids : rows[j].active /\ rows[j].artifact = rows[w.id].artifact => j = w.id
        \/ rows[w.id].status = "success" /\ Disturbed
    BY <2>1, Places DEF SoleInv
  <2> QED BY <1>0, <1>3, <2>1, <2>2, <2>3, <2>4
<1> QED BY <1>1, <1>2, <1>3

\* What is about to be revealed was cleaned.
LEMMA RevealStep == ASSUME Core, RevealInv, [Next]_vars PROVE RevealInv'
<1> SUFFICES ASSUME w'.pc = "unblock" PROVE ~rows'[w'.id].cleanup
  BY DEF RevealInv
<1>1. CASE ~WorkerNext
  <2>1. w' = w /\ ~Crash
    <3>1. w' # Asleep
      BY DEF Asleep
    <3> QED BY <1>1, <3>1, OthersWorker DEF Crash
  <2>2. w.pc \in LockedPcs /\ w.id \in Ids /\ rows[w.id].status \in Ended
    BY <2>1, Shapes, Places DEF Core, WorkInv
  <2> QED BY <1>1, <2>1, <2>2, OthersWait DEF RevealInv
<1>2. CASE WorkerNext
  BY <1>2, EndsGoOn DEF RowCleaned
<1> QED BY <1>1, <1>2

\* A path is taken out of hiding by the worker or by a crash alone.
LEMMA BlockedKept ==
    ASSUME Core, [Next]_vars, up'
    PROVE  Restore \/ (up /\ (blocked \subseteq blocked' \/ Reveal \/ CleanUnblock))
<1> USE DEF dbVars, fileVars
<1>1. CASE UNCHANGED vars \/ \E i \in Ids : Elapse(i)
  BY <1>1 DEF vars, Elapse
<1>2. ~Crash
  BY DEF Crash
<1>3. ASSUME NEW a \in Artifacts, UploadNext(a) PROVE up /\ blocked \subseteq blocked'
  BY <1>3 DEF UploadNext, BeginPut, AbandonPut, Stage, StageCompanion, DirectUnsign
<1>4. ASSUME DeleteNext PROVE up /\ blocked \subseteq blocked'
  BY <1>4 DEF DeleteNext, BeginDelete, BeginDeleteTree, DeleteSignature
<1>5. ASSUME RequestNext PROVE up /\ blocked \subseteq blocked'
  <2>1. ASSUME NEW a \in Artifacts, SaveStaged(a) PROVE blocked \subseteq blocked'
    BY <2>1, SaveRows
  <2>2. ASSUME NEW a \in Artifacts, DirectCommit(a) \/ DeleteUnsign(a) \/ DeleteFile(a) \/ DeleteSiblings(a)
        PROVE  blocked' = blocked
    BY <2>2, Zenon DEF DirectCommit, DeleteUnsign, DeleteFile, DeleteSiblings
  <2>3. DeleteTree \/ DeleteRecords => blocked' = blocked
    BY Zenon DEF DeleteTree, DeleteRecords
  <2> QED BY <1>5, <2>1, <2>2, <2>3, RequestMoves, LockedAlone DEF RequestNext
<1>6. ASSUME WorkerNext, ~Reveal, ~CleanUnblock PROVE up /\ blocked' = blocked
  <2>1. up
    BY <1>6, WorkerLeaves
  <2>2. CASE w.pc \notin LockedPcs
    BY <1>6, <2>1, <2>2, WorkerWaits
  <2>3. CASE w.pc \in LockedPcs
    <3>1. \/ PublishUnsign \/ PublishArtifact \/ PublishSignature \/ PublishRecord \/ PublishSuccess
          \/ CleanFiles \/ CleanDir \/ CleanSave
      BY <1>6, <2>3, WorkerLocked
    <3> QED BY <2>1, <3>1, Zenon DEF PublishUnsign, PublishArtifact, PublishSignature, PublishRecord,
            PublishSuccess, CleanFiles, CleanDir, CleanSave
  <2> QED BY <2>2, <2>3
<1>7. ASSUME Next PROVE Restore \/ (up /\ (blocked \subseteq blocked' \/ Reveal \/ CleanUnblock))
  <2>1. Reveal \/ CleanUnblock => up
    BY LockedAlone, Places DEF Reveal, CleanUnblock
  <2>2. (\E i \in Ids : Elapse(i)) => up' = up /\ blocked' = blocked
    BY DEF Elapse
  <2> QED BY <1>2, <1>3, <1>4, <1>5, <1>6, <1>7, <2>1, <2>2 DEF Next
<1> QED BY <1>1, <1>7

\* The path of a release that can still be published comes out of hiding only when
\* an earlier success of its artifact is cleaned late.
LEMMA RevealedOnlyLate ==
    ASSUME Core, SoleInv, RevealInv, [Next]_vars, up', NEW i \in Ids, rows[i].active, rows[i].status # "failed",
           rows[i].artifact \in blocked, rows[i].artifact \notin blocked'
    PROVE  w.pc = "unblock" /\ RevealedLate(rows[i].artifact)
<1> USE DEF dbVars, fileVars
<1>l. rows[i].status \notin Ended
  BY DEF Core, Lifecycle, Ended
<1>1. ~Restore
  <2>1. Pending(i) /\ rows[i].status # "success"
    BY <1>l DEF Pending, Ended
  <2> QED BY <2>1 DEF Restore
<1>2. /\ w.pc \in {"reveal", "unblock"} /\ w.id \in Ids /\ rows[w.id].status \in Ended
      /\ rows[i].artifact = rows[w.id].artifact
  <2>1. Reveal \/ CleanUnblock
    BY <1>1, BlockedKept
  <2>2. w.pc \in {"reveal", "unblock"} /\ blocked' = blocked \ {rows[w.id].artifact}
    BY <2>1 DEF Reveal, CleanUnblock
  <2> QED BY <2>2, Shapes, Places DEF Core, WorkInv
<1>3. i # w.id
  BY <1>2, <1>l
<1>4. w.pc = "unblock" /\ rows[w.id].status = "success" /\ Disturbed /\ ~rows[w.id].cleanup
  BY <1>2, <1>3, Places DEF SoleInv, RevealInv
<1> QED BY <1>2, <1>4 DEF RevealedLate, Disturbed

\* A release that can still be published stays covered.
LEMMA CoveredStep == ASSUME Core, SoleInv, RevealInv, CoveredInv, [Next]_vars PROVE CoveredInv'
<1> SUFFICES ASSUME up', NEW i \in Ids, rows'[i].active, rows'[i].status # "failed"
             PROVE  (rows[i].artifact \in blocked \/ RevealedLate(rows[i].artifact))'
  BY DEF CoveredInv
<1>1. CASE \E a \in Artifacts : SaveStaged(a) /\ rows'[i].artifact = a /\ blocked' = blocked \union {a}
  BY <1>1
<1>2. CASE rows[i].active /\ rows[i].status # "failed" /\ rows'[i].artifact = rows[i].artifact
  <2>1. rows[i].status # "success"
    BY <1>2 DEF Core, Lifecycle
  <2>2. ASSUME RevealedLate(rows[i].artifact) PROVE RevealedLate(rows[i].artifact)'
    <3>1. PICK j \in Ids : rows[j].artifact = rows[i].artifact /\ rows[j].status = "success" /\ ~rows[j].cleanup
      BY <2>2 DEF RevealedLate
    <3>2. rows'[j].artifact = rows[i].artifact /\ rows'[j].status = "success" /\ ~rows'[j].cleanup
      <4>1. rows'[j].cleanup \in BOOLEAN /\ rows[j].cleanup \in BOOLEAN
        BY CoreStep, Shapes DEF Core, TypeInv, TypeOK, Rows
      <4> QED BY <3>1, <4>1, RowFate
    <3>3. Disturbed'
      BY <2>2, Misfortunes DEF RevealedLate, Disturbed
    <3> QED BY <1>2, <3>2, <3>3 DEF RevealedLate, Disturbed
  <2>3. CASE Restore
    BY <1>2, <2>1, <2>3 DEF Restore, Pending
  <2>4. CASE ~Restore
    <3>1. up
      BY <2>4, BlockedKept
    <3>2. rows[i].artifact \in blocked \/ RevealedLate(rows[i].artifact)
      BY <1>2, <3>1 DEF CoveredInv
    <3> QED BY <1>2, <2>2, <3>2, RevealedOnlyLate
  <2> QED BY <2>3, <2>4
<1> QED BY <1>1, <1>2, RowFate

\* Every step keeps releases covered.
LEMMA CoverStep == ASSUME Core, CleanInv, CoverInv, [Next]_vars PROVE CoverInv'
BY LateStep, SoleStep, RevealStep, CoveredStep DEF CoverInv

-----------------------------------------------------------------------------
(* The theorems.                                                           *)

Pub ==
    /\ Core /\ HiddenInv /\ LimitInv /\ PendingBounded /\ RequestInv /\ RequireInv
    /\ VerifiedInv /\ PublishedInv /\ RecordMatchesArtifact /\ CleanInv /\ CoverInv

\* A fresh installation satisfies the invariant.
LEMMA PubInit == Init => Pub
<1> SUFFICES ASSUME Init PROVE Pub
  OBVIOUS
<1>1. Core
  BY CoreInit
<1>2. \A i \in Ids : ~rows[i].active /\ ~rows[i].cleanup /\ rows[i].art = None
  BY DEF Init, NoRow
<1>3. PendingBounded
  <2>1. {i \in Ids : rows[i].active} = {}
    BY <1>2
  <2>2. \A u \in Users : {i \in Ids : rows[i].active /\ rows[i].uploader = u} = {}
    BY <1>2
  <2>3. Cardinality({}) = 0
    BY FS_EmptySet
  <2>4. Cardinality({i \in Ids : rows[i].active}) = 0
    BY <2>1, <2>3
  <2>5. \A u \in Users : Cardinality({i \in Ids : rows[i].active /\ rows[i].uploader = u}) = 0
    BY <2>2, <2>3
  <2>6. 0 <= MaxPending /\ 0 <= MaxPendingPerUser
    BY BoundsAssumption
  <2> QED BY <2>4, <2>5, <2>6 DEF PendingBounded
<1>4. HiddenInv /\ LimitInv /\ RequestInv /\ RequireInv
  BY <1>2 DEF Init, NoOp, HiddenInv, LimitInv, RequestInv, DeletePcs, RequireInv
<1>5. w.pc \notin PublishPcs \union CleanPcs \union {"lock", "claim", "verify", "fail", "reveal"} /\ w.clean = {}
  BY Places DEF Init, Asleep
<1>6. VerifiedInv /\ PublishedInv
  BY <1>5 DEF Init, Asleep, VerifiedInv, PublishedInv
<1>7. RecordMatchesArtifact
  BY DEF Init, RecordMatchesArtifact
<1>8. CleanInv
  BY <1>2, <1>5, Places DEF CleanInv, RowsClean, WorkClean, DueInv, CleanedInv
<1>9. CoverInv
  BY <1>2, <1>5, Places DEF CoverInv, LateInv, SoleInv, RevealInv, CoveredInv
<1> QED BY <1>1, <1>3, <1>4, <1>6, <1>7, <1>8, <1>9 DEF Pub

\* Every step keeps the invariant.
LEMMA PubStep == Pub /\ [Next]_vars => Pub'
<1> SUFFICES ASSUME Pub, [Next]_vars PROVE Pub'
  OBVIOUS
<1>1. Core'
  BY CoreStep DEF Pub
<1>2. HiddenInv' /\ LimitInv' /\ PendingBounded'
  BY HiddenStep, LimitStep DEF Pub
<1>3. RequestInv' /\ RequireInv'
  BY RequestStep, RequireStep DEF Pub
<1>4. VerifiedInv'
  <2>1. CASE WorkerNext
    BY <2>1, VerifiedWorker DEF Pub
  <2>2. CASE ~WorkerNext
    BY <2>2, VerifiedOthers DEF Pub
  <2> QED BY <2>1, <2>2
<1>5. PublishedInv' /\ RecordMatchesArtifact'
  BY PublishedStep, RecordStep DEF Pub
<1>6. CleanInv'
  BY CleanStep DEF Pub
<1>7. CoverInv'
  BY CoverStep DEF Pub
<1> QED BY <1>1, <1>2, <1>3, <1>4, <1>5, <1>6, <1>7 DEF Pub

\* Whatever happens, whenever nobody is between two steps of a mutation a hidden
\* artifact has a release whose end reveals it.
THEOREM HiddenForReason == Spec => []HiddenHasReason
<1>1. Pub => HiddenHasReason
  BY LockedAlone, Places DEF Pub, HiddenInv, HiddenHasReason
<1> QED BY <1>1, PubInit, PubStep, PTL DEF Spec

\* The queue limits of newGPGRelease hold, however uploads and the worker interleave.
THEOREM QueueBounded == Spec => []PendingBounded
<1>1. Pub => PendingBounded
  BY DEF Pub
<1> QED BY <1>1, PubInit, PubStep, PTL DEF Spec

\* A verified record never stands beside other bytes than those it was made for.
THEOREM RecordsTrue == Spec => []RecordMatchesArtifact
<1>1. Pub => RecordMatchesArtifact
  BY DEF Pub
<1> QED BY <1>1, PubInit, PubStep, PTL DEF Spec

\* How a release ends.
LEMMA Endings ==
    ASSUME Core, RowsClean, [Next]_vars, NEW i \in Ids
    PROVE  /\ rows[i].status # "success" /\ rows'[i].status = "success" =>
                PublishSuccess /\ i = w.id /\ w.pc = "success"
           /\ rows[i].active /\ rows[i].status = "failed" /\ ~rows'[i].active =>
                i = w.id /\ w.pc = "save" /\ UNCHANGED <<record, art, sig>>
<1> USE DEF dbVars, fileVars
<1>1. CASE ~WorkerNext
  <2>1. rows[i].status # "success" => rows'[i].status # "success"
    <3>1. UNCHANGED vars \/ Crash => rows' = rows
      BY DEF vars, Crash
    <3>2. ASSUME NEW j \in Ids, Elapse(j) PROVE rows'[i].status = rows[i].status
      BY <3>2, Shapes DEF Elapse
    <3>3. Restore => rows'[i].status = rows[i].status \/ rows'[i].status = "queued"
      BY Shapes DEF Restore
    <3>4. ASSUME NEW a \in Artifacts, UploadNext(a) PROVE rows' = rows
      BY <3>4 DEF UploadNext, BeginPut, AbandonPut, Stage, StageCompanion, DirectUnsign
    <3>5. DeleteNext => rows'[i] = rows[i] \/ rows'[i].status = "failed"
      BY DiscardRows DEF DeleteNext, BeginDelete, BeginDeleteTree, DeleteSignature
    <3>6. RequestNext => rows'[i] = rows[i] \/ rows'[i].status = "queued"
      BY RequestRows, SaveRows
    <3> QED BY <1>1, <3>1, <3>2, <3>3, <3>4, <3>5, <3>6 DEF Next
  <2> QED BY <1>1, <2>1, OthersRows DEF Ended
<1>2. CASE WorkerNext
  <2>1. CASE w.pc = "success"
    <3>1. PublishSuccess
      BY <1>2, <2>1, Places, WorkerLocked DEF PublishUnsign, PublishArtifact, PublishSignature, PublishRecord,
         Reveal, CleanFiles, CleanDir, CleanSave, CleanUnblock
    <3> QED BY <1>2, <2>1, <3>1, WorkerRow DEF RowSucceeds, OnlyRow
  <2>2. CASE w.pc = "save"
    <3>1. CleanSave
      BY <1>2, <2>2, Places, WorkerLocked DEF PublishUnsign, PublishArtifact, PublishSignature, PublishRecord,
         PublishSuccess, Reveal, CleanFiles, CleanDir, CleanUnblock
    <3>2. UNCHANGED <<record, art, sig>>
      BY <3>1 DEF CleanSave
    <3> QED BY <1>2, <2>2, <3>2, WorkerRow DEF RowCleaned, OnlyRow
  <2>3. CASE w.pc \notin {"success", "save"}
    BY <1>2, <2>3, WorkerRow DEF RowFails, RowClaimed, RowStarted, OnlyRow, Ended
  <2> QED BY <2>1, <2>2, <2>3
<1> QED BY <1>1, <1>2

\* A release that becomes a success is complete in the store.
THEOREM SuccessComplete == Spec => SuccessIsComplete
<1>1. ASSUME Pub, [Next]_vars, NEW i \in Ids, rows[i].status # "success", rows'[i].status = "success"
      PROVE  LET r == rows[i]
                 a == r.artifact
             IN  /\ r.art # None => art[a] = r.art
                 /\ r.sig # None =>
                      /\ sig[a] = r.sig /\ record[a] = r.sig
                      /\ art[a] = r.sig \/ (art[a] = None /\ \E b \in Artifacts : a \in Siblings[b])
  <2>1. PublishSuccess /\ i = w.id /\ w.pc = "success"
    BY <1>1, Endings DEF Pub, CleanInv
  <2>2. Vouched(rows[i], w.rec, art[rows[i].artifact])
    BY <1>1, <2>1, Claimed, Places DEF Pub, VerifiedInv
  <2>3. /\ rows[i].art # None => art[rows[i].artifact] = rows[i].art
        /\ rows[i].sig # None => sig[rows[i].artifact] = rows[i].sig /\ record[rows[i].artifact] = rows[i].sig
    BY <1>1, <2>1 DEF Pub, PublishedInv
  <2> QED BY <2>2, <2>3 DEF Vouched
<1>2. Pub /\ [Next]_vars => \A i \in Ids : rows[i].status # "success" /\ rows'[i].status = "success" =>
        LET r == rows[i]
            a == r.artifact
        IN  /\ r.art # None => art[a] = r.art
            /\ r.sig # None =>
                 /\ sig[a] = r.sig /\ record[a] = r.sig
                 /\ art[a] = r.sig \/ (art[a] = None /\ \E b \in Artifacts : a \in Siblings[b])
  BY <1>1
<1> QED BY <1>2, PubInit, PubStep, PTL DEF Spec, SuccessIsComplete

\* A failed publication has left nothing by the time its key is free.
THEOREM FailureClean == Spec => FailureLeavesNothing
<1>1. ASSUME Pub, [Next]_vars, NEW i \in Ids, rows[i].status = "failed", rows[i].started,
             rows[i].active, ~rows'[i].active
      PROVE  LET a == rows[i].artifact IN
             /\ rows[i].art # None => art[a] = None
             /\ sig[a] = None /\ record[a] = None
  <2>1. i = w.id /\ w.pc = "save"
    BY <1>1, Endings DEF Pub, CleanInv
  <2> QED BY <1>1, <2>1 DEF Pub, CleanInv, CleanedInv, Partial
<1>2. Pub /\ [Next]_vars => \A i \in Ids : rows[i].status = "failed" /\ rows[i].started /\ rows[i].active /\ ~rows'[i].active =>
        LET a == rows[i].artifact IN
        /\ rows[i].art # None => art[a] = None
        /\ sig[a] = None /\ record[a] = None
  BY <1>1
<1> QED BY <1>2, PubInit, PubStep, PTL DEF Spec, FailureLeavesNothing

\* A stored artifact whose release can still be published is taken from the store
\* by the worker that replaces it alone, and its path stays hidden, unless an
\* earlier success of the artifact is cleaned after a failure or a crash.
THEOREM SiblingsSafe == Spec => SiblingsSpared
<1>1. ASSUME Pub, [Next]_vars, NEW i \in Ids, rows[i].active, rows[i].status # "failed",
             art[rows[i].artifact] # None, art'[rows[i].artifact] = None
      PROVE  \/ w.id = i /\ w.pc = "artifact"
             \/ /\ op.pc = "siblings" /\ rows[i].artifact \notin blocked
                /\ RevealedLate(rows[i].artifact)
  <2> DEFINE a == rows[i].artifact
  <2>0. a \in Artifacts /\ i \in Active(a)
    BY <1>1 DEF Pub, Core, Lifecycle, Active
  <2>t. art \in [Artifacts -> Stored]
    BY <1>1 DEF Pub, Core, TypeInv, TypeOK
  <2>1. CASE op.pc = "siblings" /\ a \notin blocked
    <3>1. up
      BY <1>1, <2>1 DEF Pub, Core, LockInv
    <3> QED BY <1>1, <2>1, <3>1 DEF Pub, CoverInv, CoveredInv
  <2>2. CASE w.pc = "artifact" /\ PublishArtifact
    <3>1. w.id \in Ids /\ rows[w.id].active /\ rows[w.id].artifact \in Artifacts
      BY <1>1, <2>2, Claimed, Places DEF Pub, StillClaimed
    <3>2. rows[w.id].artifact = a
      BY <1>1, <2>0, <2>t, <2>2, <3>1 DEF PublishArtifact
    <3> QED BY <1>1, <2>2, <3>1, <3>2 DEF Pub, Core, OneActiveRelease
  <2>3. CASE w.pc = "files" /\ CleanFiles
    <3>1. w.id \in Ids /\ rows[w.id].cleanup
      BY <1>1, <2>3, Shapes, Places DEF Pub, CleanInv, DueInv
    <3>2. Partial(rows[w.id]) /\ rows[w.id].artifact = a
      BY <1>1, <2>0, <2>t, <2>3 DEF CleanFiles
    <3>3. rows[w.id].active /\ rows[w.id].status = "failed"
      BY <1>1, <3>1, <3>2 DEF Pub, CleanInv, RowsClean, Partial
    <3> QED BY <1>1, <3>1, <3>2, <3>3 DEF Pub, Core, OneActiveRelease
  <2>4. \/ art'[a] = art[a]
        \/ op.pc = "siblings" /\ a \notin blocked
        \/ w.pc = "artifact" /\ PublishArtifact
        \/ w.pc = "files" /\ CleanFiles
    BY <1>1, <2>0, ArtKept DEF Pub
  <2> QED BY <1>1, <2>1, <2>2, <2>3, <2>4
<1>2. ASSUME Pub, [Next]_vars, NEW i \in Ids, rows[i].active, rows[i].status # "failed",
             rows[i].artifact \in blocked \ blocked', up'
      PROVE  w.pc = "unblock" /\ RevealedLate(rows[i].artifact)
  BY <1>2, RevealedOnlyLate DEF Pub, CoverInv
<1>3. Pub /\ [Next]_vars => \A i \in Ids : rows[i].active /\ rows[i].status # "failed" =>
        LET a == rows[i].artifact IN
        /\ art[a] # None /\ art'[a] = None =>
             \/ w.id = i /\ w.pc = "artifact"
             \/ op.pc = "siblings" /\ a \notin blocked /\ RevealedLate(a)
        /\ a \in blocked \ blocked' /\ up' => w.pc = "unblock" /\ RevealedLate(a)
  BY <1>1, <1>2
<1> QED BY <1>3, PubInit, PubStep, PTL DEF Spec, SiblingsSpared

\* What reaches the store of a repository that requires signatures was verified.
THEOREM OnlyVerified == Spec => OnlyVerifiedBytes
<1>1. ASSUME Pub, [Next]_vars, NEW a \in Artifacts, art'[a] \notin {art[a], None}
      PROVE  \/ ~RequireGPG /\ op.pc = "commit"
             \/ w.pc = "artifact" /\ (RequireGPG \/ rows[w.id].require => w.rec = art'[a])
  <2>t. art \in [Artifacts -> Stored]
    BY <1>1 DEF Pub, Core, TypeInv, TypeOK
  <2>1. ~OnlyRemoves /\ ~PublishRecord
    BY <1>1 DEF OnlyRemoves, PublishRecord, fileVars
  <2>2. ASSUME NEW b \in Artifacts, DirectCommit(b) PROVE ~RequireGPG /\ op.pc = "commit"
    BY <1>1, <2>2 DEF DirectCommit, Pub, RequestInv
  <2>3. ASSUME PublishArtifact PROVE w.pc = "artifact" /\ (RequireGPG \/ rows[w.id].require => w.rec = art'[a])
    <3>1. w.pc = "artifact" /\ w.id \in Ids /\ rows[w.id].artifact \in Artifacts
      BY <1>1, <2>3, Claimed, Places DEF PublishArtifact, Pub
    <3>2. rows[w.id].art # None /\ art'[a] = rows[w.id].art
      BY <1>1, <2>t, <2>3, <3>1 DEF PublishArtifact
    <3>3. Vouched(rows[w.id], w.rec, art[rows[w.id].artifact])
      BY <1>1, <3>1, Claimed, Places DEF Pub, VerifiedInv
    <3>4. RequireGPG => rows[w.id].require
      BY <1>1, <3>1, <3>2 DEF Pub, RequireInv
    <3> QED BY <3>1, <3>2, <3>3, <3>4 DEF Vouched
  <2> QED BY <1>1, <2>1, <2>2, <2>3, FilesStep DEF Pub
<1>2. Pub /\ [Next]_vars => \A a \in Artifacts : art'[a] \notin {art[a], None} =>
        \/ ~RequireGPG /\ op.pc = "commit"
        \/ w.pc = "artifact" /\ (RequireGPG \/ rows[w.id].require => w.rec = art'[a])
  BY <1>1
<1> QED BY <1>2, PubInit, PubStep, PTL DEF Spec, OnlyVerifiedBytes
=============================================================================
