------------------------- MODULE MC_RepositoryLocks -------------------------
(* Instances of RepositoryLocks for TLC: the goroutines that meet.         *)
EXTENDS RepositoryLocks, TLC

CONSTANTS p1, p2, p3, p4, p5, f1, f2

\* A chunked upload is completed while a PUT of the file and a migration meet.
UploadKinds == p1 :> "put" @@ p2 :> "complete" @@ p3 :> "migrate"
OneFile == [p \in Procs |-> f1]
=============================================================================
