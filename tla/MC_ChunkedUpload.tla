-------------------------- MODULE MC_ChunkedUpload --------------------------
(* Instances of ChunkedUpload for TLC.                                     *)
EXTENDS ChunkedUpload, TLC

CONSTANTS s1, s2, c1, c2, w1, w2

\* One upload of two chunks.
OneOfTwo == s1 :> {c1, c2}

\* An upload of one chunk and one of an empty file.
OneAndEmpty == s1 :> {c1} @@ s2 :> {}
=============================================================================
