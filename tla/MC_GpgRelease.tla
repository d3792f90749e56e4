--------------------------- MODULE MC_GpgRelease ---------------------------
(* Instances of GpgRelease for TLC.                                        *)
EXTENDS GpgRelease, TLC

CONSTANTS a1, a2, u1, u2, c1, c2

ContentSymmetry == Permutations({c1, c2})

NoSiblings == (a1 :> {})
JarAndPom == (a1 :> {a2} @@ a2 :> {})
=============================================================================
