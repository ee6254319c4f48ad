-------------------------- MODULE MCManifestSharing --------------------------
(***************************************************************************)
(* TLC instances of ManifestSharing.                                       *)
(***************************************************************************)
EXTENDS ManifestSharing, TLC

CONSTANTS i1, i2, r1, r2

ResumeSymmetry == Permutations({r1, r2})
=============================================================================
