------------------------- MODULE MCMaterialization -------------------------
(***************************************************************************)
(* Instances of Materialization for TLC.                                   *)
(***************************************************************************)
EXTENDS MaterializationInvariant, TLC

CONSTANTS pkgA, pkgB, sha1, sha2, sha3, idx1, idx2

artA1 == [package |-> pkgA, sha |-> sha1]
artA2 == [package |-> pkgA, sha |-> sha2]
artB == [package |-> pkgB, sha |-> sha3]

MCWellFormed == {artA1, artA2, artB}

\* Two that differ only in their index.
MCSelections ==
  {[arts |-> {artB}, index |-> idx1], [arts |-> {artB}, index |-> idx2]}

Symmetry == Permutations(Invocations)
=============================================================================
