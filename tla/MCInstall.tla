----------------------------- MODULE MCInstall ------------------------------
(* Small instances of Install for TLC.                                     *)
EXTENDS Install, TLC

(* The projects differ only in their names.                                *)
MCSymmetry == Permutations(Project)
=============================================================================
