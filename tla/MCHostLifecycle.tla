--------------------------- MODULE MCHostLifecycle ---------------------------
(* Two folders, two ids and every target for TLC.  Folders and ids are        *)
(* interchangeable.                                                           *)
EXTENDS HostLifecycle, TLC

HostSymmetry == Permutations(Folders) \union Permutations(Ids)
=============================================================================
