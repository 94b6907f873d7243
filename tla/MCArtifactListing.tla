-------------------------- MODULE MCArtifactListing --------------------------
(* One listing beside two saves for TLC.  The calls are interchangeable.      *)
EXTENDS ArtifactListing, TLC

CallSymmetry == Permutations(Calls)

=============================================================================
