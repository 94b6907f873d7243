-------------------------- MODULE MCArtifactWriter --------------------------
(* Instances of ArtifactWriter for TLC.  The calls are interchangeable.      *)
EXTENDS ArtifactWriter, TLC

CallSymmetry == Permutations(Calls)

=============================================================================
