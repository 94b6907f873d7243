------------------------- MODULE MCMainThreadQueue -------------------------
(* Instances of MainThreadQueue for TLC.  The calls are interchangeable;     *)
(* the runs with liveness properties do not use the symmetry.                *)
EXTENDS MainThreadQueue, TLC

CallSymmetry == Permutations(Calls)

=============================================================================
