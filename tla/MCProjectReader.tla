-------------------------- MODULE MCProjectReader --------------------------
(* One track has more FX than are listed, one of the others an ill name.     *)
EXTENDS ProjectReader, TLC
CONSTANTS track1, track2, track3

MCFxOf == [tr \in Tracks |-> IF tr = track1 THEN 2 ELSE 0]
ReaderSymmetry == Permutations(Slots) \cup Permutations(Items)
=============================================================================
