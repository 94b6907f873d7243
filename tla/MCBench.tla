------------------------------ MODULE MCBench ------------------------------
(* Indexes on both sides of every boundary for an int of four bits: the last   *)
(* track and one past it, the least and the greatest int, and integers that    *)
(* only narrowing makes indexes of tracks.                                     *)
EXTENDS Bench

MCIndexes == {-8, -1, 0, 3, 4, 7, 16, 19}

\* No number given to --n, a negative one, the code's 1000 scaled to 20, and a
\* size at which the percentile is the least of the latencies.
MCBenchSizes == {-1, 0, 2, 20}

\* All five functions, all but the one with an argument, or none
MCJsBridges == {Functions, Functions \ {"get_track_name"}, {}}

=============================================================================
