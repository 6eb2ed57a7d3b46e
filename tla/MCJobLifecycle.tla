--------------------------- MODULE MCJobLifecycle ---------------------------
(* Small instances of JobLifecycle for TLC. *)
EXTENDS JobLifecycle, TLC

\* Goroutines and pids are interchangeable; sound for the safety runs only.
Interchangeable == Permutations(Threads) \cup Permutations(Pids)
=============================================================================
