---------------------------- MODULE MCLiveTrading ----------------------------
(* Two threads in either of two processes, two order keys, two orders:      *)
(* enough for both threads to pass the checks on the same rows.             *)
EXTENDS LiveTrading, TLC

\* Neither threads, nor processes, keys or orders are told apart, and no
\* liveness property is checked.
MCSymmetry == Permutations(Requests) \cup Permutations(Procs) \cup Permutations(Keys)
                \cup Permutations(Ids)
=============================================================================
