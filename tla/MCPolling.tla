----------------------------- MODULE MCPolling -----------------------------
(* Polling for TLC: symmetric processes, tasks and ids.                    *)
EXTENDS Polling, TLC

Symmetry == Permutations(Pollers) \cup Permutations(Tasks) \cup Permutations(Runs)

=============================================================================
