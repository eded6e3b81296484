-------------------------- MODULE MCLaunchRegistry --------------------------
(* Instances of LaunchRegistry for TLC.                                     *)
EXTENDS LaunchRegistry, TLC

CONSTANTS p1, p2, l1, l2, l3, l4

\* Callers that never delegate, and callers that name any launch as parent.
NoParents == {None}
NoPanes == {FALSE}
AnyParent == Launches \cup {None}

Symmetry == Permutations(Procs) \cup Permutations(Launches)

=============================================================================
