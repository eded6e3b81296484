---------------------------- MODULE MCGatedTasks ----------------------------
(* Instances of GatedTasks for TLC. *)
EXTENDS GatedTasks, TLC

CONSTANTS p1, p2, t1, a, b, s1, q1, q2, c1

TwoProcs == {p1, p2}
OneTask == {t1}
OnePlan == {a}
TwoPlans == {a, b}
OneSubject == {s1}
OneProposal == {q1}
TwoProposals == {q1, q2}
OneChecker == {c1}

GateSymmetry ==
  Permutations(Procs) \cup Permutations(Plans) \cup Permutations(Proposals)

=============================================================================
