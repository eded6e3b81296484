------------------------------- MODULE MCFpel -------------------------------
(* Instances of Fpel for TLC. *)
EXTENDS Fpel, TLC

CONSTANTS p1, p2, q1, q2, q3, h1, h2, c1, c2, t1

TwoProcs == {p1, p2}
OneTarget == {t1}
TwoProposals == {q1, q2}
ThreeProposals == {q1, q2, q3}
TwoHashes == {h1, h2}
OneChecker == {c1}
TwoCheckers == {c1, c2}

FpelSymmetry ==
  Permutations(Procs) \cup Permutations(Proposals) \cup
  Permutations(Hashes) \cup Permutations(Checkers)

=============================================================================
