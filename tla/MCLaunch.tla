------------------------------ MODULE MCLaunch ------------------------------
(* One instance of LaunchRegistry for its safety properties, within three   *)
(* bounds: two processes race over launches that nobody delegates and that  *)
(* run outside tmux, or two delegate launches before the clock moves, or    *)
(* one at a time confirms launches in panes that die.                       *)
EXTENDS LaunchRegistry, FiniteSets, TLC

CONSTANTS p1, p2, l1, l2, l3, l4

AnyParent == Launches \cup {None}

NoTree == \A l \in Launches : reg[l].parent = None
NoPane == \A l \in Launches : ~reg[l].pane

\* Three of the launches are enough where nobody delegates.
Few == Cardinality({l \in Launches : Exists(l)}) <= 3

\* The three bounds.
Race  == NoTree /\ NoPane /\ \A p \in Procs : op[p].parent = None
Trees ==
  /\ now = 0 /\ NoPane
  /\ \A l \in Launches : reg[l].status \in {"ABSENT", "RESERVED", "FAILED"}
  /\ \A p \in Procs :
       /\ op[p].at \in {"idle", "walk", "claim", "cas"}
       /\ op[p].target \in {None, "FAILED"}
Panes ==
  /\ now <= 1 /\ NoTree
  /\ \A p \in Procs : op[p].parent = None
  /\ \A l \in Launches : reg[l].created = 0
  /\ Cardinality({p \in Procs : op[p] # Idle}) <= 1

Bounded == (Few /\ Race)' \/ Trees' \/ (Few /\ Panes)'

Symmetry == Permutations(Procs) \cup Permutations(Launches)

=============================================================================
