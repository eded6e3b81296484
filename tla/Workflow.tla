------------------------------ MODULE Workflow ------------------------------
(***************************************************************************)
(* memory workflow outline / execute / verify / ship over the three state  *)
(* files, the WorkflowExecutor, the WorkspaceManager and its git commands, *)
(* and memory workspace create / remove / merge.                           *)
(*                                                                         *)
(* A shell runs one command; each state file, git command, tmux command    *)
(* and call on the launch registry is a step.  outline writes a plan of    *)
(* one task.  The executor starts the agent in the repository's root; what *)
(* is done in a worktree is done by whoever works there.  Of the launch    *)
(* registry only what the executor can see is kept; a lease may run out    *)
(* whenever it is held.  Hooks, events and messages change nothing here.   *)
(***************************************************************************)
EXTENDS Nothing, Naturals, FiniteSets

CONSTANTS
  Shells,         \* processes running a command
  Jobs,           \* plan tasks; all have one slug
  Launches,       \* launch ids
  Workspaces,     \* worktree names, each also a branch
  BaseName,       \* task-<slug>; the others are suffixed ones
  Targets, Main,  \* branches without a worktree, the one checked out first
  Work,           \* commits
  MaxExecutions   \* bound: execute and verify are begun this often

ASSUME WorkflowAssumption ==
  /\ BaseName \in Workspaces
  /\ Main \in Targets
  /\ Workspaces \cap Targets = {}
  /\ MaxExecutions \in Nat
  /\ None \notin Jobs \cup Launches \cup Workspaces \cup Targets

VARIABLES
  plan,       \* plan-state.json: its task
  execution,  \* execute-state.json
  verified,   \* verify-state.json
  begun,      \* executions and verifications begun
  launch,     \* agent_launch_registry
  runner,     \* the agent of each launch
  branch,     \* the branches and the commits they hold
  tree,       \* the worktrees
  root,       \* the repository's own working tree
  gone,       \* commits that no branch holds any more
  shell       \* the command each shell is in

fileVarsW == <<plan, execution, verified, begun>>
launchVars == <<launch, runner>>
gitVars == <<branch, tree, root, gone>>
workflowVars == <<fileVarsW, launchVars, gitVars, shell>>

-----------------------------------------------------------------------------

Branches == Workspaces \cup Targets

\* plan-state.json: of the plan, the task it is for.
PlanState == Jobs \cup {None}

\* id tells executions apart; of is the one that verify loaded.
Execution == [id : 0..MaxExecutions, job : Jobs \cup {None}, name : Workspaces \cup {None}]
NoExecution == [id |-> 0, job |-> None, name |-> None]

Verification == [of : 0..MaxExecutions, outcome : {"none", "skipped", "passed", "failed"}]
NoVerification == [of |-> 0, outcome |-> "none"]

\* QUARANTINED: the lease ran out before the launch was confirmed.
LaunchRow ==
  [status : {"ABSENT", "RESERVED", "SPAWNING", "ACTIVE", "FAILED", "QUARANTINED"},
   job    : Jobs \cup {None}]
NoLaunchRow == [status |-> "ABSENT", job |-> None]

\* stray: launch_agent returned False but the agent may run; unconfirmed:
\* confirm_active raised after the agent was started.
Runners == {"none", "started", "stray", "unconfirmed"}

WorkflowSteps ==
  {"idle", "request", "spawning", "session", "agent", "active", "mark_failed", "worktree",
   "save", "tests", "load", "merge", "checkout", "merge_root", "remove", "clean",
   "remove_tree", "delete_branch"}

\* forced: remove --force, or ship --force; of: the execution being verified
\* or the verification a ship relies on; aside: ship --use-worktree.
WorkflowOperation ==
  [at     : WorkflowSteps,
   kind   : {"none", "execute", "verify", "ship", "remove", "merge"},
   job    : Jobs \cup {None},
   launch : Launches \cup {None},
   name   : Workspaces \cup {None},
   target : Targets \cup {None},
   of     : 0..MaxExecutions,
   aside  : BOOLEAN,
   forced : BOOLEAN,
   errors : BOOLEAN]

Ready ==
  [at |-> "idle", kind |-> "none", job |-> None, launch |-> None, name |-> None,
   target |-> None, of |-> 0, aside |-> FALSE, forced |-> FALSE, errors |-> FALSE]

\* The type invariant.
WorkflowTypeOK ==
  /\ plan \in PlanState
  /\ execution \in Execution /\ verified \in Verification /\ begun \in 0..MaxExecutions
  /\ launch \in [Launches -> LaunchRow]
  /\ runner \in [Launches -> Runners]
  /\ branch \in [Branches -> [here : BOOLEAN, work : SUBSET Work]]
  /\ tree \in [Workspaces -> {"absent", "clean", "dirty"}]
  /\ root \in [head : Targets, conflict : BOOLEAN]
  /\ gone \subseteq Work
  /\ shell \in [Shells -> WorkflowOperation]

WorkflowInit ==
  /\ plan = None /\ execution = NoExecution /\ verified = NoVerification /\ begun = 0
  /\ launch = [l \in Launches |-> NoLaunchRow]
  /\ runner = [l \in Launches |-> "none"]
  /\ branch = [b \in Branches |-> [here |-> b \in Targets, work |-> {}]]
  /\ tree = [n \in Workspaces |-> "absent"]
  /\ root = [head |-> Main, conflict |-> FALSE]
  /\ gone = {}
  /\ shell = [p \in Shells |-> Ready]

Become(p, op) == shell' = [shell EXCEPT ![p] = op]

GoOn(p, step) == Become(p, [shell[p] EXCEPT !.at = step])

GoOnFailed(p, step) == Become(p, [shell[p] EXCEPT !.at = step, !.errors = TRUE])

-----------------------------------------------------------------------------
(* outline and execute *)

outline(p, j) ==
  /\ shell[p].at = "idle"
  /\ j # plan /\ \A l \in Launches : launch[l].job # j
  /\ plan' = j
  /\ UNCHANGED <<execution, verified, begun, launchVars, gitVars, shell>>

\* The plan's phase stays OUTLINED; an FPEL gate that refuses ends the command.
execute(p) ==
  /\ shell[p].at = "idle"
  /\ plan # None
  /\ begun < MaxExecutions
  /\ begun' = begun + 1
  /\ Become(p, [Ready EXCEPT !.at = "request", !.kind = "execute", !.job = plan,
                             !.of = begun + 1])
  /\ UNCHANGED <<plan, execution, verified, launchVars, gitVars>>

Blocked(j) ==
  \E l \in Launches : launch[l].job = j /\ launch[l].status \in {"RESERVED", "SPAWNING", "ACTIVE"}

\* A suppressed launch, or a registry error, is the end of execute_task.
RequestLaunch(p) ==
  /\ shell[p].at = "request"
  /\ \/ GoOn(p, "save") /\ UNCHANGED launch
     \/ /\ ~Blocked(shell[p].job)
        /\ \E l \in Launches :
             /\ launch[l].status = "ABSENT"
             /\ launch' = [launch EXCEPT ![l] = [status |-> "RESERVED", job |-> shell[p].job]]
             /\ Become(p, [shell[p] EXCEPT !.at = "spawning", !.launch = l])
  /\ UNCHANGED <<fileVarsW, runner, gitVars>>

\* The compare-and-set of confirm_spawning and confirm_active; a warning is
\* logged when it fails and the task goes on.  An exception of confirm_spawning
\* or of mark_failed ends the command (ShellDies).
Confirm(p, from, to, step) ==
  /\ LET l == shell[p].launch
     IN launch' = IF launch[l].status = from THEN [launch EXCEPT ![l].status = to] ELSE launch
  /\ GoOn(p, step)
  /\ UNCHANGED <<fileVarsW, runner, gitVars>>

ConfirmSpawning(p) == shell[p].at = "spawning" /\ Confirm(p, "RESERVED", "SPAWNING", "session")

CreateSession(p) ==
  /\ shell[p].at = "session"
  /\ GoOn(p, "agent") \/ GoOnFailed(p, "mark_failed")
  /\ UNCHANGED <<fileVarsW, launchVars, gitVars>>

\* The command is typed into the session.  When Enter timed out the agent
\* may run although launch_agent returns False.
LaunchAgent(p) ==
  /\ shell[p].at = "agent"
  /\ \/ /\ runner' = [runner EXCEPT ![shell[p].launch] = "started"]
        /\ GoOn(p, "active")
     \/ /\ \E left \in {"none", "stray"} : runner' = [runner EXCEPT ![shell[p].launch] = left]
        /\ GoOnFailed(p, "mark_failed")
  /\ UNCHANGED <<fileVarsW, launch, gitVars>>

\* An exception of confirm_active is taken for one of the spawn.
ConfirmActive(p) ==
  /\ shell[p].at = "active"
  /\ \/ Confirm(p, "SPAWNING", "ACTIVE", "worktree")
     \/ /\ runner' = [runner EXCEPT ![shell[p].launch] = IF @ = "started" THEN "unconfirmed" ELSE @]
        /\ GoOnFailed(p, "mark_failed")
        /\ UNCHANGED <<fileVarsW, launch, gitVars>>

\* The status is read, then compared and set: FAILED, from QUARANTINED too,
\* unless the lease ran out in between.
MarkFailed(p) ==
  /\ shell[p].at = "mark_failed"
  /\ \/ launch' = [launch EXCEPT ![shell[p].launch].status = "FAILED"]
     \/ launch[shell[p].launch].status = "QUARANTINED" /\ UNCHANGED launch
  /\ GoOn(p, "worktree")
  /\ UNCHANGED <<fileVarsW, runner, gitVars>>

\* create_workspace: no worktree of the name, no branch of the name; the
\* branch starts at what the root has checked out.
CanAdd(n) == tree[n] = "absent" /\ ~branch[n].here

worktree_add(n) ==
  /\ tree' = [tree EXCEPT ![n] = "clean"]
  /\ branch' = [branch EXCEPT ![n] = [here |-> TRUE, work |-> branch[root.head].work]]

\* Mutant: the launch fails with the worktree.
WorktreeFailsLaunch(p) ==
  /\ shell[p].at = "worktree"
  /\ \/ \E n \in Workspaces :
          /\ CanAdd(n) /\ (n # BaseName => ~CanAdd(BaseName))
          /\ worktree_add(n)
          /\ Become(p, [shell[p] EXCEPT !.at = "save", !.name = n])
          /\ UNCHANGED launch
     \/ /\ launch' = [launch EXCEPT ![shell[p].launch].status = "FAILED"]
        /\ GoOnFailed(p, "save") /\ UNCHANGED <<branch, tree>>
  /\ UNCHANGED <<fileVarsW, runner, root, gone>>

\* The worktree is made whether or not the agent was started; another name
\* is tried when the first one exists already, and any error is recorded.
CreateWorktree(p) ==
  /\ shell[p].at = "worktree"
  /\ \/ \E n \in Workspaces :
          /\ CanAdd(n) /\ (n # BaseName => ~CanAdd(BaseName))
          /\ worktree_add(n)
          /\ Become(p, [shell[p] EXCEPT !.at = "save", !.name = n])
     \/ GoOnFailed(p, "save") /\ UNCHANGED <<branch, tree>>
  /\ UNCHANGED <<fileVarsW, launchVars, root, gone>>

\* execute_plan's new ExecuteState replaces the file, errors or not.
SaveExecution(p) ==
  /\ shell[p].at = "save"
  /\ execution' = [id |-> shell[p].of, job |-> shell[p].job, name |-> shell[p].name]
  /\ Become(p, Ready)
  /\ UNCHANGED <<plan, verified, begun, launchVars, gitVars>>

-----------------------------------------------------------------------------
(* verify and ship *)

verify(p) ==
  /\ shell[p].at = "idle"
  /\ plan # None /\ execution # NoExecution
  /\ begun < MaxExecutions
  /\ begun' = begun + 1
  /\ Become(p, [Ready EXCEPT !.at = "tests", !.kind = "verify", !.of = execution.id])
  /\ UNCHANGED <<plan, execution, verified, launchVars, gitVars>>

\* unlock_ship is true whatever the tests said.
SaveVerification(p) ==
  /\ shell[p].at = "tests"
  /\ \E outcome \in {"skipped", "passed", "failed"} :
       verified' = [of |-> shell[p].of, outcome |-> outcome]
  /\ Become(p, Ready)
  /\ UNCHANGED <<plan, execution, begun, launchVars, gitVars>>

\* From another branch a root with local changes needs a worktree to merge
\* in; no other worktree has a target checked out.
Preflight(target, aside) == root.head = target \/ aside \/ ~root.conflict

\* The gate: verify-state.json, unless forced.  With --no-cleanup nothing
\* follows.
ship(p, target, aside, force) ==
  /\ shell[p].at = "idle"
  /\ force \/ verified.outcome \in {"skipped", "passed"}
  /\ Preflight(target, aside)
  /\ Become(p, [Ready EXCEPT !.at = "load", !.kind = "ship", !.target = target, !.aside = aside,
                             !.forced = force, !.of = IF force THEN 0 ELSE verified.of])
  /\ UNCHANGED <<fileVarsW, launchVars, gitVars>>

\* ExecuteState.load; without a worktree there is nothing to do.
ShipLoad(p) ==
  /\ shell[p].at = "load"
  /\ IF execution.name = None
     THEN Become(p, Ready)
     ELSE Become(p, [shell[p] EXCEPT !.at = "merge", !.name = execution.name])
  /\ UNCHANGED <<fileVarsW, launchVars, gitVars>>

\* A merge that failed: ship goes on to the removal, merge ends.
MergeFailed(p) ==
  IF shell[p].kind = "ship" THEN GoOnFailed(p, "remove") ELSE Become(p, Ready)

\* merge --no-delete ends here.
MergeDone(p) ==
  \/ shell[p].kind = "ship" /\ GoOn(p, "remove")
  \/ shell[p].kind = "merge" /\ (GoOn(p, "delete_branch") \/ Become(p, Ready))

Merged(into, n) ==
  branch' = [branch EXCEPT ![into].work = @ \cup branch[n].work]

\* From another branch ship --use-worktree merges in a temporary worktree, where
\* a conflict is undone; otherwise merge_workspace looks for the worktree.
StartMerge(p) ==
  /\ shell[p].at = "merge"
  /\ LET o == shell[p]
         apart == o.aside /\ root.head # o.target
     IN \/ /\ apart /\ branch[o.name].here
           /\ Merged(o.target, o.name)
           /\ MergeDone(p)
        \/ /\ ~apart /\ tree[o.name] # "absent"
           /\ GoOn(p, "checkout") /\ UNCHANGED branch
        \/ MergeFailed(p) /\ UNCHANGED branch
  /\ UNCHANGED <<fileVarsW, launchVars, tree, root, gone>>

\* git checkout fails while the root has a conflict.
Checkout(p) ==
  /\ shell[p].at = "checkout"
  /\ \/ /\ ~root.conflict
        /\ root' = [root EXCEPT !.head = shell[p].target]
        /\ GoOn(p, "merge_root")
     \/ MergeFailed(p) /\ UNCHANGED root
  /\ UNCHANGED <<fileVarsW, launchVars, branch, tree, gone>>

\* git merge, into whatever is checked out by now; a conflict stays there.
MergeRoot(p) ==
  /\ shell[p].at = "merge_root"
  /\ LET n == shell[p].name
     IN \/ /\ ~root.conflict /\ branch[n].here
           /\ Merged(root.head, n) /\ MergeDone(p) /\ UNCHANGED root
        \/ /\ branch[n].here /\ ~(branch[n].work \subseteq branch[root.head].work)
           /\ root' = [root EXCEPT !.conflict = TRUE]
           /\ MergeFailed(p) /\ UNCHANGED branch
        \/ MergeFailed(p) /\ UNCHANGED <<branch, root>>
  /\ UNCHANGED <<fileVarsW, launchVars, tree, gone>>

-----------------------------------------------------------------------------
(* remove_workspace, and the workspace commands *)

Forces(o) == o.forced \/ o.kind = "ship"

\* The worktree is looked for, then the teardown hook runs.
StartRemove(p) ==
  /\ shell[p].at = "remove"
  /\ IF tree[shell[p].name] # "absent" THEN GoOn(p, "clean") ELSE Become(p, Ready)
  /\ UNCHANGED <<fileVarsW, launchVars, gitVars>>

CheckClean(p) ==
  /\ shell[p].at = "clean"
  /\ IF Forces(shell[p]) \/ tree[shell[p].name] # "dirty"
     THEN GoOn(p, "remove_tree") ELSE Become(p, Ready)
  /\ UNCHANGED <<fileVarsW, launchVars, gitVars>>

\* git worktree remove, which looks for changes itself.
worktree_remove(p) ==
  /\ shell[p].at = "remove_tree"
  /\ LET n == shell[p].name
     IN IF tree[n] = "clean" \/ (tree[n] = "dirty" /\ Forces(shell[p]))
        THEN tree' = [tree EXCEPT ![n] = "absent"] /\ GoOn(p, "delete_branch")
        ELSE Become(p, Ready) /\ UNCHANGED tree
  /\ UNCHANGED <<fileVarsW, launchVars, branch, root, gone>>

Reachable(b, work) == \E c \in Branches \ {b} : branch[c].here /\ work \in branch[c].work

DropBranch(n) ==
  /\ branch' = [branch EXCEPT ![n] = [here |-> FALSE, work |-> {}]]
  /\ gone' = gone \cup {w \in branch[n].work : ~Reachable(n, w)}

\* Mutant: git branch -D, always.
DeleteUnmerged(p) ==
  /\ shell[p].at = "delete_branch"
  /\ LET n == shell[p].name
     IN IF branch[n].here /\ tree[n] = "absent"
        THEN DropBranch(n) ELSE UNCHANGED <<branch, gone>>
  /\ Become(p, Ready)
  /\ UNCHANGED <<fileVarsW, launchVars, tree, root>>

\* git branch -d or -D: not while a worktree has it checked out, and -d only
\* if the root's HEAD has its commits.
branch_delete(p) ==
  /\ shell[p].at = "delete_branch"
  /\ LET n == shell[p].name
         merged == branch[n].work \subseteq branch[root.head].work
     IN IF branch[n].here /\ tree[n] = "absent" /\ (merged \/ Forces(shell[p]))
        THEN DropBranch(n) ELSE UNCHANGED <<branch, gone>>
  /\ Become(p, Ready)
  /\ UNCHANGED <<fileVarsW, launchVars, tree, root>>

workspace_create(p, n) ==
  /\ shell[p].at = "idle"
  /\ CanAdd(n)
  /\ worktree_add(n)
  /\ UNCHANGED <<fileVarsW, launchVars, root, gone, shell>>

workspace_remove(p, n, force) ==
  /\ shell[p].at = "idle"
  /\ tree[n] # "absent"
  /\ Become(p, [Ready EXCEPT !.at = "remove", !.kind = "remove", !.name = n, !.forced = force])
  /\ UNCHANGED <<fileVarsW, launchVars, gitVars>>

workspace_merge(p, n, target) ==
  /\ shell[p].at = "idle"
  /\ tree[n] # "absent"
  /\ Become(p, [Ready EXCEPT !.at = "merge", !.kind = "merge", !.name = n, !.target = target])
  /\ UNCHANGED <<fileVarsW, launchVars, gitVars>>

-----------------------------------------------------------------------------
(* Everything else *)

ShellDies(p) ==
  /\ shell[p].at # "idle"
  /\ Become(p, Ready)
  /\ UNCHANGED <<fileVarsW, launchVars, gitVars>>

\* A lease runs out before its launch is confirmed, and is reconciled.
LeaseExpires(l) ==
  /\ launch[l].status \in {"RESERVED", "SPAWNING"}
  /\ launch' = [launch EXCEPT ![l].status = "QUARANTINED"]
  /\ UNCHANGED <<fileVarsW, runner, gitVars, shell>>

AgentEnds(l) ==
  /\ runner[l] # "none"
  /\ runner' = [runner EXCEPT ![l] = "none"]
  /\ UNCHANGED <<fileVarsW, launch, gitVars, shell>>

\* Somebody works in a worktree, and commits what there is.
EditTree(n) ==
  /\ tree[n] = "clean"
  /\ tree' = [tree EXCEPT ![n] = "dirty"]
  /\ UNCHANGED <<fileVarsW, launchVars, branch, root, gone, shell>>

CommitTree(n, work) ==
  /\ tree[n] = "dirty"
  /\ work \notin gone \cup UNION {branch[b].work : b \in Branches}
  /\ tree' = [tree EXCEPT ![n] = "clean"]
  /\ branch' = [branch EXCEPT ![n].work = @ \cup {work}]
  /\ UNCHANGED <<fileVarsW, launchVars, root, gone, shell>>

\* The conflict in the root is undone by hand.
AbortMerge ==
  /\ root.conflict
  /\ root' = [root EXCEPT !.conflict = FALSE]
  /\ UNCHANGED <<fileVarsW, launchVars, branch, tree, gone, shell>>

Executing(p) ==
  \/ \E j \in Jobs : outline(p, j)
  \/ execute(p) \/ RequestLaunch(p) \/ ConfirmSpawning(p) \/ CreateSession(p)
  \/ LaunchAgent(p) \/ ConfirmActive(p) \/ MarkFailed(p) \/ CreateWorktree(p)
  \/ SaveExecution(p)

Shipping(p) ==
  \/ verify(p) \/ SaveVerification(p)
  \/ \E target \in Targets, aside, force \in BOOLEAN : ship(p, target, aside, force)
  \/ ShipLoad(p) \/ StartMerge(p) \/ Checkout(p) \/ MergeRoot(p)
  \/ StartRemove(p) \/ CheckClean(p) \/ worktree_remove(p) \/ branch_delete(p)

Housekeeping(p) ==
  \E n \in Workspaces :
    \/ workspace_create(p, n)
    \/ \E force \in BOOLEAN : workspace_remove(p, n, force)
    \/ \E target \in Targets : workspace_merge(p, n, target)

Outside ==
  \/ \E l \in Launches : LeaseExpires(l) \/ AgentEnds(l)
  \/ \E n \in Workspaces : EditTree(n) \/ \E work \in Work : CommitTree(n, work)
  \/ AbortMerge

WorkflowNext ==
  \/ \E p \in Shells : Executing(p) \/ Shipping(p) \/ Housekeeping(p) \/ ShellDies(p)
  \/ Outside

WorkflowSpec == WorkflowInit /\ [][WorkflowNext]_workflowVars

-----------------------------------------------------------------------------
(* Properties *)

\* Agents that launch_agent answered True for; of a stray one execute does not know.
Running(l) == runner[l] \in {"started", "unconfirmed"}

TwinAgents(l, m) ==
  l # m /\ launch[l].job = launch[m].job /\ Running(l) /\ Running(m)

\* Deduplication of launches: two agents that were started for one task are
\* never both running, whatever else of the execution failed after the start
\* and however often execute is called again, with two exceptions.  The lease
\* of one ran out before it was confirmed, which put it in quarantine:
\* confirm_active then loses its compare-and-set and the agent is left running,
\* and "quarantined launches don't block new ones"
\* (docs/adr/ADR-002-skill-repo-boundary.md).  Or confirm_active raised.
OneStartedAgent ==
  \A l, m \in Launches :
    TwinAgents(l, m) =>
      \/ "QUARANTINED" \in {launch[l].status, launch[m].status}
      \/ "unconfirmed" \in {runner[l], runner[m]}

\* test_swarm_regression.py: "Failed/ambiguous spawns got retried instead of
\* quarantined".  Of two agents of one task, the launch of one is in quarantine,
\* even if confirm_active raised after the start.
AmbiguousIsQuarantined ==
  \A l, m \in Launches :
    TwinAgents(l, m) => "QUARANTINED" \in {launch[l].status, launch[m].status}

\* "remove_workspace: force: Whether to force removal even with uncommitted
\* changes".  A commit disappears only in a step that was forced: never by
\* workspace remove without --force, by workspace merge, or by a process
\* that dies in the middle, whatever was committed since it looked.
CommitsOutliveRemoval ==
  [][\A p \in Shells :
       gone' # gone /\ shell'[p] # shell[p] => Forces(shell[p])]_workflowVars

\* ship: "plan check not needed here, verify already validated the workflow".
\* What an unforced ship merges and removes is the execution that verify saw.
ShipFollowsItsVerify ==
  [][\A p \in Shells :
       /\ shell[p].at = "load" /\ shell'[p].at = "merge" /\ ~shell[p].forced
       => shell[p].of = execution.id]_workflowVars

-----------------------------------------------------------------------------
(* Refinement: the slot of a task is held by its launch in use.              *)

LaunchOf(j) ==
  {l \in Launches : launch[l].job = j /\ launch[l].status \in {"RESERVED", "SPAWNING", "ACTIVE"}}

JobSlots == INSTANCE LaunchSlots WITH
              Keys  <- Jobs,
              held  <- [j \in Jobs |-> LaunchOf(j)],
              spent <- {l \in Launches : launch[l].status # "ABSENT"}

\* However the executions of several shells interleave and fail, the registry
\* gives them what LaunchSlots promises.
JobsTakeSlots == JobSlots!Spec

=============================================================================
