------------------------------ MODULE TaskBoard ------------------------------
(***************************************************************************)
(* The orchestration task board: TaskBoardService over the table           *)
(* orchestration_tasks.                                                    *)
(*                                                                         *)
(* Every operation reads the row, checks the transition, and saves a whole *)
(* new row with cas_save, whose only guard is the status that was read.    *)
(* Other processes run between the read and the save, and between the read *)
(* and the answer of the authorization gate of start.                      *)
(*                                                                         *)
(* A row keeps what the properties tell apart: its status, its plan, the   *)
(* text update() may change (subject stands for subject and description)   *)
(* and its blockers.  Owner, requested_by and the timestamps are left out. *)
(***************************************************************************)
EXTENDS Nothing

CONSTANTS
  Procs,      \* processes that call the service
  TaskIds,    \* task ids (uuid4, never reused)
  Plans,      \* plan texts
  Subjects    \* values of subject and description

ASSUME TaskNoneAssumption == None \notin Plans /\ None \notin Subjects /\ None \notin TaskIds

VARIABLES
  tasks,   \* the table, NoTask until a task is created
  top      \* the operation each process is in the middle of

taskVars == <<tasks, top>>

-----------------------------------------------------------------------------
(* Statuses, rows and operations *)

TaskStatus == {"PENDING", "PLANNING", "APPROVED", "IN_PROGRESS", "COMPLETED", "DELETED"}

TaskTransitions ==
  ({"PENDING"}     \X {"PLANNING", "DELETED"})              \cup
  ({"PLANNING"}    \X {"APPROVED", "PENDING", "DELETED"})   \cup
  ({"APPROVED"}    \X {"IN_PROGRESS", "DELETED"})           \cup
  ({"IN_PROGRESS"} \X {"COMPLETED", "APPROVED", "DELETED"}) \cup
  ({"COMPLETED"}   \X {"DELETED"})

\* Statuses from which a task's plan has been approved.
Released == {"APPROVED", "IN_PROGRESS", "COMPLETED"}

OrchestrationTask ==
  [status     : TaskStatus,
   plan       : Plans \cup {None},
   subject    : Subjects,
   blocked_by : SUBSET TaskIds]

NoTask == [status |-> "ABSENT", plan |-> None, subject |-> None, blocked_by |-> {}]

TaskKinds ==
  {"none", "update", "submit_plan", "approve", "reject", "start", "complete", "retry", "delete"}

\* "gate": start waits for the authorization; "save": cas_save is next.
TaskOperation ==
  [at       : {"idle", "gate", "save"},
   kind     : TaskKinds,
   task     : TaskIds \cup {None},
   expected : TaskStatus \cup {None},
   new      : OrchestrationTask \cup {NoTask}]

TaskIdle ==
  [at |-> "idle", kind |-> "none", task |-> None, expected |-> None, new |-> NoTask]

\* The type invariant.
TaskTypeOK ==
  /\ tasks \in [TaskIds -> OrchestrationTask \cup {NoTask}]
  /\ top \in [Procs -> TaskOperation]

TaskInit ==
  /\ tasks = [t \in TaskIds |-> NoTask]
  /\ top = [p \in Procs |-> TaskIdle]

-----------------------------------------------------------------------------
(* Helpers *)

\* _require_task
RequireTask(t) == tasks[t] # NoTask

\* _validate_transition
can_move(t, target) == <<tasks[t].status, target>> \in TaskTransitions

\* compute_task_hash: the plan, or the subject of a task without one.
compute_task_hash(row) == IF row.plan # None THEN row.plan ELSE row.subject

\* A process has read task t and will save the row new over it.
Read(p, step, kind, t, new) ==
  /\ top[p].at = "idle"
  /\ RequireTask(t)
  /\ top' = [top EXCEPT ![p] = [at |-> step, kind |-> kind, task |-> t,
                                expected |-> tasks[t].status, new |-> new]]
  /\ UNCHANGED tasks

Move(p, step, kind, t, new) ==
  /\ can_move(t, new.status)
  /\ Read(p, step, kind, t, new)

-----------------------------------------------------------------------------
(* The operations *)

create(t, s) ==
  /\ tasks[t] = NoTask
  /\ tasks' = [tasks EXCEPT ![t] = [status |-> "PENDING", plan |-> None,
                                    subject |-> s, blocked_by |-> {}]]
  /\ UNCHANGED top

update(p, t, s) ==
  /\ tasks[t].status # "DELETED"
  /\ Read(p, "save", "update", t, [tasks[t] EXCEPT !.subject = s])

submit_plan(p, t, plan) ==
  Move(p, "save", "submit_plan", t, [tasks[t] EXCEPT !.status = "PLANNING", !.plan = plan])

approve(p, t) ==
  Move(p, "save", "approve", t, [tasks[t] EXCEPT !.status = "APPROVED"])

\* Mutant: the plan is not cleared.
RejectKeepsPlan(p, t) ==
  Move(p, "save", "reject", t, [tasks[t] EXCEPT !.status = "PENDING"])

reject(p, t) ==
  Move(p, "save", "reject", t, [tasks[t] EXCEPT !.status = "PENDING", !.plan = None])

start(p, t) ==
  /\ tasks[t].blocked_by = {}
  /\ Move(p, "gate", "start", t, [tasks[t] EXCEPT !.status = "IN_PROGRESS"])

\* start has the gate's decision.
GateAnswer(p, allowed) ==
  /\ top[p].at = "gate"
  /\ top' = [top EXCEPT ![p] = IF allowed THEN [top[p] EXCEPT !.at = "save"] ELSE TaskIdle]
  /\ UNCHANGED tasks

\* complete() also calls resolve_blockers, which only reads.
complete(p, t) ==
  Move(p, "save", "complete", t, [tasks[t] EXCEPT !.status = "COMPLETED"])

retry(p, t) ==
  Move(p, "save", "retry", t, [tasks[t] EXCEPT !.status = "APPROVED"])

delete(p, t) ==
  Move(p, "save", "delete", t, [tasks[t] EXCEPT !.status = "DELETED"])

\* Mutant: UPDATE ... WHERE id = ? alone.
SaveUnguarded(t, expected, new) == [tasks EXCEPT ![t] = new]

\* cas_save: UPDATE ... WHERE id = ? AND status = ?
cas_save(t, expected, new) ==
  IF tasks[t].status = expected THEN [tasks EXCEPT ![t] = new] ELSE tasks

\* The save half of every operation; "Task was modified concurrently" ends
\* it with the table unchanged.
Save(p) ==
  /\ top[p].at = "save"
  /\ tasks' = cas_save(top[p].task, top[p].expected, top[p].new)
  /\ top' = [top EXCEPT ![p] = TaskIdle]

\* The process dies between its read and its save.
TaskAbort(p) ==
  /\ top[p].at # "idle"
  /\ top' = [top EXCEPT ![p] = TaskIdle]
  /\ UNCHANGED tasks

\* Every operation but start.
TaskCommand(p) ==
  \E t \in TaskIds :
    \/ \E s \in Subjects : update(p, t, s)
    \/ \E plan \in Plans : submit_plan(p, t, plan)
    \/ approve(p, t) \/ reject(p, t) \/ complete(p, t) \/ retry(p, t) \/ delete(p, t)

Create == \E t \in TaskIds, s \in Subjects : create(t, s)

TaskNext ==
  \/ Create
  \/ \E p \in Procs :
       \/ TaskCommand(p) \/ Save(p) \/ TaskAbort(p)
       \/ \E t \in TaskIds : start(p, t)
       \/ \E allowed \in BOOLEAN : GateAnswer(p, allowed)

TaskSpec == TaskInit /\ [][TaskNext]_taskVars

-----------------------------------------------------------------------------
(* Properties *)

\* A plan is there exactly when the status says so, whatever stale rows the
\* operations write back: no task is approved, started or completed without
\* a plan, and a rejected task has none left.
PlanMatchesStatus ==
  \A t \in TaskIds :
    /\ tasks[t].status = "PENDING" => tasks[t].plan = None
    /\ tasks[t].status \in Released \cup {"PLANNING"} => tasks[t].plan # None

\* Once a task is approved its plan is fixed: no operation, however long ago
\* it read the row, changes the plan of a task that is approved, running or
\* completed.
ApprovedPlanFixed ==
  [][\A t \in TaskIds :
       tasks[t].status \in Released => tasks'[t].plan = tasks[t].plan]_taskVars

\* Every status change, stale saves included, is an edge of the transition
\* map; in particular a deleted task never comes back.
TaskMovesLegal ==
  [][\A t \in TaskIds :
       /\ tasks[t] # NoTask
       /\ tasks'[t].status # tasks[t].status
       => <<tasks[t].status, tasks'[t].status>> \in TaskTransitions]_taskVars

\* update: "omitted fields retain their current value".  It never takes a
\* plan, so its save leaves the plan alone.
UpdateRetainsPlan ==
  [][\A p \in Procs :
       /\ top[p].kind = "update" /\ top'[p].kind # "update"
       => \A t \in TaskIds : tasks'[t].plan = tasks[t].plan]_taskVars

\* approve: "Transition PLANNING -> APPROVED".  It does not pull a running
\* task back.
ApproveFromPlanning ==
  [][\A p \in Procs, t \in TaskIds :
       /\ top[p].kind = "approve" /\ top'[p].kind # "approve"
       /\ tasks'[t].status # tasks[t].status
       => tasks[t].status = "PLANNING"]_taskVars

=============================================================================
