-------------------------- MODULE TaskBoardProofs --------------------------
(***************************************************************************)
(* Proofs about TaskBoard, for any number of processes, tasks and plans.   *)
(*                                                                         *)
(* cas_save compares statuses, not rows, so an operation may overwrite a   *)
(* row it never read.  What makes the properties true nevertheless is what *)
(* is known of the rows operations carry (OpsOK): above all, an operation  *)
(* that read a released row carries the plan the row still has, because a  *)
(* task never goes back from a released status to planning.                *)
(***************************************************************************)
EXTENDS TaskBoard, TLAPS

RowOK(row) ==
  /\ row.status = "PENDING" => row.plan = None
  /\ row.status \in Released \cup {"PLANNING"} => row.plan # None

\* What process p carries from its read to its save.
OpOK(p) ==
  LET o == top[p]
  IN  /\ o.task \in TaskIds
      /\ o.expected \in TaskStatus \ {"DELETED"}
      /\ o.new \in OrchestrationTask
      /\ RowOK(o.new)
      /\ o.new.status = o.expected \/ <<o.expected, o.new.status>> \in TaskTransitions
      /\ o.expected \in Released =>
           \/ tasks[o.task].status = "DELETED"
           \/ /\ tasks[o.task].status \in Released
              /\ o.new.plan = tasks[o.task].plan

OpsOK == \A p \in Procs : top[p].at # "idle" => OpOK(p)

TaskInv == TaskTypeOK /\ PlanMatchesStatus /\ OpsOK

\* What one step may do to a row.
StepOK ==
  /\ \A t \in TaskIds :
       tasks[t].status \in Released => tasks'[t].plan = tasks[t].plan
  /\ \A t \in TaskIds :
       /\ tasks[t] # NoTask
       /\ tasks'[t].status # tasks[t].status
       => <<tasks[t].status, tasks'[t].status>> \in TaskTransitions

\* The statuses the transition map leads to.
LEMMA TransitionFacts ==
  ASSUME NEW a, NEW b, <<a, b>> \in TaskTransitions
  PROVE  /\ a \in TaskStatus \ {"DELETED"} /\ b \in TaskStatus
         /\ a \in Released => b \in Released \cup {"DELETED"}
         /\ b \in Released => a \in Released \cup {"PLANNING"}
         /\ b = "PLANNING" => a = "PENDING"
         /\ b = "PENDING" => a = "PLANNING"
  BY DEF TaskTransitions, TaskStatus, Released

\* Every read, whatever the operation, leaves behind an operation that is OK
\* when the new row is.
LEMMA ReadKeepsInv ==
  ASSUME TaskInv, NEW p \in Procs, NEW step \in {"gate", "save"}, NEW kind \in TaskKinds,
         NEW t \in TaskIds, NEW new \in OrchestrationTask,
         Read(p, step, kind, t, new), tasks[t].status # "DELETED",
         RowOK(new), tasks[t].status \in Released => new.plan = tasks[t].plan,
         new.status = tasks[t].status \/ <<tasks[t].status, new.status>> \in TaskTransitions
  PROVE  TaskInv'
<1>1. tasks[t] \in OrchestrationTask
  BY DEF TaskInv, TaskTypeOK, Read, RequireTask
<1>2. tasks[t].status \in TaskStatus \ {"DELETED"}
  BY <1>1 DEF OrchestrationTask
<1>3. /\ tasks' = tasks
      /\ top' = [top EXCEPT ![p] = [at |-> step, kind |-> kind, task |-> t,
                                    expected |-> tasks[t].status, new |-> new]]
  BY DEF Read
<1>4. [at |-> step, kind |-> kind, task |-> t,
       expected |-> tasks[t].status, new |-> new] \in TaskOperation
  BY <1>2 DEF TaskOperation
<1>5. TaskTypeOK'
  BY <1>3, <1>4 DEF TaskInv, TaskTypeOK
<1>6. PlanMatchesStatus'
  BY <1>3 DEF TaskInv, PlanMatchesStatus
<1>7. OpOK(p)'
  BY <1>2, <1>3 DEF OpOK, TaskInv, TaskTypeOK
<1>8. ASSUME NEW r \in Procs, r # p, top'[r].at # "idle"
      PROVE  OpOK(r)'
  <2>1. top'[r] = top[r] /\ OpOK(r)
    BY <1>3, <1>8 DEF TaskInv, TaskTypeOK, OpsOK
  <2> QED
    BY <1>3, <2>1 DEF OpOK
<1> QED
  BY <1>5, <1>6, <1>7, <1>8 DEF TaskInv, OpsOK

\* The rows the operations build from the row they read.
LEMMA MoveKeepsInv ==
  ASSUME TaskInv, NEW p \in Procs, NEW step \in {"gate", "save"}, NEW kind \in TaskKinds,
         NEW t \in TaskIds, NEW new \in OrchestrationTask,
         Move(p, step, kind, t, new), RowOK(new),
         tasks[t].status \in Released => new.plan = tasks[t].plan
  PROVE  TaskInv'
<1>1. <<tasks[t].status, new.status>> \in TaskTransitions
  BY DEF Move, can_move
<1>2. tasks[t].status # "DELETED"
  BY <1>1, TransitionFacts
<1> QED
  BY <1>1, <1>2, ReadKeepsInv DEF Move

\* cas_save as every operation uses it.
LEMMA SaveKeepsInv ==
  ASSUME TaskInv, NEW p \in Procs, Save(p)
  PROVE  TaskInv' /\ StepOK
<1> DEFINE o == top[p]
<1>0. OpOK(p) /\ o.at = "save"
  BY DEF TaskInv, OpsOK, Save
<1>1. top' = [top EXCEPT ![p] = TaskIdle]
  BY DEF Save
<1>2. TaskIdle \in TaskOperation
  BY DEF TaskIdle, TaskOperation, TaskKinds
<1>3. top' \in [Procs -> TaskOperation]
  BY <1>1, <1>2 DEF TaskInv, TaskTypeOK
<1>4. \A r \in Procs : top'[r].at # "idle" => r # p /\ top'[r] = top[r]
  BY <1>1 DEF TaskInv, TaskTypeOK, TaskIdle
<1>5. CASE tasks[o.task].status # o.expected
  <2>1. tasks' = tasks
    BY <1>5 DEF Save, cas_save
  <2>2. OpsOK'
    BY <1>4, <2>1 DEF TaskInv, OpsOK, OpOK
  <2> QED
    BY <1>3, <2>1, <2>2 DEF TaskInv, TaskTypeOK, PlanMatchesStatus, StepOK
<1>6. CASE tasks[o.task].status = o.expected
  <2>1. tasks' = [tasks EXCEPT ![o.task] = o.new]
    BY <1>6 DEF Save, cas_save
  <2>2. tasks \in [TaskIds -> OrchestrationTask \cup {NoTask}]
    BY DEF TaskInv, TaskTypeOK
  <2>3. /\ tasks'[o.task] = o.new
        /\ \A t \in TaskIds \ {o.task} : tasks'[t] = tasks[t]
    BY <1>0, <2>1, <2>2 DEF OpOK
  <2>4. tasks' \in [TaskIds -> OrchestrationTask \cup {NoTask}]
    BY <1>0, <2>1, <2>2 DEF OpOK
  <2>5. PlanMatchesStatus'
    BY <1>0, <2>3 DEF TaskInv, PlanMatchesStatus, OpOK, RowOK
  <2>6. StepOK
    <3>1. /\ o.expected \in Released => o.new.plan = tasks[o.task].plan
          /\ o.new.status = o.expected \/ <<o.expected, o.new.status>> \in TaskTransitions
      BY <1>0, <1>6 DEF OpOK
    <3> QED
      BY <1>6, <2>3, <3>1 DEF StepOK
  <2>7. ASSUME NEW r \in Procs, top'[r].at # "idle"
        PROVE  OpOK(r)'
    <3>1. r # p /\ top'[r] = top[r] /\ OpOK(r)
      BY <1>4, <2>7 DEF TaskInv, OpsOK
    <3>2. CASE top[r].task # o.task
      BY <2>3, <3>1, <3>2 DEF OpOK
    <3>3. CASE top[r].task = o.task /\ top[r].expected \notin Released
      BY <2>3, <3>1, <3>3 DEF OpOK
    <3>4. CASE top[r].task = o.task /\ top[r].expected \in Released
      <4>1. tasks[o.task].status \in Released /\ top[r].new.plan = tasks[o.task].plan
        BY <1>0, <1>6, <3>1, <3>4 DEF OpOK
      <4>2. o.new.plan = tasks[o.task].plan
        BY <1>0, <1>6, <4>1 DEF OpOK
      <4>3. o.new.status \in Released \cup {"DELETED"}
        BY <1>0, <1>6, <4>1, TransitionFacts DEF OpOK
      <4> QED
        BY <2>3, <3>1, <3>4, <4>1, <4>2, <4>3 DEF OpOK
    <3> QED
      BY <3>2, <3>3, <3>4
  <2> QED
    BY <1>3, <2>4, <2>5, <2>6, <2>7 DEF TaskInv, TaskTypeOK, OpsOK
<1> QED
  BY <1>5, <1>6

\* An operation that only advances or gives up keeps the invariant.
LEMMA QuietKeepsInv ==
  ASSUME TaskInv, NEW p \in Procs, tasks' = tasks,
         \/ top' = [top EXCEPT ![p] = TaskIdle]
         \/ /\ top[p].at = "gate"
            /\ top' = [top EXCEPT ![p] = [top[p] EXCEPT !.at = "save"]]
  PROVE  TaskInv'
<1>1. TaskIdle \in TaskOperation /\ TaskIdle.at = "idle"
  BY DEF TaskIdle, TaskOperation, TaskKinds
<1>2. top \in [Procs -> TaskOperation]
  BY DEF TaskInv, TaskTypeOK
<1>3. CASE top' = [top EXCEPT ![p] = TaskIdle]
  BY <1>1, <1>2, <1>3 DEF TaskInv, TaskTypeOK, PlanMatchesStatus, OpsOK, OpOK
<1>4. CASE /\ top[p].at = "gate"
           /\ top' = [top EXCEPT ![p] = [top[p] EXCEPT !.at = "save"]]
  <2>1. [top[p] EXCEPT !.at = "save"] \in TaskOperation
    BY <1>2 DEF TaskOperation
  <2>2. top' \in [Procs -> TaskOperation]
    BY <1>2, <1>4, <2>1
  <2>3. OpOK(p)
    BY <1>4 DEF TaskInv, OpsOK
  <2>4. /\ top'[p].task = top[p].task /\ top'[p].new = top[p].new
        /\ top'[p].expected = top[p].expected
    BY <1>2, <1>4 DEF TaskOperation
  <2>5. OpOK(p)'
    BY <2>3, <2>4 DEF OpOK
  <2>6. ASSUME NEW r \in Procs, r # p, top'[r].at # "idle"
        PROVE  OpOK(r)'
    BY <1>2, <1>4, <2>6 DEF TaskInv, OpsOK, OpOK
  <2> QED
    BY <2>2, <2>5, <2>6 DEF TaskInv, TaskTypeOK, PlanMatchesStatus, OpsOK
<1> QED
  BY <1>3, <1>4

\* A task that is created replaces no row and no operation holds it.
LEMMA CreateKeepsInv ==
  ASSUME TaskInv, NEW t \in TaskIds, NEW s \in Subjects, create(t, s)
  PROVE  TaskInv' /\ StepOK
<1> DEFINE row == [status |-> "PENDING", plan |-> None, subject |-> s, blocked_by |-> {}]
<1>1. tasks[t] = NoTask /\ tasks' = [tasks EXCEPT ![t] = row] /\ top' = top
  BY DEF create
<1>2. row \in OrchestrationTask /\ row.status = "PENDING" /\ row.plan = None
  BY DEF OrchestrationTask, TaskStatus
<1>3. tasks \in [TaskIds -> OrchestrationTask \cup {NoTask}]
  BY DEF TaskInv, TaskTypeOK
<1>4. tasks'[t] = row /\ \A u \in TaskIds \ {t} : tasks'[u] = tasks[u]
  BY <1>1, <1>3
<1>5. tasks' \in [TaskIds -> OrchestrationTask \cup {NoTask}]
  BY <1>1, <1>2, <1>3
<1>6. tasks[t].status = "ABSENT"
  BY <1>1 DEF NoTask
<1>7. ASSUME NEW r \in Procs, top'[r].at # "idle"
      PROVE  OpOK(r)'
  <2>1. top'[r] = top[r] /\ OpOK(r)
    BY <1>1, <1>7 DEF TaskInv, OpsOK
  <2>2. CASE top[r].task = t
    BY <1>6, <2>1, <2>2 DEF OpOK, Released
  <2>3. CASE top[r].task # t
    BY <1>4, <2>1, <2>3 DEF OpOK
  <2> QED
    BY <2>2, <2>3
<1>8. PlanMatchesStatus'
  BY <1>2, <1>4 DEF TaskInv, PlanMatchesStatus, Released
<1>9. StepOK
  BY <1>1, <1>4, <1>6 DEF StepOK, Released
<1> QED
  BY <1>1, <1>5, <1>7, <1>8, <1>9 DEF TaskInv, TaskTypeOK, OpsOK

\* One step of the task board.
LEMMA TaskStep ==
  ASSUME TaskInv, TaskNext
  PROVE  TaskInv' /\ StepOK
<1> USE DEF TaskKinds
<1>0. \A t \in TaskIds : RequireTask(t) =>
        /\ tasks[t] \in OrchestrationTask
        /\ tasks[t] = [status |-> tasks[t].status, plan |-> tasks[t].plan,
                       subject |-> tasks[t].subject, blocked_by |-> tasks[t].blocked_by]
        /\ RowOK(tasks[t])
  BY DEF TaskInv, TaskTypeOK, PlanMatchesStatus, RowOK, RequireTask, OrchestrationTask
<1>1. CASE Create
  BY <1>1, CreateKeepsInv DEF Create
<1>2. ASSUME NEW p \in Procs, Save(p)
      PROVE  TaskInv' /\ StepOK
  BY <1>2, SaveKeepsInv
<1>3. ASSUME NEW p \in Procs, TaskAbort(p)
      PROVE  TaskInv' /\ StepOK
  BY <1>3, QuietKeepsInv DEF TaskAbort, StepOK
<1>4. ASSUME NEW p \in Procs, NEW allowed \in BOOLEAN, GateAnswer(p, allowed)
      PROVE  TaskInv' /\ StepOK
  BY <1>4, QuietKeepsInv DEF GateAnswer, StepOK
<1>5. ASSUME NEW p \in Procs, NEW t \in TaskIds, NEW s \in Subjects, update(p, t, s)
      PROVE  TaskInv' /\ StepOK
  <2>1. RequireTask(t) /\ tasks[t].status # "DELETED" /\ tasks' = tasks
    BY <1>5 DEF update, Read
  <2> DEFINE new == [tasks[t] EXCEPT !.subject = s]
  <2>2. /\ new \in OrchestrationTask
        /\ new.status = tasks[t].status /\ new.plan = tasks[t].plan
    BY <1>0, <2>1 DEF OrchestrationTask
  <2>3. RowOK(new)
    BY <1>0, <2>1, <2>2 DEF RowOK
  <2>4. Read(p, "save", "update", t, new)
    BY <1>5 DEF update
  <2> HIDE DEF new
  <2>5. TaskInv'
    BY <2>1, <2>2, <2>3, <2>4, ReadKeepsInv
  <2> QED
    BY <2>1, <2>5 DEF StepOK
<1>6. ASSUME NEW p \in Procs, NEW t \in TaskIds, NEW plan \in Plans, submit_plan(p, t, plan)
      PROVE  TaskInv' /\ StepOK
  <2> DEFINE new == [tasks[t] EXCEPT !.status = "PLANNING", !.plan = plan]
  <2>1. Move(p, "save", "submit_plan", t, new)
    BY <1>6 DEF submit_plan
  <2>2. RequireTask(t) /\ tasks' = tasks /\ can_move(t, new.status)
    BY <2>1 DEF Move, Read
  <2>3. new \in OrchestrationTask /\ new.status = "PLANNING" /\ new.plan = plan
    BY <1>0, <2>2 DEF OrchestrationTask, TaskStatus
  <2>4. RowOK(new)
    BY <2>3, TaskNoneAssumption DEF RowOK
  <2>5. tasks[t].status \notin Released
    BY <2>2, <2>3, TransitionFacts DEF can_move, Released
  <2> HIDE DEF new
  <2>6. TaskInv'
    BY <2>1, <2>3, <2>4, <2>5, MoveKeepsInv
  <2> QED
    BY <2>2, <2>6 DEF StepOK
<1>7. ASSUME NEW p \in Procs, NEW t \in TaskIds, reject(p, t)
      PROVE  TaskInv' /\ StepOK
  <2> DEFINE new == [tasks[t] EXCEPT !.status = "PENDING", !.plan = None]
  <2>1. Move(p, "save", "reject", t, new)
    BY <1>7 DEF reject
  <2>2. RequireTask(t) /\ tasks' = tasks /\ can_move(t, new.status)
    BY <2>1 DEF Move, Read
  <2>3. new \in OrchestrationTask /\ new.status = "PENDING" /\ new.plan = None
    BY <1>0, <2>2 DEF OrchestrationTask, TaskStatus
  <2>4. RowOK(new)
    BY <2>3 DEF RowOK, Released
  <2>5. tasks[t].status \notin Released
    BY <2>2, <2>3, TransitionFacts DEF can_move, Released
  <2> HIDE DEF new
  <2>6. TaskInv'
    BY <2>1, <2>3, <2>4, <2>5, MoveKeepsInv
  <2> QED
    BY <2>2, <2>6 DEF StepOK
<1>8. ASSUME NEW p \in Procs, NEW t \in TaskIds,
             NEW step \in {"gate", "save"}, NEW kind \in TaskKinds,
             NEW status \in {"APPROVED", "IN_PROGRESS", "COMPLETED", "DELETED"},
             Move(p, step, kind, t, [tasks[t] EXCEPT !.status = status])
      PROVE  TaskInv' /\ StepOK
  <2> DEFINE new == [tasks[t] EXCEPT !.status = status]
  <2>1. Move(p, step, kind, t, new)
    BY <1>8
  <2>2. RequireTask(t) /\ tasks' = tasks /\ can_move(t, new.status)
    BY <2>1 DEF Move, Read
  <2>3. new \in OrchestrationTask /\ new.status = status /\ new.plan = tasks[t].plan
    BY <1>0, <2>2 DEF OrchestrationTask, TaskStatus
  <2>4. RowOK(new)
    <3>1. status \in Released => tasks[t].status \in Released \cup {"PLANNING"}
      BY <2>2, <2>3, TransitionFacts DEF can_move
    <3> QED
      BY <1>0, <2>2, <2>3, <3>1 DEF RowOK
  <2> HIDE DEF new
  <2>5. TaskInv'
    BY <2>1, <2>3, <2>4, MoveKeepsInv
  <2> QED
    BY <2>2, <2>5 DEF StepOK
<1>9. ASSUME NEW p \in Procs, NEW t \in TaskIds,
             \/ approve(p, t) \/ start(p, t) \/ complete(p, t) \/ retry(p, t) \/ delete(p, t)
      PROVE  TaskInv' /\ StepOK
  BY <1>8, <1>9 DEF approve, start, complete, retry, delete
<1> QED
  BY <1>1, <1>2, <1>3, <1>4, <1>5, <1>6, <1>7, <1>9 DEF TaskNext, TaskCommand

LEMMA TaskInitInv ==
  ASSUME TaskInit
  PROVE  TaskInv
  BY DEF TaskInit, TaskInv, TaskTypeOK, TaskIdle, NoTask, TaskOperation, TaskKinds,
         PlanMatchesStatus, OpsOK, Released

LEMMA TaskStutterInv ==
  ASSUME TaskInv, UNCHANGED taskVars
  PROVE  TaskInv'
  BY DEF TaskInv, TaskTypeOK, PlanMatchesStatus, OpsOK, OpOK, taskVars

LEMMA TaskInvariance == TaskSpec => []TaskInv
<1>1. TaskInv /\ [TaskNext]_taskVars => TaskInv'
  BY TaskStep, TaskStutterInv
<1> QED
  BY <1>1, TaskInitInv, PTL DEF TaskSpec

-----------------------------------------------------------------------------

\* The table and the operations keep their types.
THEOREM TaskTypeCorrect == TaskSpec => []TaskTypeOK
  BY TaskInvariance, PTL DEF TaskInv

\* No task is approved, started or completed without a plan, and no rejected
\* one keeps its plan, whatever stale rows are written back.
THEOREM TaskPlanSafety == TaskSpec => []PlanMatchesStatus
  BY TaskInvariance, PTL DEF TaskInv

\* An approved plan is never changed by a stale save.
THEOREM TaskPlanFixed == TaskSpec => ApprovedPlanFixed
<1>1. TaskInv /\ [TaskNext]_taskVars =>
        [\A t \in TaskIds :
           tasks[t].status \in Released => tasks'[t].plan = tasks[t].plan]_taskVars
  BY TaskStep DEF StepOK
<1> QED
  BY <1>1, TaskInvariance, PTL DEF TaskSpec, ApprovedPlanFixed

\* Every status change is an edge of the transition map.
THEOREM TaskMoves == TaskSpec => TaskMovesLegal
<1>1. TaskInv /\ [TaskNext]_taskVars =>
        [\A t \in TaskIds :
           /\ tasks[t] # NoTask
           /\ tasks'[t].status # tasks[t].status
           => <<tasks[t].status, tasks'[t].status>> \in TaskTransitions]_taskVars
  BY TaskStep DEF StepOK
<1> QED
  BY <1>1, TaskInvariance, PTL DEF TaskSpec, TaskMovesLegal

=============================================================================
