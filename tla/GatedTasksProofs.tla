-------------------------- MODULE GatedTasksProofs --------------------------
(***************************************************************************)
(* Proofs about GatedTasks, for any number of processes, tasks, plans,     *)
(* proposals and checkers.                                                 *)
(*                                                                         *)
(* Every step is a step of the task board or leaves it alone, and a step   *)
(* of the evidence loop or leaves that alone, so the invariants proved of  *)
(* the two apart (TaskBoardProofs, FpelProofs) hold of the composition.    *)
(* GateInv adds what ties them together: start asks about the very row it  *)
(* will write, and no operation on its way to a save carries a running row *)
(* that no verdict backs.  A verdict, once written, keeps backing, because *)
(* the tables of the evidence loop only grow.                              *)
(***************************************************************************)
EXTENDS GatedTasks, TLAPS

TP == INSTANCE TaskBoardProofs
FP == INSTANCE FpelProofs WITH Targets <- TaskIds

Running == {"IN_PROGRESS", "COMPLETED"}

SavesAreBacked ==
  \A p \in Procs :
    top[p].at = "save" /\ top[p].new.status \in Running => Backed(top[p].task, top[p].new)

GateAsksOwnRow ==
  \A p \in Procs :
    top[p].at = "gate" /\ fop[p].at \notin {"idle", "denied"} =>
      /\ fop[p].target = top[p].task
      /\ fop[p].hash = T!compute_task_hash(top[p].new)

GateInv ==
  /\ TP!TaskInv
  /\ FP!FpelInv
  /\ StartedUnderSeal
  /\ SavesAreBacked
  /\ GateAsksOwnRow

\* The two instances of TaskBoard describe the same board.
LEMMA SameBoard ==
  /\ T!TaskInit <=> TP!TaskInit
  /\ T!TaskTypeOK <=> TP!TaskTypeOK
  /\ T!Create <=> TP!Create
  /\ \A p \in Procs :
       /\ T!TaskCommand(p) <=> TP!TaskCommand(p)
       /\ T!Save(p) <=> TP!Save(p)
       /\ T!TaskAbort(p) <=> TP!TaskAbort(p)
       /\ \A t \in TaskIds : T!start(p, t) <=> TP!start(p, t)
       /\ \A allowed \in BOOLEAN : T!GateAnswer(p, allowed) <=> TP!GateAnswer(p, allowed)
<1>1. T!TaskInit <=> TP!TaskInit
  BY DEF T!TaskInit, TP!TaskInit, T!NoTask, TP!NoTask, T!TaskIdle, TP!TaskIdle
<1>2. T!TaskTypeOK <=> TP!TaskTypeOK
  BY DEF T!TaskTypeOK, TP!TaskTypeOK, T!NoTask, TP!NoTask, T!OrchestrationTask,
         TP!OrchestrationTask, T!TaskOperation, TP!TaskOperation, T!TaskStatus, TP!TaskStatus,
         T!TaskKinds, TP!TaskKinds
<1>3. T!Create <=> TP!Create
  BY DEF T!Create, TP!Create, T!create, TP!create, T!NoTask, TP!NoTask
<1>4. ASSUME NEW p \in Procs
      PROVE  /\ T!Save(p) <=> TP!Save(p)
             /\ T!TaskAbort(p) <=> TP!TaskAbort(p)
             /\ \A allowed \in BOOLEAN : T!GateAnswer(p, allowed) <=> TP!GateAnswer(p, allowed)
  BY DEF T!Save, TP!Save, T!cas_save, TP!cas_save, T!TaskAbort, TP!TaskAbort, T!TaskIdle,
         TP!TaskIdle, T!NoTask, TP!NoTask, T!GateAnswer, TP!GateAnswer
<1> USE DEF T!Read, TP!Read, T!Move, TP!Move, T!RequireTask, TP!RequireTask, T!NoTask,
            TP!NoTask, T!can_move, TP!can_move, T!TaskTransitions, TP!TaskTransitions
<1>5. ASSUME NEW p \in Procs, NEW t \in TaskIds
      PROVE  /\ T!start(p, t) <=> TP!start(p, t)
             /\ \A s \in Subjects : T!update(p, t, s) <=> TP!update(p, t, s)
             /\ \A plan \in Plans : T!submit_plan(p, t, plan) <=> TP!submit_plan(p, t, plan)
  BY DEF T!start, TP!start, T!update, TP!update, T!submit_plan, TP!submit_plan
<1>6. ASSUME NEW p \in Procs, NEW t \in TaskIds
      PROVE  /\ T!approve(p, t) <=> TP!approve(p, t)
             /\ T!reject(p, t) <=> TP!reject(p, t)
             /\ T!complete(p, t) <=> TP!complete(p, t)
             /\ T!retry(p, t) <=> TP!retry(p, t)
             /\ T!delete(p, t) <=> TP!delete(p, t)
  BY DEF T!approve, TP!approve, T!reject, TP!reject, T!complete, TP!complete, T!retry, TP!retry,
         T!delete, TP!delete
<1>7. ASSUME NEW p \in Procs
      PROVE  T!TaskCommand(p) <=> TP!TaskCommand(p)
  BY <1>5, <1>6 DEF T!TaskCommand, TP!TaskCommand
<1> QED
  BY <1>1, <1>2, <1>3, <1>4, <1>5, <1>7

\* The two instances of Fpel describe the same evidence loop.
LEMMA SameEvidence ==
  /\ F!FpelInit <=> FP!FpelInit
  /\ F!FpelTypeOK <=> FP!FpelTypeOK
  /\ F!FpelReport <=> FP!FpelReport
  /\ \A p \in Procs :
       /\ F!FpelStep(p) <=> FP!FpelStep(p)
       /\ F!FpelCommand(p) <=> FP!FpelCommand(p)
       /\ F!CheckReturn(p) <=> FP!CheckReturn(p)
       /\ F!FpelAbort(p) <=> FP!FpelAbort(p)
       /\ \A t \in TaskIds, h \in Hashes \cup {None} : F!CheckRead(p, t, h) <=> FP!CheckRead(p, t, h)
<1>1. F!FpelInit <=> FP!FpelInit
  BY DEF F!FpelInit, FP!FpelInit, F!NoProposal, FP!NoProposal, F!FpelIdle, FP!FpelIdle
<1>2. F!FpelTypeOK <=> FP!FpelTypeOK
  BY DEF F!FpelTypeOK, FP!FpelTypeOK, F!NoProposal, FP!NoProposal, F!FrozenProposal,
         FP!FrozenProposal, F!SealedVerdict, FP!SealedVerdict, F!Verdicts, FP!Verdicts,
         F!FpelOperation, FP!FpelOperation, F!FpelSteps, FP!FpelSteps
<1>3. F!FpelReport <=> FP!FpelReport
  BY DEF F!FpelReport, FP!FpelReport, F!Report, FP!Report, F!Fresh, FP!Fresh,
         F!NoProposal, FP!NoProposal, F!Verdicts, FP!Verdicts
<1> USE DEF F!Goto, FP!Goto, F!Return, FP!Return, F!Deny, FP!Deny, F!FpelIdle, FP!FpelIdle,
            F!UnchangedTables, FP!UnchangedTables, F!Active, FP!Active
<1>4. ASSUME NEW p \in Procs
      PROVE  /\ F!CheckReturn(p) <=> FP!CheckReturn(p)
             /\ F!FpelAbort(p) <=> FP!FpelAbort(p)
             /\ F!FailSave(p) <=> FP!FailSave(p)
             /\ F!SealFailed(p) <=> FP!SealFailed(p)
             /\ F!SealSealed(p) <=> FP!SealSealed(p)
             /\ F!SealSave(p) <=> FP!SealSave(p)
             /\ F!SnapshotList(p) <=> FP!SnapshotList(p)
  BY DEF F!CheckReturn, FP!CheckReturn, F!FpelAbort, FP!FpelAbort, F!FailSave,
         FP!FailSave, F!SealFailed, FP!SealFailed, F!SealSealed, FP!SealSealed,
         F!SealSave, FP!SealSave, F!SnapshotList, FP!SnapshotList
<1>5. ASSUME NEW p \in Procs
      PROVE  /\ F!SealHash(p) <=> FP!SealHash(p)
             /\ F!SealCheckers(p) <=> FP!SealCheckers(p)
             /\ F!SealReports(p) <=> FP!SealReports(p)
  BY DEF F!SealHash, FP!SealHash, F!SealCheckers, FP!SealCheckers, F!SealReports,
         FP!SealReports, F!ScopeChanged, FP!ScopeChanged, F!get_checkers_for,
         FP!get_checkers_for, F!ChecksPass, FP!ChecksPass
<1>6. ASSUME NEW p \in Procs
      PROVE  /\ F!CheckFailed(p) <=> FP!CheckFailed(p)
             /\ F!CheckSealed(p) <=> FP!CheckSealed(p)
             /\ F!CheckDrift(p) <=> FP!CheckDrift(p)
  BY DEF F!CheckFailed, FP!CheckFailed, F!CheckSealed, FP!CheckSealed, F!CheckDrift,
         FP!CheckDrift, F!Drifted, FP!Drifted, F!ScopeChanged, FP!ScopeChanged
<1>7. ASSUME NEW p \in Procs, NEW q \in Proposals
      PROVE  /\ F!FreezeSave(p, q) <=> FP!FreezeSave(p, q)
             /\ F!SnapshotSave(p, q) <=> FP!SnapshotSave(p, q)
  BY DEF F!FreezeSave, FP!FreezeSave, F!SnapshotSave, FP!SnapshotSave, F!Fresh,
         FP!Fresh, F!NoProposal, FP!NoProposal, F!IndexAccepts, FP!IndexAccepts,
         F!Supersede, FP!Supersede
<1>8. ASSUME NEW p \in Procs, NEW t \in TaskIds
      PROVE  /\ F!FailRead(p, t) <=> FP!FailRead(p, t)
             /\ F!SealRead(p, t) <=> FP!SealRead(p, t)
             /\ \A h \in Hashes : F!FreezeRead(p, t, h) <=> FP!FreezeRead(p, t, h)
             /\ \A h \in Hashes : F!SnapshotRead(p, t, h) <=> FP!SnapshotRead(p, t, h)
             /\ \A h \in Hashes \cup {None} : F!CheckRead(p, t, h) <=> FP!CheckRead(p, t, h)
  BY DEF F!FailRead, FP!FailRead, F!SealRead, FP!SealRead, F!FreezeRead, FP!FreezeRead,
         F!SnapshotRead, FP!SnapshotRead, F!CheckRead, FP!CheckRead, F!Begin, FP!Begin,
         F!Rejects, FP!Rejects
<1>9. ASSUME NEW p \in Procs
      PROVE  /\ F!FpelStep(p) <=> FP!FpelStep(p)
             /\ F!FpelCommand(p) <=> FP!FpelCommand(p)
  BY <1>4, <1>5, <1>6, <1>7, <1>8 DEF F!FpelStep, FP!FpelStep, F!FpelCommand, FP!FpelCommand
<1> QED
  BY <1>1, <1>2, <1>3, <1>4, <1>8, <1>9

\* Every step is a step of each part or leaves that part alone.
LEMMA StepsProject ==
  ASSUME GateInv, Next
  PROVE  /\ TP!TaskNext \/ UNCHANGED taskVars
         /\ FP!FpelNext \/ UNCHANGED fpelVars
<1>1. CASE T!Create /\ UNCHANGED fpelVars
  BY <1>1, SameBoard DEF TP!TaskNext
<1>2. CASE F!FpelReport /\ UNCHANGED taskVars
  BY <1>2, SameEvidence DEF FP!FpelNext
<1>3. ASSUME NEW p \in Procs, BoardStep(p)
      PROVE  TP!TaskNext /\ UNCHANGED fpelVars
  BY <1>3, SameBoard DEF BoardStep, TP!TaskNext
<1>4. ASSUME NEW p \in Procs, AskGate(p)
      PROVE  FP!FpelNext /\ UNCHANGED taskVars
  <2>1. TP!OpOK(p)
    BY <1>4 DEF AskGate, GateInv, TP!TaskInv, TP!OpsOK
  <2>2. top[p].task \in TaskIds /\ top[p].new \in TP!OrchestrationTask
    BY <2>1 DEF TP!OpOK
  <2>3. T!compute_task_hash(top[p].new) \in Hashes
    BY <2>2 DEF T!compute_task_hash, TP!OrchestrationTask, Hashes
  <2>4. FP!CheckRead(p, top[p].task, T!compute_task_hash(top[p].new))
    BY <1>4, <2>2, <2>3, SameEvidence DEF AskGate
  <2> QED
    BY <1>4, <2>2, <2>3, <2>4 DEF AskGate, FP!FpelNext
<1>5. ASSUME NEW p \in Procs, GateDecides(p)
      PROVE  TP!TaskNext /\ FP!FpelNext
  <2>1. TP!GateAnswer(p, fop[p].at = "allowed") /\ FP!CheckReturn(p)
    BY <1>5, SameBoard, SameEvidence DEF GateDecides
  <2> QED
    BY <2>1 DEF TP!TaskNext, FP!FpelNext
<1>6. ASSUME NEW p \in Procs, EvidenceStep(p)
      PROVE  FP!FpelNext /\ UNCHANGED taskVars
  BY <1>6, SameEvidence DEF EvidenceStep, FP!FpelNext
<1>7. ASSUME NEW p \in Procs, Abort(p)
      PROVE  /\ TP!TaskNext \/ UNCHANGED taskVars
             /\ FP!FpelNext \/ UNCHANGED fpelVars
  BY <1>7, SameBoard, SameEvidence DEF Abort, TP!TaskNext, FP!FpelNext
<1> QED
  BY <1>1, <1>2, <1>3, <1>4, <1>5, <1>6, <1>7 DEF Next

\* So the invariants of the parts are invariants of the whole.
LEMMA PartsKept ==
  ASSUME GateInv, Next
  PROVE  TP!TaskInv' /\ FP!FpelInv' /\ FP!TablesGrow
<1>1. TP!TaskNoneAssumption /\ FP!FpelNoneAssumption
  BY GateAssumption DEF TP!TaskNoneAssumption, FP!FpelNoneAssumption, Hashes
<1>2. TP!TaskInv'
  BY <1>1, StepsProject, TP!TaskStep, TP!TaskStutterInv
  DEF GateInv, taskVars, TP!taskVars
<1>3. CASE FP!FpelNext
  BY <1>1, <1>2, <1>3, FP!FpelStepOK DEF GateInv
<1>4. CASE UNCHANGED fpelVars
  BY <1>1, <1>2, <1>4, FP!FpelStutter
  DEF GateInv, fpelVars, FP!fpelVars, FP!TablesGrow
<1> QED
  BY <1>3, <1>4, StepsProject

\* A verdict keeps backing the row it backed.
LEMMA BackedKept ==
  ASSUME FP!TablesGrow, NEW t \in TaskIds, NEW row, Backed(t, row)
  PROVE  \E q \in Proposals :
           /\ frozen'[q].target = t
           /\ sealed'[q] # None
           /\ sealed'[q].content_hash = T!compute_task_hash(row)
<1>1. PICK q \in Proposals :
        /\ frozen[q].target = t
        /\ sealed[q] # None
        /\ sealed[q].content_hash = T!compute_task_hash(row)
  BY DEF Backed
<1>2. frozen[q] # FP!NoProposal
  BY <1>1, GateAssumption DEF FP!NoProposal
<1> QED
  BY <1>1, <1>2 DEF FP!TablesGrow

\* What a step does to the rows, and to the rows operations carry.
RowsFromSaves ==
  \A t \in TaskIds :
    \/ tasks'[t] = tasks[t]
    \/ tasks'[t].status \notin Running
    \/ \E p \in Procs : top[p].at = "save" /\ top[p].task = t /\ tasks'[t] = top[p].new

NewSavesAreBacked ==
  \A p \in Procs :
    \/ top'[p] = top[p]
    \/ top'[p].at # "save"
    \/ top'[p].new.status \notin Running
    \/ top'[p].task \in TaskIds /\ Backed(top'[p].task, top'[p].new)

\* A step that behaves so preserves what GateInv says of backing.
LEMMA BackingKept ==
  ASSUME GateInv, Next, RowsFromSaves, NewSavesAreBacked
  PROVE  StartedUnderSeal' /\ SavesAreBacked'
<1>1. FP!TablesGrow
  BY PartsKept
<1>2. ASSUME NEW t \in TaskIds, tasks'[t].status \in Running
      PROVE  Backed(t, tasks'[t])
  BY <1>2 DEF RowsFromSaves, GateInv, StartedUnderSeal, SavesAreBacked, Running
<1>3. ASSUME NEW p \in Procs, top'[p].at = "save", top'[p].new.status \in Running
      PROVE  top'[p].task \in TaskIds /\ Backed(top'[p].task, top'[p].new)
  <2>1. CASE top'[p] = top[p]
    <3>1. TP!OpOK(p)
      BY <1>3, <2>1 DEF GateInv, TP!TaskInv, TP!OpsOK
    <3> QED
      BY <1>3, <2>1, <3>1 DEF GateInv, SavesAreBacked, TP!OpOK
  <2> QED
    BY <1>3, <2>1 DEF NewSavesAreBacked
<1>4. StartedUnderSeal'
  BY <1>1, <1>2, BackedKept DEF StartedUnderSeal, Backed, Running, T!compute_task_hash
<1>5. SavesAreBacked'
  BY <1>1, <1>3, BackedKept DEF SavesAreBacked, Backed, T!compute_task_hash
<1> QED
  BY <1>4, <1>5

\* The rows the task board's operations carry: only update and complete carry
\* a running one, and they read it from a running row with the same plan.
LEMMA CommandsCarryBacked ==
  ASSUME GateInv, NEW p \in Procs, T!TaskCommand(p) \/ \E t \in TaskIds : T!start(p, t)
  PROVE  /\ tasks' = tasks
         /\ \A r \in Procs \ {p} : top'[r] = top[r]
         /\ top'[p].at = "gate" \/ top'[p].at = "save"
         /\ top'[p].at = "save" /\ top'[p].new.status \in Running =>
              top'[p].task \in TaskIds /\ Backed(top'[p].task, top'[p].new)
<1>0. /\ top \in [Procs -> TP!TaskOperation]
      /\ \A t \in TaskIds : tasks[t] = TP!NoTask \/ tasks[t] \in TP!OrchestrationTask
      /\ \A t \in TaskIds : tasks[t].status \in Running =>
           tasks[t].plan # None /\ Backed(t, tasks[t])
  BY DEF GateInv, TP!TaskInv, TP!TaskTypeOK, TP!PlanMatchesStatus, TP!Released, Running,
         StartedUnderSeal
<1>1. ASSUME NEW step \in {"gate", "save"}, NEW kind, NEW t \in TaskIds, NEW new,
             T!Read(p, step, kind, t, new),
             step = "save" /\ new.status \in Running => Backed(t, new)
      PROVE  /\ tasks' = tasks
             /\ \A r \in Procs \ {p} : top'[r] = top[r]
             /\ top'[p].at = "gate" \/ top'[p].at = "save"
             /\ top'[p].at = "save" /\ top'[p].new.status \in Running =>
                  top'[p].task \in TaskIds /\ Backed(top'[p].task, top'[p].new)
  <2>1. top'[p] = [at |-> step, kind |-> kind, task |-> t,
                   expected |-> tasks[t].status, new |-> new]
    BY <1>0, <1>1 DEF T!Read
  <2> QED
    BY <1>0, <1>1, <2>1 DEF T!Read
<1>2. ASSUME NEW t \in TaskIds, NEW s \in Subjects, T!update(p, t, s)
      PROVE  LET new == [tasks[t] EXCEPT !.subject = s]
             IN  T!Read(p, "save", "update", t, new) /\ (new.status \in Running => Backed(t, new))
  <2>1. tasks[t] \in TP!OrchestrationTask
    BY <1>0, <1>2 DEF T!update, T!Read, T!RequireTask, T!NoTask, TP!NoTask
  <2> DEFINE new == [tasks[t] EXCEPT !.subject = s]
  <2>2. new.status = tasks[t].status /\ new.plan = tasks[t].plan
    BY <2>1 DEF TP!OrchestrationTask
  <2> HIDE DEF new
  <2>3. new.status \in Running => Backed(t, new)
    BY <1>0, <2>2 DEF Backed, T!compute_task_hash
  <2> QED
    BY <1>2, <2>3 DEF T!update, new
<1>3. ASSUME NEW t \in TaskIds, T!complete(p, t)
      PROVE  LET new == [tasks[t] EXCEPT !.status = "COMPLETED"]
             IN  T!Read(p, "save", "complete", t, new) /\ Backed(t, new)
  <2> DEFINE new == [tasks[t] EXCEPT !.status = "COMPLETED"]
  <2>1. T!Move(p, "save", "complete", t, new)
    BY <1>3 DEF T!complete
  <2>2. tasks[t] \in TP!OrchestrationTask
    BY <1>0, <2>1 DEF T!Move, T!Read, T!RequireTask, T!NoTask, TP!NoTask
  <2>3. new.status = "COMPLETED" /\ new.plan = tasks[t].plan
    BY <2>2 DEF TP!OrchestrationTask
  <2> HIDE DEF new
  <2>4. tasks[t].status = "IN_PROGRESS"
    BY <2>1, <2>3 DEF T!Move, T!can_move, T!TaskTransitions
  <2>5. Backed(t, new)
    BY <1>0, <2>3, <2>4 DEF Backed, T!compute_task_hash, Running
  <2> QED
    BY <2>1, <2>5 DEF T!Move, new
<1>4. ASSUME NEW t \in TaskIds, NEW plan \in Plans, T!submit_plan(p, t, plan)
      PROVE  LET new == [tasks[t] EXCEPT !.status = "PLANNING", !.plan = plan]
             IN  T!Read(p, "save", "submit_plan", t, new) /\ new.status \notin Running
  <2>1. tasks[t] \in TP!OrchestrationTask
    BY <1>0, <1>4 DEF T!submit_plan, T!Move, T!Read, T!RequireTask, T!NoTask, TP!NoTask
  <2> QED
    BY <1>4, <2>1 DEF T!submit_plan, T!Move, TP!OrchestrationTask, Running
<1>5. ASSUME NEW t \in TaskIds, T!reject(p, t)
      PROVE  LET new == [tasks[t] EXCEPT !.status = "PENDING", !.plan = None]
             IN  T!Read(p, "save", "reject", t, new) /\ new.status \notin Running
  <2>1. tasks[t] \in TP!OrchestrationTask
    BY <1>0, <1>5 DEF T!reject, T!Move, T!Read, T!RequireTask, T!NoTask, TP!NoTask
  <2> QED
    BY <1>5, <2>1 DEF T!reject, T!Move, TP!OrchestrationTask, Running
<1>6. ASSUME NEW t \in TaskIds, NEW kind, NEW status \in {"APPROVED", "DELETED"},
             T!Move(p, "save", kind, t, [tasks[t] EXCEPT !.status = status])
      PROVE  LET new == [tasks[t] EXCEPT !.status = status]
             IN  T!Read(p, "save", kind, t, new) /\ new.status \notin Running
  <2>1. tasks[t] \in TP!OrchestrationTask
    BY <1>0, <1>6 DEF T!Move, T!Read, T!RequireTask, T!NoTask, TP!NoTask
  <2> QED
    BY <1>6, <2>1 DEF T!Move, TP!OrchestrationTask, Running
<1>7. CASE \E t \in TaskIds : T!start(p, t)
  BY <1>1, <1>7 DEF T!start, T!Move
<1>8. CASE T!TaskCommand(p)
  <2>1. PICK t \in TaskIds :
          \/ \E s \in Subjects : T!update(p, t, s)
          \/ \E plan \in Plans : T!submit_plan(p, t, plan)
          \/ T!approve(p, t) \/ T!reject(p, t) \/ T!complete(p, t) \/ T!retry(p, t) \/ T!delete(p, t)
    BY <1>8 DEF T!TaskCommand
  <2>2. CASE \E s \in Subjects : T!update(p, t, s)
    BY <1>1, <1>2, <2>2
  <2>3. CASE \E plan \in Plans : T!submit_plan(p, t, plan)
    BY <1>1, <1>4, <2>3
  <2>4. CASE T!reject(p, t)
    BY <1>1, <1>5, <2>4
  <2>5. CASE T!complete(p, t)
    BY <1>1, <1>3, <2>5
  <2>6. CASE T!approve(p, t) \/ T!retry(p, t) \/ T!delete(p, t)
    BY <1>1, <1>6, <2>6 DEF T!approve, T!retry, T!delete
  <2> QED
    BY <2>1, <2>2, <2>3, <2>4, <2>5, <2>6
<1> QED
  BY <1>7, <1>8

\* What a step of the evidence loop does to the operation of its process.
LEMMA QuestionKept ==
  ASSUME FP!FpelInv, NEW p \in Procs, F!FpelStep(p)
  PROVE  /\ \A r \in Procs \ {p} : fop'[r] = fop[r]
         /\ fop[p].at \notin {"idle", "denied"}
         /\ \/ fop'[p].at \in {"idle", "denied"}
            \/ fop'[p].target = fop[p].target /\ fop'[p].hash = fop[p].hash
<1>1. fop \in [Procs -> FP!FpelOperation]
  BY DEF FP!FpelInv, FP!FpelTypeOK
<1>2. ASSUME F!Return(p)
      PROVE  (\A r \in Procs \ {p} : fop'[r] = fop[r]) /\ fop'[p].at = "idle"
  BY <1>1, <1>2 DEF F!Return, F!FpelIdle
<1>9. ASSUME F!Deny(p)
      PROVE  (\A r \in Procs \ {p} : fop'[r] = fop[r]) /\ fop'[p].at = "denied"
  BY <1>1, <1>9 DEF F!Deny, F!FpelIdle
<1>3. ASSUME NEW step, F!Goto(p, step)
      PROVE  /\ \A r \in Procs \ {p} : fop'[r] = fop[r]
             /\ fop'[p].target = fop[p].target /\ fop'[p].hash = fop[p].hash
  BY <1>1, <1>3 DEF F!Goto, FP!FpelOperation
<1>4. CASE F!FailSave(p) \/ F!SealSave(p) \/ \E q \in Proposals : F!FreezeSave(p, q) \/ F!SnapshotSave(p, q)
  BY <1>2, <1>4 DEF F!FailSave, F!SealSave, F!FreezeSave, F!SnapshotSave
<1>5. CASE F!SealFailed(p) \/ F!SealSealed(p) \/ F!SealHash(p) \/ F!SealReports(p)
  BY <1>2, <1>3, <1>5 DEF F!SealFailed, F!SealSealed, F!SealHash, F!SealReports
<1>6. CASE F!CheckFailed(p) \/ F!CheckSealed(p) \/ F!CheckDrift(p)
  BY <1>3, <1>6, <1>9 DEF F!CheckFailed, F!CheckSealed, F!CheckDrift
<1>7. CASE F!SealCheckers(p)
  <2> DEFINE cs == F!get_checkers_for(fop[p].target)
  <2>1. fop' = [fop EXCEPT ![p].at = "seal_reports", ![p].checkers = cs] /\ fop[p].at = "seal_checkers"
    BY <1>7 DEF F!SealCheckers
  <2> HIDE DEF cs
  <2> QED
    BY <1>1, <2>1 DEF FP!FpelOperation
<1>8. CASE F!SnapshotList(p)
  <2> DEFINE act == F!Active(fop[p].target)
  <2>1. /\ fop' = [fop EXCEPT ![p] = [fop[p] EXCEPT !.at = "snap_save", !.ids = act]]
        /\ fop[p].at = "snap_list"
    BY <1>8 DEF F!SnapshotList
  <2> HIDE DEF act
  <2> QED
    BY <1>1, <2>1 DEF FP!FpelOperation
<1> QED
  BY <1>4, <1>5, <1>6, <1>7, <1>8 DEF F!FpelStep

\* One step of the gated board.
LEMMA GateStep ==
  ASSUME GateInv, Next
  PROVE  GateInv'
<1>0. /\ top \in [Procs -> TP!TaskOperation] /\ fop \in [Procs -> FP!FpelOperation]
      /\ FP!FpelInv /\ GateAsksOwnRow
  BY DEF GateInv, TP!TaskInv, TP!TaskTypeOK, FP!FpelInv, FP!FpelTypeOK
<1>1. SUFFICES RowsFromSaves /\ NewSavesAreBacked /\ GateAsksOwnRow'
  BY PartsKept, BackingKept DEF GateInv
<1>2. CASE T!Create /\ UNCHANGED fpelVars
  <2>1. tasks \in [TaskIds -> TP!OrchestrationTask \cup {TP!NoTask}]
    BY DEF GateInv, TP!TaskInv, TP!TaskTypeOK
  <2>2. \A t \in TaskIds : tasks'[t] = tasks[t] \/ tasks'[t].status = "PENDING"
    BY <1>2, <2>1 DEF T!Create, T!create
  <2>3. top' = top /\ fop' = fop
    BY <1>2 DEF T!Create, T!create, fpelVars
  <2> QED
    BY <1>0, <2>2, <2>3 DEF RowsFromSaves, NewSavesAreBacked, GateAsksOwnRow, Running
<1>3. CASE F!FpelReport /\ UNCHANGED taskVars
  <2>1. top' = top /\ fop' = fop /\ tasks' = tasks
    BY <1>3 DEF F!FpelReport, F!Report, taskVars
  <2> QED
    BY <1>0, <2>1 DEF RowsFromSaves, NewSavesAreBacked, GateAsksOwnRow
<1>4. ASSUME NEW p \in Procs, BoardStep(p)
      PROVE  RowsFromSaves /\ NewSavesAreBacked /\ GateAsksOwnRow'
  <2>1. fop' = fop /\ fop[p].at = "idle"
    BY <1>4 DEF BoardStep, fpelVars
  <2>2. CASE T!TaskCommand(p) \/ \E t \in TaskIds : T!start(p, t)
    BY <1>0, <2>1, <2>2, CommandsCarryBacked
    DEF RowsFromSaves, NewSavesAreBacked, GateAsksOwnRow, T!compute_task_hash
  <2>3. CASE T!Save(p)
    <3>1. TP!OpOK(p)
      BY <2>3 DEF T!Save, GateInv, TP!TaskInv, TP!OpsOK
    <3>2. tasks' = tasks \/ tasks' = [tasks EXCEPT ![top[p].task] = top[p].new]
      BY <2>3 DEF T!Save, T!cas_save
    <3>3. RowsFromSaves
      <4>1. tasks \in [TaskIds -> TP!OrchestrationTask \cup {TP!NoTask}]
        BY DEF GateInv, TP!TaskInv, TP!TaskTypeOK
      <4> QED
        BY <2>3, <3>1, <3>2, <4>1 DEF RowsFromSaves, TP!OpOK, T!Save
    <3>4. top' = [top EXCEPT ![p] = T!TaskIdle]
      BY <2>3 DEF T!Save
    <3>5. top'[p].at = "idle" /\ \A r \in Procs \ {p} : top'[r] = top[r]
      BY <1>0, <3>4 DEF T!TaskIdle
    <3> QED
      BY <1>0, <2>1, <3>3, <3>5 DEF NewSavesAreBacked, GateAsksOwnRow, T!compute_task_hash
  <2> QED
    BY <1>4, <2>2, <2>3 DEF BoardStep
<1>5. ASSUME NEW p \in Procs, AskGate(p)
      PROVE  RowsFromSaves /\ NewSavesAreBacked /\ GateAsksOwnRow'
  <2>1. tasks' = tasks /\ top' = top
    BY <1>5 DEF AskGate, taskVars
  <2> DEFINE t == top[p].task
             h == T!compute_task_hash(top[p].new)
  <2>2. F!CheckRead(p, t, h)
    BY <1>5 DEF AskGate
  <2> HIDE DEF t, h
  <2>3. /\ fop'[p].at = "denied" \/ (fop'[p].target = t /\ fop'[p].hash = h)
        /\ \A r \in Procs \ {p} : fop'[r] = fop[r]
    BY <1>0, <2>2 DEF F!CheckRead, F!Begin, F!Deny, F!FpelIdle
  <2> QED
    BY <1>0, <2>1, <2>3
    DEF RowsFromSaves, NewSavesAreBacked, GateAsksOwnRow, T!compute_task_hash, t, h
<1>6. ASSUME NEW p \in Procs, GateDecides(p)
      PROVE  RowsFromSaves /\ NewSavesAreBacked /\ GateAsksOwnRow'
  <2>1. /\ tasks' = tasks
        /\ top' = [top EXCEPT ![p] = IF fop[p].at = "allowed"
                                     THEN [top[p] EXCEPT !.at = "save"] ELSE T!TaskIdle]
        /\ fop' = [fop EXCEPT ![p] = F!FpelIdle]
        /\ top[p].at = "gate" /\ fop[p].at \in {"allowed", "denied"}
    BY <1>6 DEF GateDecides, T!GateAnswer, F!CheckReturn, F!Return
  <2>2. fop'[p].at = "idle" /\ \A r \in Procs \ {p} : fop'[r] = fop[r] /\ top'[r] = top[r]
    BY <1>0, <2>1 DEF F!FpelIdle
  <2>3. fop[p].at = "allowed" =>
          fop[p].target = top[p].task /\ fop[p].hash = T!compute_task_hash(top[p].new)
    BY <1>0, <2>1 DEF GateAsksOwnRow
  <2>4. top[p].task \in TaskIds /\ top[p].new \in TP!OrchestrationTask
    BY <2>1 DEF GateInv, TP!TaskInv, TP!OpsOK, TP!OpOK
  <2>5. T!compute_task_hash(top[p].new) # None
    BY <2>4, GateAssumption DEF T!compute_task_hash, TP!OrchestrationTask
  <2>6. CASE fop[p].at = "allowed"
    <3>1. FP!FopOK(p)
      BY <1>0 DEF FP!FpelInv
    <3>2. LET q == fop[p].proposal
          IN  /\ q \in Proposals
              /\ frozen[q].target = fop[p].target
              /\ sealed[q] # None
              /\ fop[p].hash # None => sealed[q].content_hash = fop[p].hash
      BY <2>6, <3>1 DEF FP!FopOK, FP!SealSteps, FP!CheckSteps
    <3>3. Backed(top[p].task, top[p].new)
      BY <2>3, <2>5, <2>6, <3>2 DEF Backed
    <3>4. top'[p].task = top[p].task /\ top'[p].new = top[p].new /\ top'[p].at = "save"
      BY <1>0, <2>1, <2>6 DEF TP!TaskOperation
    <3> QED
      BY <1>0, <2>1, <2>2, <2>4, <3>3, <3>4
      DEF RowsFromSaves, NewSavesAreBacked, GateAsksOwnRow, T!compute_task_hash
  <2>7. CASE fop[p].at # "allowed"
    <3>1. top'[p].at = "idle"
      BY <1>0, <2>1, <2>7 DEF T!TaskIdle
    <3> QED
      BY <1>0, <2>1, <2>2, <3>1
      DEF RowsFromSaves, NewSavesAreBacked, GateAsksOwnRow, T!compute_task_hash
  <2> QED
    BY <2>6, <2>7
<1>7. ASSUME NEW p \in Procs, EvidenceStep(p)
      PROVE  RowsFromSaves /\ NewSavesAreBacked /\ GateAsksOwnRow'
  <2>1. tasks' = tasks /\ top' = top
    BY <1>7 DEF EvidenceStep, taskVars
  <2>2. CASE F!FpelStep(p)
    BY <1>0, <2>1, <2>2, QuestionKept
    DEF RowsFromSaves, NewSavesAreBacked, GateAsksOwnRow, T!compute_task_hash
  <2>3. CASE top[p].at = "idle" /\ F!FpelCommand(p)
    <3>1. \A r \in Procs \ {p} : fop'[r] = fop[r]
      BY <1>0, <2>3 DEF F!FpelCommand, F!FailRead, F!SealRead, F!Begin, F!FreezeRead, F!SnapshotRead
    <3> QED
      BY <1>0, <2>1, <2>3, <3>1
      DEF RowsFromSaves, NewSavesAreBacked, GateAsksOwnRow, T!compute_task_hash
  <2> QED
    BY <1>7, <2>2, <2>3 DEF EvidenceStep
<1>8. ASSUME NEW p \in Procs, Abort(p)
      PROVE  RowsFromSaves /\ NewSavesAreBacked /\ GateAsksOwnRow'
  <2>1. tasks' = tasks
    BY <1>8 DEF Abort, T!TaskAbort, taskVars
  <2>2. top' = top \/ top' = [top EXCEPT ![p] = T!TaskIdle]
    BY <1>8 DEF Abort, T!TaskAbort, taskVars
  <2>3. fop' = fop \/ fop' = [fop EXCEPT ![p] = F!FpelIdle]
    BY <1>8 DEF Abort, F!FpelAbort, F!Return, fpelVars
  <2>4. \A r \in Procs : top'[r] = top[r] \/ top'[r].at = "idle"
    BY <1>0, <2>2 DEF T!TaskIdle
  <2>5. \A r \in Procs : fop'[r] = fop[r] \/ fop'[r].at = "idle"
    BY <1>0, <2>3 DEF F!FpelIdle
  <2> QED
    BY <1>0, <2>1, <2>4, <2>5
    DEF RowsFromSaves, NewSavesAreBacked, GateAsksOwnRow, T!compute_task_hash
<1> QED
  BY <1>2, <1>3, <1>4, <1>5, <1>6, <1>7, <1>8 DEF Next

LEMMA GateInitInv ==
  ASSUME Init
  PROVE  GateInv
<1>1. TP!TaskNoneAssumption /\ FP!FpelNoneAssumption
  BY GateAssumption DEF TP!TaskNoneAssumption, FP!FpelNoneAssumption, Hashes
<1>2. TP!TaskInv /\ FP!FpelInv
  BY <1>1, SameBoard, SameEvidence, TP!TaskInitInv, FP!FpelInitOK DEF Init
<1>3. /\ \A t \in TaskIds : tasks[t].status = "ABSENT"
      /\ \A p \in Procs : top[p].at = "idle"
  BY DEF Init, T!TaskInit, T!NoTask, T!TaskIdle
<1> QED
  BY <1>2, <1>3 DEF GateInv, StartedUnderSeal, SavesAreBacked, GateAsksOwnRow

LEMMA GateStutter ==
  ASSUME GateInv, UNCHANGED vars
  PROVE  GateInv'
<1>1. TP!TaskNoneAssumption /\ FP!FpelNoneAssumption
  BY GateAssumption DEF TP!TaskNoneAssumption, FP!FpelNoneAssumption, Hashes
<1>2. TP!TaskInv' /\ FP!FpelInv'
  BY <1>1, TP!TaskStutterInv, FP!FpelStutter DEF GateInv, vars, TP!taskVars, FP!fpelVars
<1> QED
  BY <1>2 DEF GateInv, vars, StartedUnderSeal, SavesAreBacked, GateAsksOwnRow, Backed,
              T!compute_task_hash

LEMMA GateInvariance == Spec => []GateInv
<1>1. GateInv /\ [Next]_vars => GateInv'
  BY GateStep, GateStutter
<1> QED
  BY <1>1, GateInitInv, PTL DEF Spec

-----------------------------------------------------------------------------

\* The composition keeps the types of both parts.
THEOREM GatedTypeCorrect == Spec => []TypeOK
<1>1. GateInv => TypeOK
  BY SameBoard, SameEvidence DEF GateInv, TP!TaskInv, FP!FpelInv, TypeOK
<1> QED
  BY <1>1, GateInvariance, PTL

\* A task that start has let run is backed by a sealed verdict for the content
\* it has, whatever the other processes do between its reads and its save.
THEOREM GatedStart == Spec => []StartedUnderSeal
  BY GateInvariance, PTL DEF GateInv

=============================================================================
