----------------------------- MODULE GatedTasks -----------------------------
(***************************************************************************)
(* The task board with the FPEL gate wired in, as container.py builds it:  *)
(* TaskBoardService.start asks check_sealed(task_id, compute_task_hash)    *)
(* and starts the task only on a decision that allows it.                  *)
(*                                                                         *)
(* A process is one thread: it runs a task board operation, or an fpel     *)
(* command, or start, which runs check_sealed in the middle.  check_sealed *)
(* called from elsewhere writes nothing and is left out.                   *)
(***************************************************************************)
CONSTANTS Procs, TaskIds, Plans, Subjects, Proposals, Checkers, None

VARIABLES tasks, top, frozen, sealed, failed, reports, fop

\* A content hash stands for the content.
Hashes == Plans \cup Subjects

T == INSTANCE TaskBoard
F == INSTANCE Fpel WITH Targets <- TaskIds

ASSUME GateAssumption ==
  /\ None \notin TaskIds /\ None \notin Plans /\ None \notin Subjects
  /\ None \notin Proposals /\ None \notin {"PASS", "FAIL"}

taskVars == <<tasks, top>>
fpelVars == <<frozen, sealed, failed, reports, fop>>
vars == <<tasks, top, frozen, sealed, failed, reports, fop>>

TypeOK == T!TaskTypeOK /\ F!FpelTypeOK

Init == T!TaskInit /\ F!FpelInit

-----------------------------------------------------------------------------

\* A task board operation, or its save.
BoardStep(p) ==
  /\ fop[p].at = "idle"
  /\ T!TaskCommand(p) \/ T!Save(p) \/ \E t \in TaskIds : T!start(p, t)
  /\ UNCHANGED fpelVars

\* Mutant: start asks about the target without its own content.
AskWithoutHash(p) ==
  /\ top[p].at = "gate"
  /\ F!CheckRead(p, top[p].task, None)
  /\ UNCHANGED taskVars

\* start, holding the row it read, calls check_sealed.
AskGate(p) ==
  /\ top[p].at = "gate"
  /\ F!CheckRead(p, top[p].task, T!compute_task_hash(top[p].new))
  /\ UNCHANGED taskVars

\* check_sealed returns its decision to start.
GateDecides(p) ==
  /\ top[p].at = "gate"
  /\ F!CheckReturn(p)
  /\ T!GateAnswer(p, fop[p].at = "allowed")

\* An fpel command is begun, or an operation on the fpel tables goes on.
EvidenceStep(p) ==
  /\ F!FpelStep(p) \/ (top[p].at = "idle" /\ F!FpelCommand(p))
  /\ UNCHANGED taskVars

\* The process dies in whatever it was doing.
Abort(p) ==
  \/ T!TaskAbort(p) /\ fop[p].at = "idle" /\ UNCHANGED fpelVars
  \/ F!FpelAbort(p) /\ top[p].at = "idle" /\ UNCHANGED taskVars
  \/ T!TaskAbort(p) /\ F!FpelAbort(p)

Next ==
  \/ T!Create /\ UNCHANGED fpelVars
  \/ F!FpelReport /\ UNCHANGED taskVars
  \/ \E p \in Procs :
       BoardStep(p) \/ AskGate(p) \/ GateDecides(p) \/ EvidenceStep(p) \/ Abort(p)

Spec == Init /\ [][Next]_vars

-----------------------------------------------------------------------------
(* Properties *)

\* A verdict has sealed exactly the content of this row for this task.
Backed(t, row) ==
  \E q \in Proposals :
    /\ frozen[q].target = t
    /\ sealed[q] # None
    /\ sealed[q].content_hash = T!compute_task_hash(row)

\* A task that runs or has run does so under a seal: some proposal of the
\* task has been sealed with exactly the content the task has, whatever was
\* updated, rejected, resubmitted, re-frozen or failed in between, and
\* however old the row was that start or update wrote back.
StartedUnderSeal ==
  \A t \in TaskIds :
    tasks[t].status \in {"IN_PROGRESS", "COMPLETED"} => Backed(t, tasks[t])

=============================================================================
