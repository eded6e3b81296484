------------------------------ MODULE Schedule ------------------------------
(***************************************************************************)
(* Scheduled tasks: SchedulerService over ScheduledTaskRepository, and     *)
(* memory schedule.  Nothing in the repository executes a task when it is  *)
(* due: the marks are for a caller of the service, and there is no claim.  *)
(***************************************************************************)
EXTENDS Nothing, Naturals

CONSTANTS
  Planners,    \* processes that use the service
  ScheduleIds, \* ids of tasks (uuid4)
  MaxDue       \* bound: the clock, in which tasks are due

ASSUME ScheduleAssumption == None \notin ScheduleIds /\ MaxDue \in Nat

VARIABLES
  scheduled,   \* the table scheduled_tasks
  planner,     \* the task each process has just looked at
  due          \* the time

scheduleVars == <<scheduled, planner, due>>

-----------------------------------------------------------------------------

ScheduleStatus == {"PENDING", "EXECUTED", "CANCELLED", "FAILED"}

\* at: scheduled_at.  A row that is not there is "absent", or "deleted": an id
\* is not made twice.
ScheduledTask == [status : ScheduleStatus \cup {"absent", "deleted"}, at : 0..MaxDue]
NoScheduledTask == [status |-> "absent", at |-> 0]

InTable(i) == scheduled[i].status \in ScheduleStatus

\* A process has read a task and is about to do something with it.
Planning == [about : ScheduleIds \cup {None}, to : {"none", "cancel", "execute"}]
NotPlanning == [about |-> None, to |-> "none"]

\* The type invariant.
ScheduleTypeOK ==
  /\ scheduled \in [ScheduleIds -> ScheduledTask]
  /\ planner \in [Planners -> Planning]
  /\ due \in 0..MaxDue

ScheduleInit ==
  /\ scheduled = [i \in ScheduleIds |-> NoScheduledTask]
  /\ planner = [p \in Planners |-> NotPlanning]
  /\ due = 0

-----------------------------------------------------------------------------

\* ScheduledTaskRepository.update_status: any row with the id; none is an error.
SetStatus(i, status) ==
  scheduled' = IF InTable(i) THEN [scheduled EXCEPT ![i].status = status] ELSE scheduled

\* get_overdue: pending, and scheduled_at < now.
get_overdue == {i \in ScheduleIds : scheduled[i].status = "PENDING" /\ scheduled[i].at < due}

CreateScheduled(i, at) ==
  scheduled' = [scheduled EXCEPT ![i] = [status |-> "PENDING", at |-> at]]

\* memory schedule add; a delay of no seconds is due at once.
add_scheduled(i) ==
  /\ scheduled[i] = NoScheduledTask
  /\ \E at \in due..MaxDue : CreateScheduled(i, at)
  /\ UNCHANGED <<planner, due>>

\* memory schedule cancel looks the task up, whatever its status is ...
cancel_scheduled(p, i) ==
  /\ planner[p] = NotPlanning /\ InTable(i)
  /\ planner' = [planner EXCEPT ![p] = [about |-> i, to |-> "cancel"]]
  /\ UNCHANGED <<scheduled, due>>

\* ... and cancels it.
cancel_task(p) ==
  /\ planner[p].to = "cancel"
  /\ SetStatus(planner[p].about, "CANCELLED")
  /\ planner' = [planner EXCEPT ![p] = NotPlanning]
  /\ UNCHANGED due

\* A caller of the service executes a task that is overdue ...
take_overdue(p) ==
  /\ planner[p] = NotPlanning
  /\ \E i \in get_overdue : planner' = [planner EXCEPT ![p] = [about |-> i, to |-> "execute"]]
  /\ UNCHANGED <<scheduled, due>>

\* ... and marks it: mark_completed, mark_failed.
mark_task(p) ==
  /\ planner[p].to = "execute"
  /\ \E status \in {"EXECUTED", "FAILED"} : SetStatus(planner[p].about, status)
  /\ planner' = [planner EXCEPT ![p] = NotPlanning]
  /\ UNCHANGED due

delete_scheduled(i) ==
  /\ InTable(i)
  /\ scheduled' = [scheduled EXCEPT ![i].status = "deleted"]
  /\ UNCHANGED <<planner, due>>

DueAdvances == due < MaxDue /\ due' = due + 1 /\ UNCHANGED <<scheduled, planner>>

Scheduling(p) ==
  \/ \E i \in ScheduleIds : cancel_scheduled(p, i)
  \/ cancel_task(p) \/ take_overdue(p) \/ mark_task(p)

ScheduleNext ==
  \/ \E p \in Planners : Scheduling(p)
  \/ \E i \in ScheduleIds : add_scheduled(i) \/ delete_scheduled(i)
  \/ DueAdvances

ScheduleSpec == ScheduleInit /\ [][ScheduleNext]_scheduleVars

-----------------------------------------------------------------------------
(* Properties *)

\* No task is marked before it was due, however late the mark comes and
\* whoever cancelled or marked the task meanwhile.
MarkedWasDue ==
  \A i \in ScheduleIds : scheduled[i].status \in {"EXECUTED", "FAILED"} => scheduled[i].at < due

=============================================================================
