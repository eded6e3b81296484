------------------------------ MODULE Polling ------------------------------
(***************************************************************************)
(* Autonomous polling: AgentPollingService over the table poll_runs, the   *)
(* run directories, the task board, the launch registry and the agents.    *)
(*                                                                         *)
(* Pollers (fork poll start) call poll_once and check_runs over and over;  *)
(* cancellers (fork poll cancel) call cancel_run.  Each call on a store is *)
(* a step and other processes run between two of them.  update_status is   *)
(* two: it reads and validates, then writes without a guard.  A call on    *)
(* the task board or the launch registry is one step here; what happens    *)
(* inside them is in TaskBoard and LaunchRegistry.                         *)
(*                                                                         *)
(* A launch is named by the run it was claimed for (both ids are fresh     *)
(* uuid4s).  Time is left open: a lease may run out whenever it is held,   *)
(* and QUEUED_TIMEOUT_S may have passed since any recorded started_at.     *)
(***************************************************************************)
EXTENDS Naturals, FiniteSets

CONSTANTS
  Pollers, Cancellers,  \* processes
  Tasks, Runs,          \* approved tasks, poll run ids
  MaxConcurrent,        \* max_concurrent
  GateAnswers,          \* what check_sealed may answer start
  SpawnOutcomes,        \* "handle", "nothing", "no_handle" (tmux timed out)
  AgentOutcomes,        \* "COMPLETED", "FAILED", "crash"
  MaxCrashes,           \* how many processes may die
  KillFails,            \* whether tmux kill-pane may time out
  None

Procs == Pollers \cup Cancellers

ASSUME PollAssumption ==
  /\ MaxConcurrent \in Nat \ {0}
  /\ IsFiniteSet(Runs)  \* a bound: the ids that are left are counted
  /\ GateAnswers \subseteq BOOLEAN
  /\ SpawnOutcomes \subseteq {"handle", "nothing", "no_handle"}
  /\ AgentOutcomes \subseteq {"COMPLETED", "FAILED", "crash"}
  /\ MaxCrashes \in Nat /\ KillFails \in BOOLEAN
  /\ None \notin Tasks \cup Runs \cup {"RUNNING", "COMPLETED", "FAILED"}

VARIABLES
  tasks,   \* status of each task
  runs,    \* poll_runs
  reg,     \* agent_launch_registry, for the keys of the tasks
  file,    \* status in status.json, None without a file
  event,   \* whether events.jsonl holds an agent_spawned event
  agent,   \* the agent process of each run: "none", "alive", "ended"
  pop,     \* what each process is in the middle of
  crashes  \* processes that have died

vars == <<tasks, runs, reg, file, event, agent, pop, crashes>>

-----------------------------------------------------------------------------
(* Statuses and rows *)

TaskStatus == {"APPROVED", "IN_PROGRESS", "COMPLETED"}

PollRunStatus ==
  {"QUEUED", "SPAWNING", "RUNNING", "TERMINATING", "QUARANTINED",
   "COMPLETED", "FAILED", "CANCELLED"}

Terminal == {"COMPLETED", "FAILED", "CANCELLED"}

RunTransitions ==
  ({"QUEUED"}      \X {"SPAWNING", "CANCELLED", "QUARANTINED"})             \cup
  ({"SPAWNING"}    \X {"RUNNING", "QUARANTINED", "FAILED", "CANCELLED"})    \cup
  ({"RUNNING"}     \X {"TERMINATING", "COMPLETED", "FAILED", "CANCELLED"})  \cup
  ({"TERMINATING"} \X {"COMPLETED", "FAILED", "CANCELLED"})                 \cup
  ({"QUARANTINED"} \X {"CANCELLED"})

\* list_active and list_launch_blocking
ActiveStatuses == {"QUEUED", "SPAWNING", "RUNNING", "TERMINATING"}
BlockingStatuses == ActiveStatuses \cup {"QUARANTINED"}

\* handle: launch metadata is recorded; started: started_at is not NULL.
PollRun == [status : PollRunStatus, task : Tasks, handle : BOOLEAN, started : BOOLEAN]
NoRun == [status |-> "ABSENT", task |-> None, handle |-> FALSE, started |-> FALSE]

LaunchInFlight == {"RESERVED", "SPAWNING", "ACTIVE", "TERMINATING"}
LaunchBlocking == LaunchInFlight \cup {"QUARANTINED"}

Launch ==
  [status  : LaunchBlocking \cup {"TERMINATED", "FAILED"},
   key     : Tasks,
   lease   : {"none", "held", "expired"},
   created : Nat]
NoLaunch == [status |-> "ABSENT", key |-> None, lease |-> "none", created |-> 0]

Labels ==
  {"idle", "reconcile", "approved", "filter", "pick", "find", "claim", "suppress",
   "save", "start", "confirm_spawning", "spawn", "quarantine", "record",
   "confirm_active", "write_status", "list_active", "check", "fail", "terminate", "kill",
   "complete_task", "begin_termination", "confirm_terminated", "mark_failed", "retry",
   "update", "write"}

Table == [Runs -> PollRun \cup {NoRun}]
EmptyTable == [r \in Runs |-> NoRun]

\* flow: the method the process is in, where methods share steps;
\* target and then: what update_status writes, and where it returns to;
\* snap: the rows check_runs listed and has not come to yet;
\* found, handle: whether the row was there, with launch metadata, when
\* _fail_run and _terminate_spawned_agent read it.
Operation ==
  [at     : Labels,
   flow   : {"none", "spawn", "denied", "complete", "fail", "cancel"},
   run    : Runs \cup {None},
   task   : Tasks \cup {None},
   cand   : SUBSET Tasks,
   avail  : 0..MaxConcurrent,
   todo   : SUBSET Runs,
   snap   : Table,
   target : PollRunStatus \cup {None},
   then   : Labels,
   found  : BOOLEAN,
   handle : BOOLEAN]

Idle ==
  [at |-> "idle", flow |-> "none", run |-> None, task |-> None, cand |-> {}, avail |-> 0,
   todo |-> {}, snap |-> EmptyTable, target |-> None, then |-> "idle", found |-> FALSE,
   handle |-> FALSE]

\* The type invariant.
TypeOK ==
  /\ tasks \in [Tasks -> TaskStatus]
  /\ runs \in Table
  /\ reg \in [Runs -> Launch \cup {NoLaunch}]
  /\ file \in [Runs -> {"RUNNING", "COMPLETED", "FAILED", None}]
  /\ event \in [Runs -> BOOLEAN]
  /\ agent \in [Runs -> {"none", "alive", "ended"}]
  /\ pop \in [Procs -> Operation]
  /\ crashes \in 0..MaxCrashes

Init ==
  /\ tasks = [t \in Tasks |-> "APPROVED"]
  /\ runs = EmptyTable
  /\ reg = [r \in Runs |-> NoLaunch]
  /\ file = [r \in Runs |-> None]
  /\ event = [r \in Runs |-> FALSE]
  /\ agent = [r \in Runs |-> "none"]
  /\ pop = [p \in Procs |-> Idle]
  /\ crashes = 0

-----------------------------------------------------------------------------
(* Helpers *)

Become(p, o) == pop' = [pop EXCEPT ![p] = o]
Go(p, label) == Become(p, [pop[p] EXCEPT !.at = label])

\* An exception ends the cycle of the polling loop, or the cancel command.
Raise(p) == Become(p, Idle)

\* poll_once returns and the loop goes on with check_runs.
PollReturns(p) == Become(p, [Idle EXCEPT !.at = "list_active"])

\* check_runs goes on with the next run.
NextRun(p) == Become(p, [Idle EXCEPT !.at = "check", !.snap = pop[p].snap])

\* update_status is called; it returns to the label then.
UpdateStatus(p, status, then) ==
  Become(p, [pop[p] EXCEPT !.at = "update", !.target = status, !.then = then])

Updated(p) ==
  Become(p, [pop[p] EXCEPT !.at = pop[p].then, !.target = None, !.then = "idle"])

\* _spawn_run returns: the next candidate.
NextTask(p) ==
  Become(p, [Idle EXCEPT !.at = "pick", !.cand = pop[p].cand, !.avail = pop[p].avail])

MoveLaunch(r, from, to) ==
  reg' = IF reg[r].status \in from THEN [reg EXCEPT ![r].status = to] ELSE reg

\* quarantine() and mark_failed() of the lifecycle service.
QuarantineLaunch(r) == MoveLaunch(r, {"RESERVED", "SPAWNING", "ACTIVE"}, "QUARANTINED")
FailLaunch(r) == MoveLaunch(r, LaunchBlocking, "FAILED")

\* find_active_by_canonical_key: the newest blocking launch.
FindActive(t) ==
  LET blocking == {r \in Runs : reg[r].key = t /\ reg[r].status \in LaunchBlocking}
  IN  {r \in blocking : \A s \in blocking : reg[s].created <= reg[r].created}

Expired == {r \in Runs : reg[r].status \in {"RESERVED", "SPAWNING"} /\ reg[r].lease = "expired"}

Fresh(r) == runs[r] = NoRun /\ reg[r] = NoLaunch

\* The bound on launches: an id is left for every process that will want one.
IdsLeft ==
  Cardinality({p \in Procs : pop[p].at \in {"find", "claim", "suppress"}})
    < Cardinality({r \in Runs : Fresh(r)})

-----------------------------------------------------------------------------
(* PollRunRepository.update_status *)

\* The read: a missing row passes, an illegal transition raises ValueError.
UpdateRead(p) ==
  /\ pop[p].at = "update"
  /\ LET row == runs[pop[p].run]
     IN  IF row = NoRun \/ <<row.status, pop[p].target>> \in RunTransitions
         THEN Go(p, "write") ELSE Raise(p)
  /\ UNCHANGED <<tasks, runs, reg, file, event, agent, crashes>>

Written(r, status) ==
  [runs EXCEPT ![r].status = status,
               ![r].started = runs[r].started \/ status \notin Terminal]

\* Mutant: the index covers every active run that may have an agent.
IndexedActive == {"QUEUED", "SPAWNING", "RUNNING"}

\* idx_poll_runs_unique_active_task: the rows it covers, and the update it refuses.
IndexedStatuses == {"QUEUED", "RUNNING"}

IndexRefuses(r, status) ==
  /\ status \in IndexedStatuses
  /\ \E s \in Runs \ {r} : runs[s].task = runs[r].task /\ runs[s].status \in IndexedStatuses

\* The write: UPDATE ... WHERE id = ?, whatever the status is by now.
UpdateWrite(p) ==
  /\ pop[p].at = "write"
  /\ LET r == pop[p].run
     IN  IF runs[r] = NoRun THEN Updated(p) /\ UNCHANGED runs
         ELSE IF IndexRefuses(r, pop[p].target) THEN Raise(p) /\ UNCHANGED runs
         ELSE Updated(p) /\ runs' = Written(r, pop[p].target)
  /\ UNCHANGED <<tasks, reg, file, event, agent, crashes>>

-----------------------------------------------------------------------------
(* poll_once: the first half of a cycle of the polling loop *)

\* reconcile_expired_leases: list, then quarantine one after the other.
PollOnce(p) ==
  /\ p \in Pollers /\ pop[p].at = "idle"
  /\ Become(p, [Idle EXCEPT !.at = "reconcile", !.todo = Expired])
  /\ UNCHANGED <<tasks, runs, reg, file, event, agent, crashes>>

Reconcile(p, r) ==
  /\ pop[p].at = "reconcile" /\ r \in pop[p].todo
  /\ QuarantineLaunch(r)
  /\ Become(p, [pop[p] EXCEPT !.todo = @ \ {r}])
  /\ UNCHANGED <<tasks, runs, file, event, agent, crashes>>

Blocking == {r \in Runs : runs[r].status \in BlockingStatuses}

\* Mutant: quarantined runs do not take a slot.
SlotsIgnoringQuarantine ==
  MaxConcurrent - Cardinality({r \in Runs : runs[r].status \in ActiveStatuses})

Slots == MaxConcurrent - Cardinality(Blocking)

PollList(p) ==
  /\ pop[p].at = "reconcile" /\ pop[p].todo = {}
  /\ IF Slots <= 0 THEN PollReturns(p)
     ELSE Become(p, [pop[p] EXCEPT !.at = "approved", !.avail = Slots,
                                   !.cand = Tasks \ {runs[r].task : r \in Blocking}])
  /\ UNCHANGED <<tasks, runs, reg, file, event, agent, crashes>>

PollApproved(p) ==
  /\ pop[p].at = "approved"
  /\ Become(p, [pop[p] EXCEPT !.at = "filter", !.cand = {t \in @ : tasks[t] = "APPROVED"}])
  /\ UNCHANGED <<tasks, runs, reg, file, event, agent, crashes>>

PollFilter(p) ==
  /\ pop[p].at = "filter"
  /\ Become(p, [pop[p] EXCEPT !.at = "pick", !.cand = {t \in @ : FindActive(t) = {}}])
  /\ UNCHANGED <<tasks, runs, reg, file, event, agent, crashes>>

PickTask(p, t) ==
  /\ pop[p].at = "pick" /\ t \in pop[p].cand /\ pop[p].avail > 0 /\ IdsLeft
  /\ Become(p, [pop[p] EXCEPT !.at = "find", !.flow = "spawn", !.task = t,
                              !.cand = @ \ {t}, !.avail = @ - 1])
  /\ UNCHANGED <<tasks, runs, reg, file, event, agent, crashes>>

PollDone(p) ==
  /\ pop[p].at = "pick"
  /\ pop[p].cand = {} \/ pop[p].avail = 0 \/ ~IdsLeft
  /\ PollReturns(p)
  /\ UNCHANGED <<tasks, runs, reg, file, event, agent, crashes>>

-----------------------------------------------------------------------------
(* _spawn_run *)

\* request_launch: the fast path; an expired reservation is quarantined.
RequestFind(p) ==
  /\ pop[p].at = "find"
  /\ \/ /\ FindActive(pop[p].task) = {}
        /\ Go(p, "claim") /\ UNCHANGED reg
     \/ \E l \in FindActive(pop[p].task) :
          IF reg[l].lease # "expired" THEN Go(p, "suppress") /\ UNCHANGED reg
          ELSE Go(p, "claim") /\ MoveLaunch(l, {"RESERVED", "SPAWNING"}, "QUARANTINED")
  /\ UNCHANGED <<tasks, runs, file, event, agent, crashes>>

\* idx_one_active_launch_per_key
Claimable(t) == \A r \in Runs : reg[r].key = t => reg[r].status \notin LaunchInFlight

RequestClaim(p, r) ==
  /\ pop[p].at = "claim" /\ Fresh(r) /\ Claimable(pop[p].task)
  /\ reg' = [reg EXCEPT ![r] =
               [status |-> "RESERVED", key |-> pop[p].task, lease |-> "held",
                created |-> 1 + Cardinality({s \in Runs : reg[s] # NoLaunch})]]
  /\ Become(p, [pop[p] EXCEPT !.at = "save", !.run = r])
  /\ UNCHANGED <<tasks, runs, file, event, agent, crashes>>

RequestLost(p) ==
  /\ pop[p].at = "claim" /\ ~Claimable(pop[p].task)
  /\ Go(p, "suppress")
  /\ UNCHANGED <<tasks, runs, reg, file, event, agent, crashes>>

\* The launch is denied: a run is saved as CANCELLED.
Suppress(p, r) ==
  /\ pop[p].at = "suppress" /\ Fresh(r)
  /\ runs' = [runs EXCEPT ![r] = [NoRun EXCEPT !.status = "CANCELLED", !.task = pop[p].task]]
  /\ NextTask(p)
  /\ UNCHANGED <<tasks, reg, file, event, agent, crashes>>

\* INSERT OR REPLACE: a row the unique index conflicts with is deleted.
SaveRun(p) ==
  /\ pop[p].at = "save"
  /\ runs' = [r \in Runs |->
                IF r = pop[p].run
                THEN [NoRun EXCEPT !.status = "QUEUED", !.task = pop[p].task]
                ELSE IF runs[r].task = pop[p].task /\ runs[r].status \in IndexedStatuses
                THEN NoRun
                ELSE runs[r]]
  /\ Go(p, "start")
  /\ UNCHANGED <<tasks, reg, file, event, agent, crashes>>

\* Mutant: the task is started whatever its status.
StartUnguarded(p) ==
  /\ pop[p].at = "start"
  /\ tasks' = [tasks EXCEPT ![pop[p].task] = "IN_PROGRESS"]
  /\ UpdateStatus(p, "SPAWNING", "confirm_spawning")
  /\ UNCHANGED <<runs, reg, file, event, agent, crashes>>

\* TaskBoardService.start: done, refused with TaskTransitionError, or failed
\* with another ValueError because the task was modified concurrently.
StartTask(p) ==
  /\ pop[p].at = "start"
  /\ LET t == pop[p].task
     IN  \/ /\ tasks[t] = "APPROVED" /\ TRUE \in GateAnswers
            /\ tasks' = [tasks EXCEPT ![t] = "IN_PROGRESS"]
            /\ UpdateStatus(p, "SPAWNING", "confirm_spawning")
         \/ /\ tasks[t] # "APPROVED" \/ FALSE \in GateAnswers
            /\ Become(p, [pop[p] EXCEPT !.at = "update", !.flow = "denied",
                                        !.target = "FAILED", !.then = "mark_failed"])
            /\ UNCHANGED tasks
         \/ /\ tasks[t] # "APPROVED"
            /\ Raise(p)
            /\ UNCHANGED tasks
  /\ UNCHANGED <<runs, reg, file, event, agent, crashes>>

ConfirmSpawning(p) ==
  /\ pop[p].at = "confirm_spawning"
  /\ MoveLaunch(pop[p].run, {"RESERVED"}, "SPAWNING")
  /\ Go(p, "spawn")
  /\ UNCHANGED <<tasks, runs, file, event, agent, crashes>>

\* get_by_id, then _spawn_agent; "no_handle": tmux times out with the pane made.
SpawnAgent(p) ==
  /\ pop[p].at = "spawn"
  /\ LET r == pop[p].run
     IN  \/ /\ runs[r] = NoRun \/ "nothing" \in SpawnOutcomes
            /\ UpdateStatus(p, "QUARANTINED", "quarantine")
            /\ UNCHANGED agent
         \/ /\ runs[r] # NoRun /\ "no_handle" \in SpawnOutcomes
            /\ UpdateStatus(p, "QUARANTINED", "quarantine")
            /\ agent' = [agent EXCEPT ![r] = "alive"]
         \/ /\ runs[r] # NoRun /\ "handle" \in SpawnOutcomes
            /\ Go(p, "record")
            /\ agent' = [agent EXCEPT ![r] = "alive"]
  /\ UNCHANGED <<tasks, runs, reg, file, event, crashes>>

\* The launch is quarantined too; a run that has disappeared is an error.
QuarantineSpawn(p) ==
  /\ pop[p].at = "quarantine"
  /\ QuarantineLaunch(pop[p].run)
  /\ IF runs[pop[p].run] = NoRun THEN Raise(p) ELSE NextTask(p)
  /\ UNCHANGED <<tasks, runs, file, event, agent, crashes>>

\* _terminate_launch_handle
Kill(r) ==
  \/ agent' = IF agent[r] = "alive" THEN [agent EXCEPT ![r] = "ended"] ELSE agent
  \/ KillFails /\ UNCHANGED agent

\* record_launch_metadata.  The row is there (RowOutlivesSpawn), so the branch
\* for metadata that could not be saved is never taken.
RecordMetadata(p) ==
  /\ pop[p].at = "record"
  /\ runs' = [runs EXCEPT ![pop[p].run].handle = TRUE]
  /\ Go(p, "confirm_active")
  /\ UNCHANGED <<tasks, reg, file, event, agent, crashes>>

\* The agent_spawned event, then confirm_active, which clears the lease; whether
\* it succeeded is not looked at.
ConfirmActive(p) ==
  /\ pop[p].at = "confirm_active"
  /\ LET r == pop[p].run
     IN  reg' = IF reg[r].status = "SPAWNING"
                THEN [reg EXCEPT ![r].status = "ACTIVE", ![r].lease = "none"] ELSE reg
  /\ event' = [event EXCEPT ![pop[p].run] = TRUE]
  /\ UpdateStatus(p, "RUNNING", "write_status")
  /\ UNCHANGED <<tasks, runs, file, agent, crashes>>

WriteStatus(p) ==
  /\ pop[p].at = "write_status"
  /\ file' = [file EXCEPT ![pop[p].run] = "RUNNING"]
  /\ IF runs[pop[p].run] = NoRun THEN Raise(p) ELSE NextTask(p)
  /\ UNCHANGED <<tasks, runs, reg, event, agent, crashes>>

-----------------------------------------------------------------------------
(* check_runs: the second half of a cycle *)

CheckRuns(p) ==
  /\ pop[p].at = "list_active"
  /\ Become(p, [Idle EXCEPT !.at = "check",
                  !.snap = [r \in Runs |-> IF runs[r].status \in ActiveStatuses
                                           THEN runs[r] ELSE NoRun]])
  /\ UNCHANGED <<tasks, runs, reg, file, event, agent, crashes>>

\* The row of r as listed; what is done with it depends on status.json now.
Check(p, r, label, flow) ==
  Become(p, [pop[p] EXCEPT !.at = label, !.flow = flow, !.run = r,
                           !.task = pop[p].snap[r].task, !.snap[r] = NoRun])

Unresolved(row) == row.status \in {"QUEUED", "SPAWNING"}

\* Mutant: a run that was never started is left alone.
ElapsedSinceStart(row) == IF row.started THEN BOOLEAN ELSE {FALSE}

\* Whether QUEUED_TIMEOUT_S has passed since "started_at or 0": without a
\* started_at it always has.
Elapsed(row) == IF row.started THEN BOOLEAN ELSE {TRUE}

CheckTimesOut(p, r) ==
  /\ pop[p].at = "check" /\ Unresolved(pop[p].snap[r]) /\ file[r] \in {None, "RUNNING"}
  /\ TRUE \in Elapsed(pop[p].snap[r])
  /\ Become(p, [pop[p] EXCEPT !.at = "update", !.run = r, !.snap[r] = NoRun,
                              !.target = "QUARANTINED", !.then = "check"])
  /\ UNCHANGED <<tasks, runs, reg, file, event, agent, crashes>>

CheckLeaves(p, r) ==
  /\ pop[p].at = "check" /\ pop[p].snap[r] # NoRun /\ file[r] \in {None, "RUNNING"}
  /\ IF Unresolved(pop[p].snap[r]) THEN FALSE \in Elapsed(pop[p].snap[r])
                                   ELSE file[r] = "RUNNING"
  /\ Become(p, [pop[p] EXCEPT !.snap[r] = NoRun])
  /\ UNCHANGED <<tasks, runs, reg, file, event, agent, crashes>>

CheckFails(p, r) ==
  /\ pop[p].at = "check" /\ pop[p].snap[r] # NoRun
  /\ \/ file[r] = "FAILED"
     \/ file[r] = None /\ ~Unresolved(pop[p].snap[r])
  /\ Check(p, r, "fail", "fail")
  /\ UNCHANGED <<tasks, runs, reg, file, event, agent, crashes>>

CheckCompletes(p, r) ==
  /\ pop[p].at = "check" /\ pop[p].snap[r] # NoRun
  /\ file[r] = "COMPLETED"
  /\ Check(p, r, "terminate", "complete")
  /\ UNCHANGED <<tasks, runs, reg, file, event, agent, crashes>>

CheckDone(p) ==
  /\ pop[p].at = "check" /\ pop[p].snap = EmptyTable
  /\ Become(p, Idle)
  /\ UNCHANGED <<tasks, runs, reg, file, event, agent, crashes>>

-----------------------------------------------------------------------------
(* _terminate_spawned_agent *)

\* The status first: SPAWNING -> TERMINATING is illegal, and raises.
Terminate(p) ==
  /\ pop[p].at = "terminate"
  /\ LET row == runs[pop[p].run]
         read == [pop[p] EXCEPT !.handle = row.handle]
     IN  IF row.status \in {"RUNNING", "SPAWNING"}
         THEN Become(p, [read EXCEPT !.at = "update", !.target = "TERMINATING", !.then = "kill"])
         ELSE IF row.status \in {"QUEUED", "QUARANTINED"}
         THEN Become(p, [read EXCEPT !.at = "update", !.target = "CANCELLED", !.then = "kill"])
         ELSE Become(p, [read EXCEPT !.at = "kill"])
  /\ UNCHANGED <<tasks, runs, reg, file, event, agent, crashes>>

AfterKill(p) ==
  CASE pop[p].flow = "complete" -> Go(p, "complete_task")
    [] pop[p].flow = "fail"     -> UpdateStatus(p, "FAILED", "mark_failed")
    [] pop[p].flow = "cancel"   -> Go(p, "retry")

\* Mutant: only the event is looked for.
KillByEvent(p) ==
  /\ pop[p].at = "kill"
  /\ IF event[pop[p].run] /\ ~pop[p].handle THEN Kill(pop[p].run) ELSE UNCHANGED agent
  /\ AfterKill(p)
  /\ UNCHANGED <<tasks, runs, reg, file, event, crashes>>

\* Then the pane or process of the row, or else of the agent_spawned event.
KillAgent(p) ==
  /\ pop[p].at = "kill"
  /\ IF pop[p].handle \/ event[pop[p].run] THEN Kill(pop[p].run) ELSE UNCHANGED agent
  /\ AfterKill(p)
  /\ UNCHANGED <<tasks, runs, reg, file, event, crashes>>

-----------------------------------------------------------------------------
(* _complete_run, _fail_run, cancel_run *)

\* complete, with its errors suppressed.
CompleteTask(p) ==
  /\ pop[p].at = "complete_task"
  /\ tasks' = IF tasks[pop[p].task] = "IN_PROGRESS"
              THEN [tasks EXCEPT ![pop[p].task] = "COMPLETED"] ELSE tasks
  /\ UpdateStatus(p, "COMPLETED", "begin_termination")
  /\ UNCHANGED <<runs, reg, file, event, agent, crashes>>

\* get_by_id, then _finalize_launch.
BeginTermination(p) ==
  /\ pop[p].at = "begin_termination"
  /\ IF runs[pop[p].run] = NoRun THEN NextRun(p) /\ UNCHANGED reg
     ELSE Go(p, "confirm_terminated") /\ MoveLaunch(pop[p].run, {"ACTIVE"}, "TERMINATING")
  /\ UNCHANGED <<tasks, runs, file, event, agent, crashes>>

ConfirmTerminated(p) ==
  /\ pop[p].at = "confirm_terminated"
  /\ MoveLaunch(pop[p].run, {"TERMINATING"}, "TERMINATED")
  /\ NextRun(p)
  /\ UNCHANGED <<tasks, runs, file, event, agent, crashes>>

FailRun(p) ==
  /\ pop[p].at = "fail"
  /\ Become(p, [pop[p] EXCEPT !.at = "terminate", !.found = runs[pop[p].run] # NoRun])
  /\ UNCHANGED <<tasks, runs, reg, file, event, agent, crashes>>

\* In _fail_run nothing more is done for a run that was not found; in
\* _spawn_run a refused start ends here.
MarkFailed(p) ==
  /\ pop[p].at = "mark_failed"
  /\ \/ /\ pop[p].flow = "fail" /\ ~pop[p].found
        /\ NextRun(p) /\ UNCHANGED reg
     \/ /\ pop[p].flow = "fail" /\ pop[p].found
        /\ Go(p, "retry") /\ FailLaunch(pop[p].run)
     \/ /\ pop[p].flow = "denied"
        /\ FailLaunch(pop[p].run)
        /\ IF runs[pop[p].run] = NoRun THEN Raise(p) ELSE NextTask(p)
  /\ UNCHANGED <<tasks, runs, file, event, agent, crashes>>

\* retry, with its errors suppressed.
Retry(p) ==
  /\ pop[p].at = "retry"
  /\ tasks' = IF tasks[pop[p].task] = "IN_PROGRESS"
              THEN [tasks EXCEPT ![pop[p].task] = "APPROVED"] ELSE tasks
  /\ IF pop[p].flow = "cancel" THEN Become(p, Idle) ELSE NextRun(p)
  /\ UNCHANGED <<runs, reg, file, event, agent, crashes>>

\* The launch is not finalized.
CancelRun(p, r) ==
  /\ p \in Cancellers /\ pop[p].at = "idle"
  /\ <<runs[r].status, "CANCELLED">> \in RunTransitions
  /\ Become(p, [Idle EXCEPT !.at = "update", !.flow = "cancel", !.run = r,
                            !.task = runs[r].task, !.target = "CANCELLED", !.then = "terminate"])
  /\ UNCHANGED <<tasks, runs, reg, file, event, agent, crashes>>

-----------------------------------------------------------------------------
(* The surroundings *)

LeaseExpires(r) ==
  /\ reg[r].lease = "held"
  /\ reg' = [reg EXCEPT ![r].lease = "expired"]
  /\ UNCHANGED <<tasks, runs, file, event, agent, pop, crashes>>

\* The agent writes its result to status.json and ends, or crashes.
AgentEnds(r, outcome) ==
  /\ agent[r] = "alive"
  /\ agent' = [agent EXCEPT ![r] = "ended"]
  /\ file' = IF outcome = "crash" THEN file ELSE [file EXCEPT ![r] = outcome]
  /\ UNCHANGED <<tasks, runs, reg, event, pop, crashes>>

\* A process dies; a new one takes its place.
Crash(p) ==
  /\ crashes < MaxCrashes /\ pop[p] # Idle
  /\ crashes' = crashes + 1
  /\ Become(p, Idle)
  /\ UNCHANGED <<tasks, runs, reg, file, event, agent>>

-----------------------------------------------------------------------------

Spawning(p) ==
  \/ RequestFind(p) \/ RequestLost(p) \/ SaveRun(p) \/ StartTask(p) \/ ConfirmSpawning(p)
  \/ SpawnAgent(p) \/ QuarantineSpawn(p) \/ RecordMetadata(p)
  \/ ConfirmActive(p) \/ WriteStatus(p)
  \/ \E r \in Runs : RequestClaim(p, r) \/ Suppress(p, r)

Ending(p) ==
  \/ Terminate(p) \/ KillAgent(p) \/ CompleteTask(p) \/ BeginTermination(p)
  \/ ConfirmTerminated(p) \/ FailRun(p) \/ MarkFailed(p) \/ Retry(p)

\* A step a running process takes next.
Step(p) ==
  \/ PollOnce(p) \/ PollList(p) \/ PollApproved(p) \/ PollFilter(p) \/ PollDone(p)
  \/ \E t \in Tasks : PickTask(p, t)
  \/ CheckRuns(p) \/ CheckDone(p)
  \/ \E r \in Runs :
       \/ Reconcile(p, r)
       \/ CheckTimesOut(p, r) \/ CheckLeaves(p, r) \/ CheckFails(p, r) \/ CheckCompletes(p, r)
  \/ UpdateRead(p) \/ UpdateWrite(p) \/ Spawning(p) \/ Ending(p)

Next ==
  \/ \E p \in Procs : Step(p) \/ Crash(p)
  \/ \E p \in Procs, r \in Runs : CancelRun(p, r)
  \/ \E r \in Runs : LeaseExpires(r)
  \/ \E r \in Runs, outcome \in AgentOutcomes : AgentEnds(r, outcome)

Spec == Init /\ [][Next]_vars

\* The polling loop goes on whatever a cycle raises; leases run out; and time
\* passes: a run that is listed over and over is found too old in the end.
Fairness ==
  /\ \A p \in Procs : WF_vars(Step(p))
  /\ \A r \in Runs : WF_vars(LeaseExpires(r))
  /\ \A p \in Pollers, r \in Runs : SF_vars(CheckTimesOut(p, r))

FairSpec == Spec /\ Fairness

-----------------------------------------------------------------------------
(* What holds *)

Alive == {r \in Runs : agent[r] = "alive"}

\* Two agents never work on one task, whatever two pollers do, wherever they
\* die, and however late a lease runs out: the claim, the start of the task and
\* the kill before a retry together keep them apart.  It holds for a poller
\* beside a cancel command too; two pollers and a cancel command break it, and
\* so does a third poller.
OneAgentPerTask == \A r, s \in Alive : reg[r].key = reg[s].key => r = s

\* An agent that is alive keeps its launch blocking, so no surface can claim
\* its task again: mark_failed and confirm_terminated come after the kill.
LiveAgentHoldsLaunch == \A r \in Alive : reg[r].status \in LaunchBlocking

\* The row of a run is never deleted between the spawn of its agent and the
\* recording of its metadata, although save replaces rows of the same task.
RowOutlivesSpawn == \A p \in Procs : pop[p].at = "record" => runs[pop[p].run] # NoRun

\* With one poller at a time, restarts included, no more agents are alive than
\* max_concurrent: a run whose outcome is unknown keeps its slot.
AgentsWithinCap == Cardinality(Alive) <= MaxConcurrent

\* With one poller at a time an agent that is alive has a run that takes a slot.
LiveAgentTakesSlot == Alive \subseteq Blocking

\* A run that has not got past QUEUED or SPAWNING and whose agent has reported.
Stuck(r) == Unresolved(runs[r]) /\ file[r] \in {"COMPLETED", "FAILED"}

\* A run does not stay QUEUED or SPAWNING for ever when its poller dies: some
\* cycle of check_runs quarantines it.  That needs check_runs to come to the
\* run: _complete_run and _fail_run ask for SPAWNING -> TERMINATING, which is
\* illegal, so a run whose agent reports after its poller died in SPAWNING
\* stays (ReportedSpawnsEnd is violated), makes every check_runs raise, and
\* keeps it from the runs listed after it.  Nothing is promised beside one.
UnresolvedRunsEnd ==
  (\A s \in Runs : []<>~Stuck(s)) => \A r \in Runs : Unresolved(runs[r]) ~> ~Unresolved(runs[r])

-----------------------------------------------------------------------------
(* Refinement: the slot of a task is held by its launch in flight.           *)

InFlightOf(t) == {r \in Runs : reg[r].key = t /\ reg[r].status \in LaunchInFlight}

RunSlots == INSTANCE LaunchSlots WITH
              Keys     <- Tasks,
              Launches <- Runs,
              held     <- [t \in Tasks |-> InFlightOf(t)],
              spent    <- {r \in Runs : reg[r].status # "ABSENT"}

\* However pollers, cancel commands and crashes interleave, the registry gives
\* them what LaunchSlots promises.
RunsTakeSlots == RunSlots!Spec

-----------------------------------------------------------------------------
(* What the repository says and the code does not do *)

\* The row with the launch metadata of a live agent outlives the agent
\* ("Durable launch metadata required for later authoritative termination").
RecordedAgentKeepsRow == \A r \in Alive : event[r] => runs[r].handle

\* A run whose task could not be started is recorded as FAILED.
DeniedStartIsRecorded ==
  [][\A p \in Procs : pop[p].flow = "denied" /\ pop'[p].flow # "denied"
                        => runs'[pop[p].run].status = "FAILED"]_vars

\* check_runs reads status.json "to detect completion, failure": a run whose
\* agent has reported does not stay SPAWNING.
ReportedSpawnsEnd == \A r \in Runs : Stuck(r) ~> ~Stuck(r)

\* check_runs detects that a RUNNING run's agent has completed, failed or crashed.
EndedRunsResolve ==
  \A r \in Runs : (agent[r] = "ended" /\ runs[r].status = "RUNNING") ~> runs[r].status # "RUNNING"

\* The agent of a cancelled run is terminated.
CancelledAgentsEnd ==
  \A r \in Runs : (runs[r].status = "CANCELLED" /\ agent[r] = "alive") ~> agent[r] # "alive"

\* An APPROVED task is picked, while ids are left; one that was reset to
\* APPROVED when its run was cancelled too.
ApprovedTasksRun ==
  \A t \in Tasks : (tasks[t] = "APPROVED" /\ IdsLeft) ~> (tasks[t] # "APPROVED" \/ ~IdsLeft)

=============================================================================
