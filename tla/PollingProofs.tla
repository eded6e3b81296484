--------------------------- MODULE PollingProofs ---------------------------
(***************************************************************************)
(* Proofs about Polling, for every number of pollers, cancel commands,     *)
(* tasks and runs, every cap, and crashes at every step.                   *)
(*                                                                         *)
(* A process is described by the method it is in and the label it is at;   *)
(* PollNotes says which go together, Phases what the stores look like from *)
(* there.  A run is spawned by the one process that claimed it (Own), is   *)
(* killed only when there is a handle to kill it by (Killable), and its    *)
(* launch is released only after that.                                     *)
(***************************************************************************)
EXTENDS Polling, FiniteSetTheorems, WellFoundedInduction, TLAPS

Runless == {"idle", "reconcile", "approved", "filter", "pick", "list_active", "check"}
Asking == {"find", "claim", "suppress"}
Launching == {"save", "start", "confirm_spawning", "spawn", "quarantine", "record",
              "confirm_active", "write_status"}
Updating == {"update", "write"}

\* The calls of update_status: the method, the status and where it returns to.
UpdateCall(o) ==
  \/ o.flow = "none"   /\ o.target = "QUARANTINED" /\ o.then = "check"
  \/ o.flow = "spawn"  /\ o.target = "SPAWNING"    /\ o.then = "confirm_spawning"
  \/ o.flow = "spawn"  /\ o.target = "QUARANTINED" /\ o.then = "quarantine"
  \/ o.flow = "spawn"  /\ o.target = "RUNNING"     /\ o.then = "write_status"
  \/ o.flow = "denied" /\ o.target = "FAILED"      /\ o.then = "mark_failed"
  \/ o.flow \in {"fail", "complete", "cancel"}
       /\ o.target \in {"TERMINATING", "CANCELLED"} /\ o.then = "kill"
  \/ o.flow = "fail"     /\ o.target = "FAILED"    /\ o.then = "mark_failed"
  \/ o.flow = "complete" /\ o.target = "COMPLETED" /\ o.then = "begin_termination"
  \/ o.flow = "cancel"   /\ o.target = "CANCELLED" /\ o.then = "terminate"

\* What the label of a process says about its other notes.
NotesOK(o) ==
  /\ o.at \in Runless => o.flow = "none"
  /\ o.at \in Asking \cup Launching => o.flow = "spawn"
  /\ o.at \in (Runless \ {"check"}) \cup Asking => o.run = None
  /\ o.at = "fail" => o.flow = "fail"
  /\ o.at \in {"terminate", "kill"} => o.flow \in {"fail", "complete", "cancel"}
  /\ o.at \in {"complete_task", "begin_termination", "confirm_terminated"} => o.flow = "complete"
  /\ o.at = "mark_failed" => o.flow \in {"fail", "denied"}
  /\ o.at = "retry" => o.flow \in {"fail", "cancel"}
  /\ o.at \in Updating => UpdateCall(o)
  /\ o.at \notin Runless \cup Asking => o.run \in Runs
  /\ o.flow # "none" => o.task \in Tasks

PollNotes == \A p \in Procs : NotesOK(pop[p])

\* The process has claimed the launch of its run and still has to spawn it, or
\* to finish spawning it.
Own(o) == o.flow \in {"spawn", "denied"} /\ o.run # None

\* The process owns its run and its agent is not there yet.
Unspawned(o) ==
  /\ Own(o)
  /\ \/ o.at \in {"save", "start", "confirm_spawning", "spawn"}
     \/ o.flow = "denied"
     \/ o.at \in Updating /\ o.then = "confirm_spawning"

\* The process has killed the agent of its run, or tried to.
Killed(o) ==
  /\ o.flow \in {"fail", "complete"}
  /\ o.at \notin {"fail", "terminate", "kill"}
  /\ ~(o.at \in Updating /\ o.then = "kill")

\* _terminate_spawned_agent finds the agent, or there is none any more.
Killable(r) == event[r] \/ agent[r] = "ended"

\* What the listed rows of check_runs say.
Listed(o) ==
  \A r \in Runs :
    /\ o.snap[r] # NoRun => reg[r] # NoLaunch /\ o.snap[r].status \in ActiveStatuses
    /\ o.snap[r].status \in {"RUNNING", "TERMINATING"} => Killable(r)

\* What the stores look like to a process.
PhaseOK(o) ==
  /\ o.run # None => reg[o.run] # NoLaunch
  /\ Unspawned(o) => agent[o.run] = "none" /\ reg[o.run].status \in LaunchBlocking
  /\ o.at \in {"confirm_spawning", "spawn", "record"} => runs[o.run].status \notin IndexedStatuses
  /\ o.at = "record" => runs[o.run] # NoRun
  /\ o.at \in {"record", "confirm_active"} => agent[o.run] # "none"
  /\ o.at = "write_status" \/ (o.at \in Updating /\ o.target = "RUNNING") => event[o.run]
  /\ o.flow \in {"fail", "complete"} => Killable(o.run)
  /\ o.at = "write" /\ o.target = "TERMINATING" => Killable(o.run) \/ runs[o.run] = NoRun

Phases == \A p \in Procs : PhaseOK(pop[p]) /\ Listed(pop[p])

\* A run belongs to one process at most.
OwnersApart == \A p, q \in Procs : Own(pop[p]) /\ Own(pop[q]) /\ pop[p].run = pop[q].run => p = q

\* A run that has a launch and no row yet is known to its owner only.
SaveIsFirst ==
  \A p \in Procs : pop[p].at = "save" =>
    /\ runs[pop[p].run] = NoRun
    /\ \A q \in Procs \ {p} : pop[q].run # pop[p].run
    /\ \A q \in Procs : pop[q].snap[pop[p].run] = NoRun

Rows ==
  \A r \in Runs :
    /\ runs[r].status \notin {"ABSENT", "CANCELLED"} => reg[r] # NoLaunch
    /\ runs[r].status \in {"RUNNING", "TERMINATING"} => Killable(r)
    /\ event[r] \/ file[r] \in {"COMPLETED", "FAILED"} => agent[r] # "none"
    /\ agent[r] # "none" => reg[r] # NoLaunch
    /\ file[r] \in {"COMPLETED", "FAILED"} => agent[r] = "ended"

PollInv == TypeOK /\ PollNotes /\ Phases /\ OwnersApart /\ SaveIsFirst /\ Rows

\* With kills that work, an agent is dead once its process was through with it.
KilledIsDead == \A p \in Procs : Killed(pop[p]) => agent[pop[p].run] = "ended"

KillInv == KilledIsDead /\ LiveAgentHoldsLaunch

\* At most one launch of a task blocks it, and a poller that has picked a task
\* has seen none.
OneBlockingLaunch ==
  \A r, s \in Runs :
    /\ reg[r].key = reg[s].key
    /\ reg[r].status \in LaunchBlocking /\ reg[s].status \in LaunchBlocking
    => r = s

Unblocked(t) == \A r \in Runs : reg[r].key = t => reg[r].status \notin LaunchBlocking

PickedIsFree ==
  \A p \in Procs :
    /\ pop[p].at = "pick" \/ pop[p].flow \in {"spawn", "denied"}
         => \A t \in pop[p].cand : Unblocked(t)
    /\ pop[p].flow \in {"spawn", "denied"} => pop[p].task \notin pop[p].cand
    /\ pop[p].at \in {"find", "claim"} => Unblocked(pop[p].task)

OnlyPollersSpawn ==
  \A p \in Procs : pop[p].at \in {"reconcile", "approved", "filter", "pick"}
                     \/ pop[p].flow \in {"spawn", "denied"} => p \in Pollers

CreatedIsBounded == \A r \in Runs : reg[r].created <= Cardinality(Runs) + 1

ClaimInv == OneBlockingLaunch /\ PickedIsFree /\ OnlyPollersSpawn /\ CreatedIsBounded

-----------------------------------------------------------------------------
(* Type correctness *)

\* The process moves to a well-formed note.
Moves(p, o) == o \in Operation /\ NotesOK(o) /\ pop' = [pop EXCEPT ![p] = o]

LEMMA NoneIsNoRun == None \notin Runs /\ None \notin Tasks
BY PollAssumption

LEMMA RowsOfTable ==
  ASSUME NEW tab \in Table, NEW r \in Runs
  PROVE  /\ tab[r] \in PollRun \/ tab[r] = NoRun
         /\ tab[r].status = "ABSENT" <=> tab[r] = NoRun
         /\ tab[r] # NoRun => tab[r].status \in PollRunStatus /\ tab[r].task \in Tasks
BY DEF Table, PollRun, NoRun, PollRunStatus

LEMMA CountRuns ==
  ASSUME NEW S, S \subseteq Runs
  PROVE  /\ IsFiniteSet(S) /\ Cardinality(S) \in Nat /\ Cardinality(Runs) \in Nat
         /\ Cardinality(S) <= Cardinality(Runs)
BY PollAssumption, FS_Subset, FS_CardinalityType

LEMMA EmptyTableIsTable == EmptyTable \in Table /\ NoRun \notin PollRun
BY DEF EmptyTable, Table, NoRun, PollRun, PollRunStatus

LEMMA IdleOK ==
  /\ Idle \in Operation /\ NotesOK(Idle)
  /\ Idle.at = "idle" /\ Idle.flow = "none" /\ Idle.run = None /\ Idle.snap = EmptyTable
  /\ Idle.cand = {}
BY EmptyTableIsTable, PollAssumption
DEF Idle, Operation, Labels, NotesOK, Runless, Asking, Launching, Updating

LEMMA MovesKeepType ==
  ASSUME TypeOK, PollNotes, NEW p \in Procs, NEW o, Moves(p, o)
  PROVE  pop' \in [Procs -> Operation] /\ PollNotes'
BY DEF Moves, TypeOK, PollNotes, NotesOK, UpdateCall

\* Where the helpers that end an operation go.
LEMMA RaiseMoves ==
  ASSUME NEW p \in Procs, Raise(p)
  PROVE  Moves(p, Idle)
BY IdleOK DEF Raise, Become, Moves

LEMMA NextTaskMoves ==
  ASSUME TypeOK, NEW p \in Procs, NextTask(p)
  PROVE  Moves(p, [Idle EXCEPT !.at = "pick", !.cand = pop[p].cand, !.avail = pop[p].avail])
<1> DEFINE o == [Idle EXCEPT !.at = "pick", !.cand = pop[p].cand, !.avail = pop[p].avail]
<1>1. pop[p].cand \in SUBSET Tasks /\ pop[p].avail \in 0..MaxConcurrent
  BY DEF TypeOK, Operation
<1>2. o \in Operation /\ o.at = "pick" /\ o.flow = "none" /\ o.run = None
  BY <1>1, IdleOK DEF Operation, Labels
<1>3. NotesOK(o)
  BY <1>2 DEF NotesOK, Runless, Asking, Launching, Updating
<1>. QED BY <1>2, <1>3 DEF NextTask, Become, Moves

LEMMA NextRunMoves ==
  ASSUME TypeOK, NEW p \in Procs, NextRun(p)
  PROVE  Moves(p, [Idle EXCEPT !.at = "check", !.snap = pop[p].snap])
<1> DEFINE o == [Idle EXCEPT !.at = "check", !.snap = pop[p].snap]
<1>1. pop[p].snap \in Table
  BY DEF TypeOK, Operation
<1>2. o \in Operation /\ o.at = "check" /\ o.flow = "none"
  BY <1>1, IdleOK DEF Operation, Labels
<1>3. NotesOK(o)
  BY <1>2 DEF NotesOK, Runless, Asking, Launching, Updating
<1>. QED BY <1>2, <1>3 DEF NextRun, Become, Moves

\* Going to a label that the method allows.
LEMMA GoMoves ==
  ASSUME TypeOK, NEW p \in Procs, NEW label \in Labels, Go(p, label),
         NotesOK([pop[p] EXCEPT !.at = label])
  PROVE  Moves(p, [pop[p] EXCEPT !.at = label])
<1>1. pop[p] \in Operation
  BY DEF TypeOK
<1>. QED
  BY <1>1 DEF Go, Become, Moves, Operation

LEMMA UpdateStatusMoves ==
  ASSUME TypeOK, PollNotes, NEW p \in Procs, pop[p].at \notin Runless \cup Asking,
         NEW status, NEW then, UpdateStatus(p, status, then),
         UpdateCall([pop[p] EXCEPT !.at = "update", !.target = status, !.then = then])
  PROVE  Moves(p, [pop[p] EXCEPT !.at = "update", !.target = status, !.then = then])
<1> DEFINE o == [pop[p] EXCEPT !.at = "update", !.target = status, !.then = then]
<1>1. pop[p] \in Operation /\ pop[p].run \in Runs /\ NotesOK(pop[p])
  BY DEF TypeOK, PollNotes, NotesOK
<1>2. /\ o \in Operation /\ o.at = "update" /\ o.run = pop[p].run
      /\ o.flow = pop[p].flow /\ o.task = pop[p].task
  <2>1. o.target = status /\ o.then = then
    BY <1>1 DEF Operation
  <2>2. "update" \in Labels /\ status \in PollRunStatus /\ then \in Labels
    BY <2>1 DEF UpdateCall, Labels, PollRunStatus
  <2>. QED BY <1>1, <2>2 DEF Operation
<1>3. NotesOK(o)
  BY <1>1, <1>2 DEF NotesOK, Runless, Asking, Launching, Updating
<1>. QED BY <1>2, <1>3 DEF UpdateStatus, Become, Moves

LEMMA UpdatedMoves ==
  ASSUME TypeOK, PollNotes, NEW p \in Procs, pop[p].at = "write", Updated(p)
  PROVE  Moves(p, [pop[p] EXCEPT !.at = pop[p].then, !.target = None, !.then = "idle"])
<1> DEFINE o == [pop[p] EXCEPT !.at = pop[p].then, !.target = None, !.then = "idle"]
<1>1. pop[p] \in Operation /\ pop[p].run \in Runs /\ NotesOK(pop[p]) /\ UpdateCall(pop[p])
  BY DEF TypeOK, PollNotes, NotesOK, Runless, Asking, Updating
<1>2. /\ o \in Operation /\ o.at = pop[p].then /\ o.run = pop[p].run
      /\ o.flow = pop[p].flow /\ o.task = pop[p].task
  BY <1>1 DEF Operation, Labels
<1>3. NotesOK(o)
  BY <1>1, <1>2 DEF NotesOK, UpdateCall, Runless, Asking, Launching, Updating
<1>. QED BY <1>2, <1>3 DEF Updated, Become, Moves

\* The stores other than pop.
StoresOK ==
  /\ tasks \in [Tasks -> TaskStatus]
  /\ runs \in Table
  /\ reg \in [Runs -> Launch \cup {NoLaunch}]
  /\ file \in [Runs -> {"RUNNING", "COMPLETED", "FAILED", None}]
  /\ event \in [Runs -> BOOLEAN]
  /\ agent \in [Runs -> {"none", "alive", "ended"}]
  /\ crashes \in 0..MaxCrashes

LEMMA MovesKeep ==
  ASSUME TypeOK, PollNotes, NEW p \in Procs, \E o : Moves(p, o), StoresOK'
  PROVE  TypeOK' /\ PollNotes'
BY MovesKeepType DEF TypeOK, StoresOK

LEMMA StoresStay ==
  ASSUME TypeOK, UNCHANGED <<tasks, runs, reg, file, event, agent, crashes>>
  PROVE  StoresOK'
BY DEF TypeOK, StoresOK

\* poll_once and check_runs only read.
LEMMA PollingMoves ==
  ASSUME TypeOK, PollNotes, NEW p \in Procs,
         \/ PollOnce(p) \/ PollList(p) \/ PollApproved(p) \/ PollFilter(p) \/ PollDone(p)
         \/ \E t \in Tasks : PickTask(p, t)
         \/ CheckRuns(p) \/ CheckDone(p)
  PROVE  /\ \E o : Moves(p, o)
         /\ UNCHANGED <<tasks, runs, reg, file, event, agent, crashes>>
<1> USE DEF Become, Moves
<1>0. pop[p] \in Operation /\ NotesOK(pop[p])
  BY DEF TypeOK, PollNotes
<1>1. ASSUME NEW label \in {"list_active", "reconcile"}, NEW S \in SUBSET Runs
      PROVE  LET o == [Idle EXCEPT !.at = label, !.todo = S]
             IN  o \in Operation /\ NotesOK(o)
  <2> DEFINE o == [Idle EXCEPT !.at = label, !.todo = S]
  <2>1. label \in Labels
    BY DEF Labels
  <2>2. o \in Operation /\ o.at = label /\ o.flow = "none" /\ o.run = None
    <3> HIDE DEF Become, Moves
    <3>. QED BY <2>1, IdleOK DEF Operation
  <2>. QED BY <2>2 DEF NotesOK, Runless, Asking, Launching, Updating
<1>2. CASE PollOnce(p)
  BY <1>2, <1>1 DEF PollOnce, Expired
<1>3. ASSUME PollReturns(p) PROVE \E o : Moves(p, o)
  <2> DEFINE o == [Idle EXCEPT !.at = "list_active"]
  <2>1. o \in Operation /\ o.at = "list_active" /\ o.flow = "none" /\ o.run = None
    <3>1. "list_active" \in Labels
      BY DEF Labels
    <3>. QED BY <3>1, IdleOK DEF Operation
  <2>2. NotesOK(o)
    BY <2>1 DEF NotesOK, Runless, Asking, Launching, Updating
  <2>. QED BY <1>3, <2>1, <2>2 DEF PollReturns
<1>4. CASE PollList(p)
  <2>1. CASE Slots <= 0
    BY <1>3, <1>4, <2>1 DEF PollList
  <2>2. CASE ~(Slots <= 0)
    <3> DEFINE S == Tasks \ {runs[r].task : r \in Blocking}
               o == [pop[p] EXCEPT !.at = "approved", !.avail = Slots, !.cand = S]
    <3>1. Slots \in 0..MaxConcurrent
      BY <2>2, CountRuns, PollAssumption DEF Slots, Blocking
    <3>2. S \in SUBSET Tasks
      OBVIOUS
    <3> HIDE DEF S
    <3>3. o \in Operation /\ o.at = "approved" /\ o.flow = pop[p].flow /\ o.run = pop[p].run
      BY <1>0, <3>1, <3>2 DEF Operation, Labels
    <3>4. NotesOK(o)
      BY <1>0, <1>4, <3>3 DEF PollList, NotesOK, Runless, Asking, Launching, Updating
    <3>. QED BY <1>4, <2>2, <3>3, <3>4 DEF PollList, S
  <2>. QED BY <1>4, <2>1, <2>2 DEF PollList
<1>5. ASSUME NEW label \in {"filter", "pick"}, NEW S \in SUBSET Tasks,
             pop[p].at \in {"approved", "filter"},
             pop' = [pop EXCEPT ![p] = [pop[p] EXCEPT !.at = label, !.cand = S]]
      PROVE  \E o : Moves(p, o)
  <2> DEFINE o == [pop[p] EXCEPT !.at = label, !.cand = S]
  <2>1. o \in Operation /\ o.at = label /\ o.flow = pop[p].flow /\ o.run = pop[p].run
    BY <1>0 DEF Operation, Labels
  <2>2. NotesOK(o)
    BY <1>0, <1>5, <2>1 DEF NotesOK, Runless, Asking, Launching, Updating
  <2>. QED BY <1>5, <2>1, <2>2
<1>6. CASE PollApproved(p)
  <2>1. {t \in pop[p].cand : tasks[t] = "APPROVED"} \in SUBSET Tasks
    BY <1>0 DEF Operation
  <2>. QED BY <1>5, <1>6, <2>1 DEF PollApproved
<1>7. CASE PollFilter(p)
  <2>1. {t \in pop[p].cand : FindActive(t) = {}} \in SUBSET Tasks
    BY <1>0 DEF Operation
  <2>. QED BY <1>5, <1>7, <2>1 DEF PollFilter
<1>8. CASE PollDone(p)
  BY <1>3, <1>8 DEF PollDone
<1>9. ASSUME NEW t \in Tasks, PickTask(p, t)
      PROVE  \E o : Moves(p, o)
  <2> DEFINE o == [pop[p] EXCEPT !.at = "find", !.flow = "spawn", !.task = t,
                                 !.cand = @ \ {t}, !.avail = @ - 1]
  <2>0. pop[p].at = "pick" /\ pop[p].avail > 0 /\ pop[p].avail \in 0..MaxConcurrent
    BY <1>0, <1>9 DEF PickTask, Operation
  <2>1. pop[p].avail - 1 \in 0..MaxConcurrent /\ pop[p].run = None
    BY <1>0, <2>0, PollAssumption DEF NotesOK, Runless
  <2>2. /\ o \in Operation /\ o.at = "find" /\ o.flow = "spawn" /\ o.run = None
        /\ o.task \in Tasks
    BY <1>0, <2>1 DEF Operation, Labels
  <2>3. NotesOK(o)
    BY <2>2 DEF NotesOK, Runless, Asking, Launching, Updating
  <2>. QED BY <1>9, <2>2, <2>3 DEF PickTask
<1>10. CASE CheckRuns(p)
  <2> DEFINE S == [r \in Runs |-> IF runs[r].status \in ActiveStatuses THEN runs[r] ELSE NoRun]
             o == [Idle EXCEPT !.at = "check", !.snap = S]
  <2>1. S \in Table
    BY DEF TypeOK, Table
  <2> HIDE DEF S
  <2>2. o \in Operation /\ o.at = "check" /\ o.flow = "none"
    BY <2>1, IdleOK DEF Operation, Labels
  <2>3. NotesOK(o)
    BY <2>2 DEF NotesOK, Runless, Asking, Launching, Updating
  <2>. QED BY <1>10, <2>2, <2>3 DEF CheckRuns, S
<1>11. CASE CheckDone(p)
  BY <1>11, IdleOK DEF CheckDone
<1>12. UNCHANGED <<tasks, runs, reg, file, event, agent, crashes>>
  BY DEF PollOnce, PollList, PollApproved, PollFilter, PollDone, PickTask, CheckRuns, CheckDone
<1>. QED BY <1>2, <1>4, <1>6, <1>7, <1>8, <1>9, <1>10, <1>11, <1>12

LEMMA WrittenIsTable ==
  ASSUME TypeOK, NEW r \in Runs, NEW status \in PollRunStatus, runs[r] # NoRun
  PROVE  /\ Written(r, status) \in Table
         /\ \A s \in Runs : s # r => Written(r, status)[s] = runs[s]
         /\ Written(r, status)[r].status = status
         /\ Written(r, status)[r].task = runs[r].task
         /\ Written(r, status)[r].handle = runs[r].handle
<1>1. runs \in Table /\ runs[r] \in PollRun
  BY DEF TypeOK, Table
<1> DEFINE row == [runs[r] EXCEPT !.status = status, !.started = runs[r].started \/ status \notin Terminal]
<1>2. (runs[r].started \/ status \notin Terminal) \in BOOLEAN
  OBVIOUS
<1>3. /\ row \in PollRun /\ row.status = status
      /\ row.task = runs[r].task /\ row.handle = runs[r].handle
  BY <1>1, <1>2 DEF PollRun
<1>4. Written(r, status) = [runs EXCEPT ![r] = row]
  BY <1>1 DEF Written, Table
<1> HIDE DEF row
<1>. QED BY <1>1, <1>3, <1>4 DEF Table

LEMMA UpdatingMoves ==
  ASSUME TypeOK, PollNotes, NEW p \in Procs, UpdateRead(p) \/ UpdateWrite(p)
  PROVE  (\E o : Moves(p, o)) /\ StoresOK'
<1>1. CASE UpdateRead(p)
  <2>1. CASE Go(p, "write")
    <3>1. /\ pop[p] \in Operation /\ pop[p].run \in Runs /\ pop[p].at = "update"
          /\ NotesOK(pop[p]) /\ UpdateCall(pop[p])
      BY <1>1 DEF UpdateRead, TypeOK, PollNotes, NotesOK, Runless, Asking, Updating
    <3> DEFINE o == [pop[p] EXCEPT !.at = "write"]
    <3>2. /\ o.at = "write" /\ o.run = pop[p].run /\ o.flow = pop[p].flow
          /\ o.task = pop[p].task /\ o.target = pop[p].target /\ o.then = pop[p].then
      BY <3>1 DEF Operation
    <3>3. NotesOK(o)
      BY <3>1, <3>2 DEF NotesOK, UpdateCall, Runless, Asking, Launching, Updating
    <3>4. "write" \in Labels
      BY DEF Labels
    <3>. QED BY <1>1, <2>1, <3>3, <3>4, GoMoves, StoresStay DEF UpdateRead
  <2>2. CASE Raise(p)
    BY <1>1, <2>2, RaiseMoves, StoresStay DEF UpdateRead
  <2>. QED BY <1>1, <2>1, <2>2 DEF UpdateRead
<1>2. CASE UpdateWrite(p)
  <2>1. pop[p] \in Operation /\ pop[p].run \in Runs /\ UpdateCall(pop[p]) /\ pop[p].at = "write"
    BY <1>2 DEF UpdateWrite, TypeOK, PollNotes, NotesOK, Runless, Asking, Updating
  <2>2. pop[p].target \in PollRunStatus
    BY <2>1 DEF UpdateCall, PollRunStatus
  <2>3. runs' = runs \/ (runs[pop[p].run] # NoRun /\ runs' = Written(pop[p].run, pop[p].target))
    BY <1>2, Zenon DEF UpdateWrite
  <2>4. runs' \in Table
    BY <2>1, <2>2, <2>3, WrittenIsTable DEF TypeOK
  <2>5. StoresOK'
    BY <1>2, <2>4 DEF UpdateWrite, TypeOK, StoresOK
  <2>6. Raise(p) \/ Updated(p)
    BY <1>2 DEF UpdateWrite
  <2>. QED BY <2>1, <2>5, <2>6, RaiseMoves, UpdatedMoves
<1>. QED BY <1>1, <1>2

\* From one label of a method to the next.
LEMMA GoOn ==
  ASSUME TypeOK, PollNotes, NEW p \in Procs, NEW label \in Labels, Go(p, label),
         \/ pop[p].at \in Asking /\ label \in Asking
         \/ pop[p].at \in Launching /\ label \in Launching
         \/ pop[p].at = "begin_termination" /\ label = "confirm_terminated"
         \/ pop[p].at = "kill" /\ pop[p].flow = "complete" /\ label = "complete_task"
         \/ pop[p].at = "kill" /\ pop[p].flow = "cancel" /\ label = "retry"
         \/ pop[p].at = "mark_failed" /\ pop[p].flow = "fail" /\ label = "retry"
  PROVE  \E o : Moves(p, o)
<1>1. pop[p] \in Operation /\ NotesOK(pop[p])
  BY DEF TypeOK, PollNotes
<1> DEFINE o == [pop[p] EXCEPT !.at = label]
<1>2. o.at = label /\ o.run = pop[p].run /\ o.flow = pop[p].flow /\ o.task = pop[p].task
  BY <1>1 DEF Operation
<1>3. NotesOK(o)
  BY <1>1, <1>2 DEF NotesOK, Runless, Asking, Launching, Updating
<1>. QED BY <1>3, GoMoves

\* A launch keeps its key and the rest of its row when it moves.
LEMMA MoveLaunchFacts ==
  ASSUME TypeOK, NEW r \in Runs, NEW from \in SUBSET LaunchBlocking,
         NEW to \in LaunchBlocking \cup {"TERMINATED", "FAILED"}, MoveLaunch(r, from, to)
  PROVE  /\ reg' \in [Runs -> Launch \cup {NoLaunch}]
         /\ \A s \in Runs : s # r => reg'[s] = reg[s]
         /\ reg'[r].key = reg[r].key /\ reg'[r].created = reg[r].created
         /\ reg'[r].status = IF reg[r].status \in from THEN to ELSE reg[r].status
         /\ (reg'[r] = NoLaunch) = (reg[r] = NoLaunch)
<1>1. CASE reg[r].status \notin from
  BY <1>1 DEF MoveLaunch, TypeOK
<1>2. CASE reg[r].status \in from
  <2>1. reg[r] \in Launch
    BY <1>2 DEF TypeOK, NoLaunch, LaunchBlocking, LaunchInFlight
  <2>2. reg' = [reg EXCEPT ![r] = [reg[r] EXCEPT !.status = to]]
    BY <1>2 DEF MoveLaunch, TypeOK
  <2>3. [reg[r] EXCEPT !.status = to] \in Launch
    BY <2>1 DEF Launch
  <2>4. NoLaunch \notin Launch
    BY DEF NoLaunch, Launch, LaunchBlocking, LaunchInFlight
  <2>. QED BY <1>2, <2>1, <2>2, <2>3, <2>4 DEF TypeOK, Launch
<1>. QED BY <1>1, <1>2

LEMMA SpawningMoves ==
  ASSUME TypeOK, PollNotes, NEW p \in Procs, Spawning(p),
         pop[p].at = "record" => runs[pop[p].run] # NoRun
  PROVE  (\E o : Moves(p, o)) /\ StoresOK'
<1>0. pop[p] \in Operation /\ NotesOK(pop[p])
  BY DEF TypeOK, PollNotes
<1>1. CASE RequestFind(p)
  <2>1. Go(p, "claim") \/ Go(p, "suppress")
    BY <1>1 DEF RequestFind
  <2>2. \E o : Moves(p, o)
    BY <1>1, <2>1, GoOn DEF RequestFind, Asking, Labels
  <2>3. reg' = reg \/ \E l \in Runs : MoveLaunch(l, {"RESERVED", "SPAWNING"}, "QUARANTINED")
    BY <1>1 DEF RequestFind, FindActive
  <2>4. reg' \in [Runs -> Launch \cup {NoLaunch}]
    BY <2>3, MoveLaunchFacts DEF TypeOK, LaunchBlocking, LaunchInFlight
  <2>. QED BY <1>1, <2>2, <2>4 DEF RequestFind, TypeOK, StoresOK
<1>2. CASE RequestLost(p)
  BY <1>2, GoOn, StoresStay DEF RequestLost, Asking, Labels
<1>3. ASSUME NEW r \in Runs, RequestClaim(p, r)
      PROVE  (\E o : Moves(p, o)) /\ StoresOK'
  <2> DEFINE o == [pop[p] EXCEPT !.at = "save", !.run = r]
             n == 1 + Cardinality({s \in Runs : reg[s] # NoLaunch})
             l == [status |-> "RESERVED", key |-> pop[p].task, lease |-> "held", created |-> n]
  <2>1. pop[p].at = "claim" /\ pop[p].flow = "spawn" /\ pop[p].task \in Tasks
    BY <1>0, <1>3 DEF RequestClaim, NotesOK, Asking
  <2>2. o \in Operation /\ o.at = "save" /\ o.flow = "spawn" /\ o.task \in Tasks /\ o.run \in Runs
    BY <1>0, <2>1 DEF Operation, Labels
  <2>3. NotesOK(o)
    BY <2>2 DEF NotesOK, Runless, Asking, Launching, Updating
  <2>4. n \in Nat
    BY CountRuns
  <2> HIDE DEF n
  <2>5. l \in Launch
    BY <2>1, <2>4 DEF Launch, LaunchBlocking, LaunchInFlight
  <2>6. reg' = [reg EXCEPT ![r] = l]
    BY <1>3 DEF RequestClaim, n
  <2>7. reg' \in [Runs -> Launch \cup {NoLaunch}]
    BY <2>5, <2>6 DEF TypeOK
  <2>8. StoresOK'
    BY <1>3, <2>7 DEF RequestClaim, TypeOK, StoresOK
  <2>. QED BY <1>3, <2>2, <2>3, <2>8 DEF RequestClaim, Become, Moves
<1>4. ASSUME NEW r \in Runs, Suppress(p, r)
      PROVE  (\E o : Moves(p, o)) /\ StoresOK'
  <2>1. pop[p].task \in Tasks
    BY <1>0, <1>4 DEF Suppress, NotesOK, Asking
  <2>2. [NoRun EXCEPT !.status = "CANCELLED", !.task = pop[p].task] \in PollRun
    BY <2>1 DEF NoRun, PollRun, PollRunStatus
  <2>3. runs' \in Table
    BY <1>4, <2>2 DEF Suppress, TypeOK, Table
  <2>4. StoresOK'
    BY <1>4, <2>3 DEF Suppress, TypeOK, StoresOK
  <2>. QED BY <1>4, <2>4, NextTaskMoves DEF Suppress
<1>5. CASE SaveRun(p)
  <2>1. pop[p].task \in Tasks
    BY <1>0, <1>5 DEF SaveRun, NotesOK, Launching
  <2>2. [NoRun EXCEPT !.status = "QUEUED", !.task = pop[p].task] \in PollRun
    BY <2>1 DEF NoRun, PollRun, PollRunStatus
  <2>3. runs' \in Table
    BY <1>5, <2>2 DEF SaveRun, TypeOK, Table
  <2>4. StoresOK'
    BY <1>5, <2>3 DEF SaveRun, TypeOK, StoresOK
  <2>. QED BY <1>5, <2>4, GoOn DEF SaveRun, Launching, Labels
<1>6. CASE StartTask(p)
  <2>1. pop[p].task \in Tasks /\ pop[p].run \in Runs /\ pop[p].flow = "spawn" /\ pop[p].at = "start"
    BY <1>0, <1>6 DEF StartTask, NotesOK, Runless, Asking, Launching
  <2>2. StoresOK'
    BY <1>6, <2>1 DEF StartTask, TypeOK, StoresOK, TaskStatus
  <2>3. CASE UpdateStatus(p, "SPAWNING", "confirm_spawning")
    <3>1. UpdateCall([pop[p] EXCEPT !.at = "update", !.target = "SPAWNING",
                                    !.then = "confirm_spawning"])
      BY <1>0, <2>1 DEF UpdateCall, Operation
    <3>. QED BY <2>1, <2>2, <2>3, <3>1, UpdateStatusMoves DEF Runless, Asking
  <2>4. CASE Become(p, [pop[p] EXCEPT !.at = "update", !.flow = "denied", !.target = "FAILED",
                                      !.then = "mark_failed"])
    <3> DEFINE o == [pop[p] EXCEPT !.at = "update", !.flow = "denied", !.target = "FAILED",
                                   !.then = "mark_failed"]
    <3>1. /\ o \in Operation /\ o.at = "update" /\ o.flow = "denied" /\ o.run \in Runs
          /\ o.task \in Tasks /\ o.target = "FAILED" /\ o.then = "mark_failed"
      BY <1>0, <2>1 DEF Operation, Labels, PollRunStatus
    <3>2. NotesOK(o)
      BY <3>1 DEF NotesOK, UpdateCall, Runless, Asking, Launching, Updating
    <3>. QED BY <2>2, <2>4, <3>1, <3>2 DEF Become, Moves
  <2>5. CASE Raise(p)
    BY <2>2, <2>5, RaiseMoves
  <2>. QED BY <1>6, <2>3, <2>4, <2>5 DEF StartTask
<1>7. CASE ConfirmSpawning(p)
  <2>1. pop[p].run \in Runs
    BY <1>0, <1>7 DEF ConfirmSpawning, NotesOK, Runless, Asking
  <2>2. reg' \in [Runs -> Launch \cup {NoLaunch}]
    BY <1>7, <2>1, MoveLaunchFacts DEF ConfirmSpawning, LaunchBlocking, LaunchInFlight
  <2>3. StoresOK'
    BY <1>7, <2>2 DEF ConfirmSpawning, TypeOK, StoresOK
  <2>. QED BY <1>7, <2>3, GoOn DEF ConfirmSpawning, Launching, Labels
<1>8. CASE SpawnAgent(p)
  <2>1. pop[p].run \in Runs /\ pop[p].flow = "spawn" /\ pop[p].at = "spawn"
    BY <1>0, <1>8 DEF SpawnAgent, NotesOK, Runless, Asking, Launching
  <2>2. StoresOK'
    BY <1>8, <2>1 DEF SpawnAgent, TypeOK, StoresOK
  <2>3. CASE UpdateStatus(p, "QUARANTINED", "quarantine")
    <3>1. UpdateCall([pop[p] EXCEPT !.at = "update", !.target = "QUARANTINED",
                                    !.then = "quarantine"])
      BY <1>0, <2>1 DEF UpdateCall, Operation
    <3>. QED BY <2>1, <2>2, <2>3, <3>1, UpdateStatusMoves DEF Runless, Asking
  <2>4. CASE Go(p, "record")
    BY <2>1, <2>2, <2>4, GoOn DEF Launching, Labels
  <2>. QED BY <1>8, <2>3, <2>4 DEF SpawnAgent
<1>9. CASE QuarantineSpawn(p)
  <2>1. pop[p].run \in Runs
    BY <1>0, <1>9 DEF QuarantineSpawn, NotesOK, Runless, Asking
  <2>2. reg' \in [Runs -> Launch \cup {NoLaunch}]
    BY <1>9, <2>1, MoveLaunchFacts
    DEF QuarantineSpawn, QuarantineLaunch, LaunchBlocking, LaunchInFlight
  <2>3. StoresOK'
    BY <1>9, <2>2 DEF QuarantineSpawn, TypeOK, StoresOK
  <2>. QED BY <1>9, <2>3, RaiseMoves, NextTaskMoves DEF QuarantineSpawn
<1>10. CASE RecordMetadata(p)
  <2>1. pop[p].run \in Runs
    BY <1>0, <1>10 DEF RecordMetadata, NotesOK, Runless, Asking
  <2>2. runs[pop[p].run] \in PollRun
    BY <1>10, <2>1, RowsOfTable DEF RecordMetadata, TypeOK
  <2>3. [runs[pop[p].run] EXCEPT !.handle = TRUE] \in PollRun
    BY <2>2 DEF PollRun
  <2>4. runs' \in Table
    BY <1>10, <2>1, <2>3 DEF RecordMetadata, TypeOK, Table
  <2>5. StoresOK'
    BY <1>10, <2>4 DEF RecordMetadata, TypeOK, StoresOK
  <2>. QED BY <1>10, <2>5, GoOn DEF RecordMetadata, Launching, Labels
<1>11. CASE ConfirmActive(p)
  <2>1. pop[p].run \in Runs /\ pop[p].flow = "spawn" /\ pop[p].at = "confirm_active"
    BY <1>0, <1>11 DEF ConfirmActive, NotesOK, Runless, Asking, Launching
  <2>2. reg' \in [Runs -> Launch \cup {NoLaunch}]
    <3>1. CASE reg[pop[p].run].status = "SPAWNING"
      <4>1. reg[pop[p].run] \in Launch
        BY <2>1, <3>1 DEF TypeOK, NoLaunch
      <4>2. [reg[pop[p].run] EXCEPT !.status = "ACTIVE", !.lease = "none"] \in Launch
        BY <4>1 DEF Launch, LaunchBlocking, LaunchInFlight
      <4>3. reg' = [reg EXCEPT ![pop[p].run] =
                      [reg[pop[p].run] EXCEPT !.status = "ACTIVE", !.lease = "none"]]
        BY <1>11, <2>1, <3>1 DEF ConfirmActive, TypeOK
      <4>. QED BY <2>1, <4>2, <4>3 DEF TypeOK
    <3>2. CASE reg[pop[p].run].status # "SPAWNING"
      BY <1>11, <3>2 DEF ConfirmActive, TypeOK
    <3>. QED BY <3>1, <3>2
  <2>3. StoresOK'
    BY <1>11, <2>1, <2>2 DEF ConfirmActive, TypeOK, StoresOK
  <2>4. UpdateCall([pop[p] EXCEPT !.at = "update", !.target = "RUNNING", !.then = "write_status"])
    BY <1>0, <2>1 DEF UpdateCall, Operation
  <2>. QED BY <1>11, <2>1, <2>3, <2>4, UpdateStatusMoves DEF ConfirmActive, Runless, Asking
<1>12. CASE WriteStatus(p)
  <2>1. pop[p].run \in Runs
    BY <1>0, <1>12 DEF WriteStatus, NotesOK, Runless, Asking
  <2>2. StoresOK'
    BY <1>12, <2>1 DEF WriteStatus, TypeOK, StoresOK
  <2>. QED BY <1>12, <2>2, RaiseMoves, NextTaskMoves DEF WriteStatus
<1>. QED
  BY <1>1, <1>2, <1>3, <1>4, <1>5, <1>6, <1>7, <1>8, <1>9, <1>10, <1>11, <1>12 DEF Spawning

LEMMA CheckingMoves ==
  ASSUME TypeOK, PollNotes, NEW p \in Procs, NEW r \in Runs,
         \/ Reconcile(p, r)
         \/ CheckTimesOut(p, r) \/ CheckLeaves(p, r) \/ CheckFails(p, r) \/ CheckCompletes(p, r)
  PROVE  (\E o : Moves(p, o)) /\ StoresOK'
<1>0. pop[p] \in Operation /\ NotesOK(pop[p]) /\ pop[p].snap \in Table
  BY DEF TypeOK, PollNotes, Operation
<1>1. CASE Reconcile(p, r)
  <2> DEFINE o == [pop[p] EXCEPT !.todo = @ \ {r}]
  <2>1. /\ o \in Operation /\ o.at = pop[p].at /\ o.flow = pop[p].flow /\ o.run = pop[p].run
        /\ o.task = pop[p].task /\ o.at = "reconcile"
    BY <1>0, <1>1 DEF Reconcile, Operation
  <2>2. NotesOK(o)
    BY <1>0, <2>1 DEF NotesOK, Runless, Asking, Launching, Updating
  <2>3. reg' \in [Runs -> Launch \cup {NoLaunch}]
    BY <1>1, MoveLaunchFacts DEF Reconcile, QuarantineLaunch, LaunchBlocking, LaunchInFlight
  <2>4. StoresOK'
    BY <1>1, <2>3 DEF Reconcile, TypeOK, StoresOK
  <2>. QED BY <1>1, <2>1, <2>2, <2>4 DEF Reconcile, Become, Moves
<1>3. [pop[p].snap EXCEPT ![r] = NoRun] \in Table
  BY <1>0 DEF Table
<1>4. CASE CheckTimesOut(p, r)
  <2> DEFINE S == [pop[p].snap EXCEPT ![r] = NoRun]
             o == [pop[p] EXCEPT !.at = "update", !.run = r, !.snap[r] = NoRun,
                                 !.target = "QUARANTINED", !.then = "check"]
  <2>1. pop[p].flow = "none"
    BY <1>0, <1>4 DEF CheckTimesOut, NotesOK, Runless
  <2>2. o \in Operation
    BY <1>0, <1>3 DEF Operation, Labels, PollRunStatus
  <2>3. /\ o.at = "update" /\ o.run = r /\ o.flow = "none"
        /\ o.target = "QUARANTINED" /\ o.then = "check"
    BY <1>0, <2>1 DEF Operation
  <2>4. NotesOK(o)
    BY <2>3 DEF NotesOK, UpdateCall, Runless, Asking, Launching, Updating
  <2>. QED BY <1>4, <2>2, <2>4, StoresStay DEF CheckTimesOut, Become, Moves
<1>5. CASE CheckLeaves(p, r)
  <2> DEFINE o == [pop[p] EXCEPT !.snap[r] = NoRun]
  <2>1. /\ o \in Operation /\ o.at = "check" /\ o.flow = pop[p].flow
    BY <1>0, <1>3, <1>5 DEF CheckLeaves, Operation
  <2>2. NotesOK(o)
    BY <1>0, <1>5, <2>1 DEF CheckLeaves, NotesOK, Runless, Asking, Launching, Updating
  <2>. QED BY <1>5, <2>1, <2>2, StoresStay DEF CheckLeaves, Become, Moves
<1>6. ASSUME NEW label, NEW flow, pop[p].snap[r] # NoRun, Check(p, r, label, flow),
             <<label, flow>> \in {<<"fail", "fail">>, <<"terminate", "complete">>}
      PROVE  \E o : Moves(p, o)
  <2> DEFINE o == [pop[p] EXCEPT !.at = label, !.flow = flow, !.run = r,
                                 !.task = pop[p].snap[r].task, !.snap[r] = NoRun]
  <2>1. pop[p].snap[r].task \in Tasks
    BY <1>0, <1>6, RowsOfTable
  <2>2. label \in Labels /\ flow \in {"none", "fail", "complete"}
    BY <1>6 DEF Labels
  <2>3. o \in Operation
    BY <1>0, <1>3, <2>1, <2>2 DEF Operation
  <2>4. o.at = label /\ o.run = r /\ o.flow = flow /\ o.task \in Tasks
    BY <1>0, <2>1 DEF Operation
  <2>5. NotesOK(o)
    BY <1>6, <2>4 DEF NotesOK, Runless, Asking, Launching, Updating
  <2>. QED BY <1>6, <2>3, <2>5 DEF Check, Become, Moves
<1>7. CASE CheckFails(p, r)
  BY <1>6, <1>7, StoresStay DEF CheckFails
<1>8. CASE CheckCompletes(p, r)
  BY <1>6, <1>8, StoresStay DEF CheckCompletes
<1>. QED BY <1>1, <1>4, <1>5, <1>7, <1>8

LEMMA KillKeepsType ==
  ASSUME TypeOK, NEW r \in Runs, Kill(r) \/ UNCHANGED agent
  PROVE  agent' \in [Runs -> {"none", "alive", "ended"}]
BY DEF TypeOK, Kill

LEMMA EndingMoves ==
  ASSUME TypeOK, PollNotes, NEW p \in Procs, Ending(p)
  PROVE  (\E o : Moves(p, o)) /\ StoresOK'
<1>0. pop[p] \in Operation /\ NotesOK(pop[p])
  BY DEF TypeOK, PollNotes
<1>1. CASE Terminate(p)
  <2>1. /\ pop[p].run \in Runs /\ pop[p].flow \in {"fail", "complete", "cancel"}
        /\ pop[p].task \in Tasks
    BY <1>0, <1>1 DEF Terminate, NotesOK, Runless, Asking
  <2>2. runs[pop[p].run].handle \in BOOLEAN
    <3>1. runs[pop[p].run] \in PollRun \/ runs[pop[p].run] = NoRun
      BY <2>1 DEF TypeOK, Table
    <3>2. ASSUME NEW row \in PollRun PROVE row.handle \in BOOLEAN
      BY DEF PollRun
    <3>3. NoRun.handle \in BOOLEAN
      BY DEF NoRun
    <3>. QED BY <3>1, <3>2, <3>3
  <2> DEFINE h == runs[pop[p].run].handle
  <2>3. CASE pop' = [pop EXCEPT ![p] = [pop[p] EXCEPT !.handle = h, !.at = "kill"]]
    <3> DEFINE o == [pop[p] EXCEPT !.handle = h, !.at = "kill"]
    <3>1. /\ o \in Operation /\ o.at = "kill" /\ o.run = pop[p].run
          /\ o.flow = pop[p].flow /\ o.task = pop[p].task
      BY <1>0, <2>2 DEF Operation, Labels
    <3>2. NotesOK(o)
      BY <2>1, <3>1 DEF NotesOK, Runless, Asking, Launching, Updating
    <3>. QED BY <1>1, <2>3, <3>1, <3>2, StoresStay DEF Terminate, Moves
  <2>4. ASSUME NEW target \in {"TERMINATING", "CANCELLED"},
               pop' = [pop EXCEPT ![p] = [pop[p] EXCEPT !.handle = h, !.at = "update",
                                                        !.target = target, !.then = "kill"]]
        PROVE  (\E o : Moves(p, o)) /\ StoresOK'
    <3> DEFINE o == [pop[p] EXCEPT !.handle = h, !.at = "update", !.target = target,
                                   !.then = "kill"]
    <3>1. /\ o \in Operation /\ o.at = "update" /\ o.run = pop[p].run
          /\ o.flow = pop[p].flow /\ o.task = pop[p].task
          /\ o.target = target /\ o.then = "kill"
      BY <1>0, <2>2 DEF Operation, Labels, PollRunStatus
    <3>2. NotesOK(o)
      BY <2>1, <3>1 DEF NotesOK, UpdateCall, Runless, Asking, Launching, Updating
    <3>. QED BY <1>1, <2>4, <3>1, <3>2, StoresStay DEF Terminate, Moves
  <2>. QED BY <1>1, <2>3, <2>4 DEF Terminate, Become
<1>2. CASE KillAgent(p)
  <2>1. /\ pop[p].run \in Runs /\ pop[p].flow \in {"fail", "complete", "cancel"}
        /\ pop[p].task \in Tasks /\ pop[p].at = "kill"
    BY <1>0, <1>2 DEF KillAgent, NotesOK, Runless, Asking
  <2>2. StoresOK'
    BY <1>2, <2>1, KillKeepsType DEF KillAgent, TypeOK, StoresOK
  <2>3. CASE pop[p].flow = "complete"
    <3>1. Go(p, "complete_task")
      BY <1>2, <2>3 DEF KillAgent, AfterKill
    <3>. QED BY <2>1, <2>2, <2>3, <3>1, GoOn DEF Labels
  <2>4. CASE pop[p].flow = "fail"
    <3>1. UpdateStatus(p, "FAILED", "mark_failed")
      BY <1>2, <2>4 DEF KillAgent, AfterKill
    <3>2. UpdateCall([pop[p] EXCEPT !.at = "update", !.target = "FAILED", !.then = "mark_failed"])
      BY <1>0, <2>4 DEF UpdateCall, Operation
    <3>. QED BY <2>1, <2>2, <3>1, <3>2, UpdateStatusMoves DEF Runless, Asking
  <2>5. CASE pop[p].flow = "cancel"
    <3>1. Go(p, "retry")
      BY <1>2, <2>5 DEF KillAgent, AfterKill
    <3>. QED BY <2>1, <2>2, <2>5, <3>1, GoOn DEF Labels
  <2>. QED BY <2>1, <2>3, <2>4, <2>5
<1>3. CASE CompleteTask(p)
  <2>1. pop[p].run \in Runs /\ pop[p].flow = "complete" /\ pop[p].task \in Tasks
    BY <1>0, <1>3 DEF CompleteTask, NotesOK, Runless, Asking
  <2>2. StoresOK'
    BY <1>3, <2>1 DEF CompleteTask, TypeOK, StoresOK, TaskStatus
  <2>3. UpdateCall([pop[p] EXCEPT !.at = "update", !.target = "COMPLETED",
                                  !.then = "begin_termination"])
    BY <1>0, <2>1 DEF UpdateCall, Operation
  <2>. QED BY <1>3, <2>1, <2>2, <2>3, UpdateStatusMoves DEF CompleteTask, Runless, Asking
<1>4. CASE BeginTermination(p)
  <2>1. pop[p].run \in Runs
    BY <1>0, <1>4 DEF BeginTermination, NotesOK, Runless, Asking
  <2>2. reg' \in [Runs -> Launch \cup {NoLaunch}]
    BY <1>4, <2>1, MoveLaunchFacts
    DEF BeginTermination, TypeOK, LaunchBlocking, LaunchInFlight
  <2>3. StoresOK'
    BY <1>4, <2>2 DEF BeginTermination, TypeOK, StoresOK
  <2>. QED BY <1>4, <2>3, NextRunMoves, GoOn DEF BeginTermination, Labels
<1>5. CASE ConfirmTerminated(p)
  <2>1. pop[p].run \in Runs
    BY <1>0, <1>5 DEF ConfirmTerminated, NotesOK, Runless, Asking
  <2>2. reg' \in [Runs -> Launch \cup {NoLaunch}]
    BY <1>5, <2>1, MoveLaunchFacts DEF ConfirmTerminated, LaunchBlocking, LaunchInFlight
  <2>3. StoresOK'
    BY <1>5, <2>2 DEF ConfirmTerminated, TypeOK, StoresOK
  <2>. QED BY <1>5, <2>3, NextRunMoves DEF ConfirmTerminated
<1>6. CASE FailRun(p)
  <2>1. pop[p].run \in Runs /\ pop[p].flow = "fail" /\ pop[p].task \in Tasks
    BY <1>0, <1>6 DEF FailRun, NotesOK, Runless, Asking
  <2> DEFINE o == [pop[p] EXCEPT !.at = "terminate", !.found = runs[pop[p].run] # NoRun]
  <2>2. (runs[pop[p].run] # NoRun) \in BOOLEAN
    OBVIOUS
  <2>3. o \in Operation /\ o.at = "terminate" /\ o.run = pop[p].run /\ o.flow = "fail"
        /\ o.task = pop[p].task
    BY <1>0, <2>1, <2>2 DEF Operation, Labels
  <2>4. NotesOK(o)
    BY <2>1, <2>3 DEF NotesOK, Runless, Asking, Launching, Updating
  <2>. QED BY <1>6, <2>3, <2>4, StoresStay DEF FailRun, Become, Moves
<1>7. CASE MarkFailed(p)
  <2>1. pop[p].run \in Runs /\ pop[p].at = "mark_failed"
    BY <1>0, <1>7 DEF MarkFailed, NotesOK, Runless, Asking
  <2>2. reg' \in [Runs -> Launch \cup {NoLaunch}]
    BY <1>7, <2>1, MoveLaunchFacts DEF MarkFailed, FailLaunch, TypeOK
  <2>3. StoresOK'
    BY <1>7, <2>2 DEF MarkFailed, TypeOK, StoresOK
  <2>4. \/ NextRun(p) \/ Raise(p) \/ NextTask(p)
        \/ pop[p].flow = "fail" /\ Go(p, "retry")
    BY <1>7 DEF MarkFailed
  <2>. QED BY <2>1, <2>3, <2>4, NextRunMoves, RaiseMoves, NextTaskMoves, GoOn DEF Labels
<1>8. CASE Retry(p)
  <2>1. pop[p].task \in Tasks
    BY <1>0, <1>8 DEF Retry, NotesOK
  <2>2. StoresOK'
    BY <1>8, <2>1 DEF Retry, TypeOK, StoresOK, TaskStatus
  <2>. QED BY <1>8, <2>2, NextRunMoves, IdleOK DEF Retry, Become, Moves
<1>. QED BY <1>1, <1>2, <1>3, <1>4, <1>5, <1>6, <1>7, <1>8 DEF Ending

LEMMA SurroundingsMove ==
  ASSUME TypeOK, PollNotes, NEW r \in Runs,
         LeaseExpires(r) \/ \E outcome \in AgentOutcomes : AgentEnds(r, outcome)
  PROVE  TypeOK' /\ PollNotes'
<1>1. CASE LeaseExpires(r)
  <2>1. reg[r] \in Launch
    BY <1>1 DEF LeaseExpires, TypeOK, NoLaunch
  <2>2. [reg[r] EXCEPT !.lease = "expired"] \in Launch
    BY <2>1 DEF Launch
  <2>3. reg' \in [Runs -> Launch \cup {NoLaunch}]
    BY <1>1, <2>2 DEF LeaseExpires, TypeOK
  <2>. QED BY <1>1, <2>3 DEF LeaseExpires, TypeOK, PollNotes
<1>2. ASSUME NEW outcome \in AgentOutcomes, AgentEnds(r, outcome)
      PROVE  TypeOK' /\ PollNotes'
  <2>1. outcome \in {"COMPLETED", "FAILED", "crash"}
    BY PollAssumption
  <2>2. file' \in [Runs -> {"RUNNING", "COMPLETED", "FAILED", None}]
    BY <1>2, <2>1 DEF AgentEnds, TypeOK
  <2>. QED BY <1>2, <2>2 DEF AgentEnds, TypeOK, PollNotes
<1>. QED BY <1>1, <1>2

LEMMA CancelAndCrashMove ==
  ASSUME TypeOK, PollNotes, NEW p \in Procs, Crash(p) \/ \E r \in Runs : CancelRun(p, r)
  PROVE  (\E o : Moves(p, o)) /\ StoresOK'
<1>1. CASE Crash(p)
  <2>1. crashes' \in 0..MaxCrashes
    BY <1>1, PollAssumption DEF Crash, TypeOK
  <2>. QED BY <1>1, <2>1, IdleOK DEF Crash, Become, Moves, TypeOK, StoresOK
<1>2. ASSUME NEW r \in Runs, CancelRun(p, r)
      PROVE  (\E o : Moves(p, o)) /\ StoresOK'
  <2> DEFINE o == [Idle EXCEPT !.at = "update", !.flow = "cancel", !.run = r,
                     !.task = runs[r].task, !.target = "CANCELLED", !.then = "terminate"]
  <2>1. runs[r].status # "ABSENT"
    BY <1>2 DEF CancelRun, RunTransitions
  <2>2. runs[r].task \in Tasks
    BY <2>1, RowsOfTable DEF TypeOK
  <2>3. /\ o \in Operation /\ o.at = "update" /\ o.flow = "cancel" /\ o.run = r
        /\ o.task \in Tasks /\ o.target = "CANCELLED" /\ o.then = "terminate"
    BY <2>2, IdleOK DEF Operation, Labels, PollRunStatus
  <2>4. NotesOK(o)
    BY <2>3 DEF NotesOK, UpdateCall, Runless, Asking, Launching, Updating
  <2>. QED BY <1>2, <2>3, <2>4, StoresStay DEF CancelRun, Become, Moves
<1>. QED BY <1>1, <1>2

\* Every step keeps the types, given that the row of a recorded run is there.
LEMMA TypeStep ==
  ASSUME TypeOK, PollNotes, Next,
         \A p \in Procs : pop[p].at = "record" => runs[pop[p].run] # NoRun
  PROVE  TypeOK' /\ PollNotes'
<1>1. ASSUME NEW p \in Procs, Step(p)
      PROVE  TypeOK' /\ PollNotes'
  <2>1. CASE UpdateRead(p) \/ UpdateWrite(p)
    BY <2>1, UpdatingMoves, MovesKeep
  <2>2. CASE Spawning(p)
    BY <2>2, SpawningMoves, MovesKeep
  <2>3. CASE Ending(p)
    BY <2>3, EndingMoves, MovesKeep
  <2>4. ASSUME NEW r \in Runs,
               \/ Reconcile(p, r)
               \/ CheckTimesOut(p, r) \/ CheckLeaves(p, r)
               \/ CheckFails(p, r) \/ CheckCompletes(p, r)
        PROVE  TypeOK' /\ PollNotes'
    BY <2>4, CheckingMoves, MovesKeep
  <2>5. CASE \/ PollOnce(p) \/ PollList(p) \/ PollApproved(p) \/ PollFilter(p) \/ PollDone(p)
             \/ \E t \in Tasks : PickTask(p, t)
             \/ CheckRuns(p) \/ CheckDone(p)
    BY <2>5, PollingMoves, StoresStay, MovesKeep
  <2>. QED BY <1>1, <2>1, <2>2, <2>3, <2>4, <2>5 DEF Step
<1>2. ASSUME NEW p \in Procs, Crash(p) \/ \E r \in Runs : CancelRun(p, r)
      PROVE  TypeOK' /\ PollNotes'
  BY <1>2, CancelAndCrashMove, MovesKeep
<1>. QED BY <1>1, <1>2, SurroundingsMove DEF Next

-----------------------------------------------------------------------------
(* The invariant *)

\* Nothing that has happened to a run is undone.
Grows ==
  \A r \in Runs :
    /\ reg[r] # NoLaunch => reg'[r] # NoLaunch
    /\ event[r] => event'[r]
    /\ agent[r] = "ended" => agent'[r] = "ended"
    /\ agent[r] # "none" => agent'[r] # "none"

\* What a step of another process leaves to the process with the notes o.
LeftTo(o) ==
  /\ Unspawned(o) => agent'[o.run] = "none" /\ reg'[o.run].status \in LaunchBlocking
  /\ o.at \in {"confirm_spawning", "spawn", "record"} => runs'[o.run].status \notin IndexedStatuses
  /\ o.at = "record" => runs'[o.run] # NoRun
  /\ o.at = "save" => runs'[o.run] = NoRun
  /\ o.at = "write" /\ runs[o.run] = NoRun => runs'[o.run] = NoRun

\* A process comes by a run through its own claim (which is left out here), a
\* row it has listed, or a row that is there.
Taken(p) ==
  /\ Own(pop'[p]) => Own(pop[p]) /\ pop'[p].run = pop[p].run
  /\ pop'[p].at # "save"
  /\ pop'[p].run \in {None, pop[p].run}
       \/ pop[p].snap[pop'[p].run] # NoRun \/ runs[pop'[p].run] # NoRun
  /\ \A r \in Runs : pop'[p].snap[r] # NoRun => pop[p].snap[r] # NoRun \/ runs[r] # NoRun

OthersStay(p) == \A q \in Procs \ {p} : pop'[q] = pop[q]

\* Notes of others that hold before a step hold after it.
LEMMA PhaseKept ==
  ASSUME NEW o \in Operation, NotesOK(o), PhaseOK(o), Listed(o), Grows, LeftTo(o)
  PROVE  PhaseOK(o)' /\ Listed(o)'
<1>1. o.run = None \/ o.run \in Runs
  BY DEF Operation
<1>2. \A r \in Runs : Killable(r) => Killable(r)'
  BY DEF Grows, Killable
<1>3. Listed(o)'
  BY <1>2 DEF Listed, Grows
<1>4. CASE o.run = None
  <2>1. o.at \in Runless \cup Asking
    BY <1>4, NoneIsNoRun DEF NotesOK
  <2>2. o.flow \in {"none", "spawn"}
    BY <2>1 DEF NotesOK
  <2>. QED
    BY <1>3, <1>4, <2>1, <2>2
    DEF PhaseOK, Unspawned, Own, Runless, Asking, Updating
<1>5. CASE o.run \in Runs
  BY <1>2, <1>3, <1>5, NoneIsNoRun
  DEF PhaseOK, Grows, LeftTo
<1>. QED BY <1>1, <1>4, <1>5

LEMMA OtherPhase ==
  ASSUME PollInv, Grows, NEW q \in Procs, pop'[q] = pop[q], LeftTo(pop[q])
  PROVE  PhaseOK(pop[q])' /\ Listed(pop[q])'
<1>1. pop[q] \in Operation /\ NotesOK(pop[q]) /\ PhaseOK(pop[q]) /\ Listed(pop[q])
  BY DEF PollInv, TypeOK, PollNotes, Phases
<1>2. PICK o : o = pop[q]
  OBVIOUS
<1>3. PhaseOK(o)' /\ Listed(o)'
  BY <1>1, <1>2, PhaseKept
<1>. QED BY <1>1, <1>2, <1>3 DEF PhaseOK, Listed, Unspawned, Own, Updating, Killable

LEMMA StepKeeps ==
  ASSUME PollInv, TypeOK', PollNotes', NEW p \in Procs, OthersStay(p), Grows,
         \A q \in Procs \ {p} : LeftTo(pop[q]),
         Taken(p), PhaseOK(pop[p])', Listed(pop[p])', Rows'
  PROVE  PollInv'
<1>1. Phases'
  BY OtherPhase DEF Phases, OthersStay
<1>2. OwnersApart'
  BY DEF OwnersApart, PollInv, Taken, OthersStay
<1>3. SaveIsFirst'
  <2> SUFFICES ASSUME NEW q \in Procs, pop'[q].at = "save"
               PROVE  /\ runs'[pop'[q].run] = NoRun
                      /\ \A o \in Procs \ {q} : pop'[o].run # pop'[q].run
                      /\ \A o \in Procs : pop'[o].snap[pop'[q].run] = NoRun
    BY DEF SaveIsFirst
  <2>1. q # p /\ pop'[q] = pop[q] /\ LeftTo(pop[q])
    BY DEF Taken, OthersStay
  <2>2. pop[q].run \in Runs
    BY <2>1 DEF PollInv, PollNotes, NotesOK, Runless, Asking
  <2>3. /\ runs[pop[q].run] = NoRun /\ pop[p].run # pop[q].run
        /\ \A o \in Procs : pop[o].snap[pop[q].run] = NoRun
        /\ \A o \in Procs \ {q} : pop[o].run # pop[q].run
    BY <2>1 DEF PollInv, SaveIsFirst
  <2>4. pop'[p].run # pop[q].run /\ pop'[p].snap[pop[q].run] = NoRun
    BY <2>2, <2>3, NoneIsNoRun DEF Taken
  <2>. QED BY <2>1, <2>2, <2>3, <2>4 DEF LeftTo, OthersStay
<1>. QED BY <1>1, <1>2, <1>3 DEF PollInv

\* What the helpers do to the notes.
LEMMA BecomeFields ==
  ASSUME TypeOK, NEW p \in Procs, NEW o, Become(p, o)
  PROVE  OthersStay(p) /\ pop'[p] = o
BY DEF TypeOK, Become, OthersStay

LEMMA GoFields ==
  ASSUME TypeOK, NEW p \in Procs, NEW label, Go(p, label)
  PROVE  /\ OthersStay(p)
         /\ pop'[p].at = label
         /\ pop'[p].run = pop[p].run /\ pop'[p].flow = pop[p].flow /\ pop'[p].task = pop[p].task
         /\ pop'[p].target = pop[p].target /\ pop'[p].then = pop[p].then
         /\ pop'[p].snap = pop[p].snap /\ pop'[p].cand = pop[p].cand /\ pop'[p].avail = pop[p].avail
BY BecomeFields DEF Go, TypeOK, Operation

LEMMA UpdateStatusFields ==
  ASSUME TypeOK, NEW p \in Procs, NEW status, NEW then, UpdateStatus(p, status, then)
  PROVE  /\ OthersStay(p)
         /\ pop'[p].at = "update" /\ pop'[p].target = status /\ pop'[p].then = then
         /\ pop'[p].run = pop[p].run /\ pop'[p].flow = pop[p].flow /\ pop'[p].task = pop[p].task
         /\ pop'[p].snap = pop[p].snap /\ pop'[p].cand = pop[p].cand /\ pop'[p].avail = pop[p].avail
<1>1. pop[p] \in Operation
  BY DEF TypeOK
<1>2. OthersStay(p) /\ pop'[p] = [pop[p] EXCEPT !.at = "update", !.target = status, !.then = then]
  BY BecomeFields DEF UpdateStatus
<1>. QED BY <1>1, <1>2 DEF Operation

LEMMA UpdatedFields ==
  ASSUME TypeOK, NEW p \in Procs, Updated(p)
  PROVE  /\ OthersStay(p)
         /\ pop'[p].at = pop[p].then /\ pop'[p].then = "idle"
         /\ pop'[p].run = pop[p].run /\ pop'[p].flow = pop[p].flow /\ pop'[p].task = pop[p].task
         /\ pop'[p].snap = pop[p].snap /\ pop'[p].cand = pop[p].cand /\ pop'[p].avail = pop[p].avail
<1>1. pop[p] \in Operation
  BY DEF TypeOK
<1>2. OthersStay(p) /\ pop'[p] = [pop[p] EXCEPT !.at = pop[p].then, !.target = None, !.then = "idle"]
  BY BecomeFields DEF Updated
<1>. QED BY <1>1, <1>2 DEF Operation

\* The process is between operations, with rows left to check at most.
Resting(p) ==
  /\ OthersStay(p)
  /\ pop'[p].flow = "none" /\ pop'[p].run = None
  /\ pop'[p].at \in {"idle", "pick", "check", "list_active", "reconcile"}
  /\ pop'[p].snap \in {EmptyTable, pop[p].snap}
  /\ pop'[p].cand \in {{}, pop[p].cand}

LEMMA ReturnsRest ==
  ASSUME TypeOK, NEW p \in Procs,
         \/ Become(p, Idle) \/ Raise(p) \/ PollReturns(p) \/ NextRun(p) \/ NextTask(p)
         \/ PollOnce(p) \/ CheckDone(p) \/ Crash(p)
  PROVE  Resting(p)
<1>1. CASE Become(p, Idle) \/ Raise(p) \/ CheckDone(p) \/ Crash(p)
  BY <1>1, IdleOK, BecomeFields DEF Raise, CheckDone, Crash, Resting
<1>2. Idle \in Operation
  BY IdleOK
<1>3. CASE PollReturns(p)
  <2>1. OthersStay(p) /\ pop'[p] = [Idle EXCEPT !.at = "list_active"]
    BY <1>3, BecomeFields DEF PollReturns
  <2>. QED BY <1>2, <2>1, IdleOK DEF Resting, Operation
<1>4. CASE NextRun(p)
  <2>1. OthersStay(p) /\ pop'[p] = [Idle EXCEPT !.at = "check", !.snap = pop[p].snap]
    BY <1>4, BecomeFields DEF NextRun
  <2>. QED BY <1>2, <2>1, IdleOK DEF Resting, Operation
<1>5. CASE NextTask(p)
  <2>1. /\ OthersStay(p)
        /\ pop'[p] = [Idle EXCEPT !.at = "pick", !.cand = pop[p].cand, !.avail = pop[p].avail]
    BY <1>5, BecomeFields DEF NextTask
  <2>. QED BY <1>2, <2>1, IdleOK DEF Resting, Operation
<1>6. CASE PollOnce(p)
  <2>1. OthersStay(p) /\ pop'[p] = [Idle EXCEPT !.at = "reconcile", !.todo = Expired]
    BY <1>6, BecomeFields DEF PollOnce
  <2>. QED BY <1>2, <2>1, IdleOK DEF Resting, Operation
<1>. QED BY <1>1, <1>3, <1>4, <1>5, <1>6

\* The stores as other processes see them do not change.
SameStores == UNCHANGED <<runs, reg, file, event, agent>>

LEMMA SameStoresFacts ==
  ASSUME PollInv, SameStores
  PROVE  Grows /\ Rows' /\ \A q \in Procs : LeftTo(pop[q])
<1>1. Grows
  BY DEF SameStores, Grows
<1>2. Rows'
  BY DEF PollInv, SameStores, Rows, Killable
<1>3. ASSUME NEW q \in Procs PROVE LeftTo(pop[q])
  BY DEF PollInv, SameStores, Phases, PhaseOK, SaveIsFirst, LeftTo
<1>. QED BY <1>1, <1>2, <1>3

LEMMA ListedKept ==
  ASSUME NEW p \in Procs, Listed(pop[p]), Grows,
         \A r \in Runs : pop'[p].snap[r] \in {NoRun, pop[p].snap[r]}
  PROVE  Listed(pop[p])'
<1>1. \A r \in Runs : Killable(r) => Killable(r)'
  BY DEF Grows, Killable
<1>2. ASSUME NEW r \in Runs
      PROVE  /\ pop'[p].snap[r] # NoRun => reg'[r] # NoLaunch
                                         /\ pop'[p].snap[r].status \in ActiveStatuses
             /\ pop'[p].snap[r].status \in {"RUNNING", "TERMINATING"} => Killable(r)'
  <2>1. CASE pop'[p].snap[r] = NoRun
    BY <2>1 DEF NoRun
  <2>2. CASE pop'[p].snap[r] = pop[p].snap[r]
    BY <1>1, <2>2 DEF Listed, Grows
  <2>. QED BY <2>1, <2>2
<1>. QED BY <1>2 DEF Listed

LEMMA RestingKeeps ==
  ASSUME PollInv, TypeOK', PollNotes', NEW p \in Procs, Resting(p), Grows, Rows',
         \A q \in Procs \ {p} : LeftTo(pop[q])
  PROVE  PollInv'
<1>1. Taken(p)
  BY DEF Resting, Taken, Own, EmptyTable
<1>2. PhaseOK(pop[p])'
  BY DEF Resting, PhaseOK, Unspawned, Own, Updating
<1>3. \A r \in Runs : pop'[p].snap[r] \in {NoRun, pop[p].snap[r]}
  BY DEF Resting, EmptyTable
<1>4. Listed(pop[p])'
  BY <1>3, ListedKept DEF PollInv, Phases
<1>. QED BY <1>1, <1>2, <1>4, StepKeeps DEF Resting

\* A step that changes the notes of one process only.
LEMMA QuietKeeps ==
  ASSUME PollInv, TypeOK', PollNotes', NEW p \in Procs, OthersStay(p), SameStores,
         Taken(p), PhaseOK(pop[p])',
         \A r \in Runs : pop'[p].snap[r] \in {NoRun, pop[p].snap[r]}
  PROVE  PollInv'
BY SameStoresFacts, ListedKept, StepKeeps DEF PollInv, Phases

\* What is known of the process that moves.
LEMMA OwnFacts ==
  ASSUME PollInv, NEW p \in Procs
  PROVE  /\ TypeOK /\ PollNotes /\ Rows
         /\ pop[p] \in Operation /\ NotesOK(pop[p]) /\ PhaseOK(pop[p]) /\ Listed(pop[p])
BY DEF PollInv, TypeOK, PollNotes, Phases

LEMMA PollingKeeps ==
  ASSUME PollInv, TypeOK', PollNotes', NEW p \in Procs,
         \/ PollOnce(p) \/ PollList(p) \/ PollApproved(p) \/ PollFilter(p) \/ PollDone(p)
         \/ \E t \in Tasks : PickTask(p, t)
         \/ CheckRuns(p) \/ CheckDone(p) \/ Crash(p)
  PROVE  PollInv'
<1>0. /\ TypeOK /\ pop[p] \in Operation /\ NotesOK(pop[p]) /\ PhaseOK(pop[p]) /\ Listed(pop[p])
      /\ Rows
  BY OwnFacts
<1>1. SameStores
  BY DEF SameStores, PollOnce, PollList, PollApproved, PollFilter, PollDone, PickTask,
         CheckRuns, CheckDone, Crash
<1>2. CASE PollOnce(p) \/ PollDone(p) \/ CheckDone(p) \/ Crash(p)
  BY <1>0, <1>1, <1>2, ReturnsRest, RestingKeeps, SameStoresFacts DEF PollDone
<1>3. CASE PollList(p) \/ PollApproved(p) \/ PollFilter(p) \/ \E t \in Tasks : PickTask(p, t)
  <2>1. CASE PollReturns(p)
    BY <1>0, <1>1, <2>1, ReturnsRest, RestingKeeps, SameStoresFacts
  <2>2. CASE ~PollReturns(p)
    <3>1. /\ OthersStay(p) /\ pop'[p].run = pop[p].run /\ pop'[p].snap = pop[p].snap
          /\ pop'[p].at \in {"approved", "filter", "pick", "find"}
          /\ pop'[p].at = "find" \/ pop'[p].flow = pop[p].flow
          /\ pop[p].at \in {"reconcile", "approved", "filter", "pick"}
      <4>1. ASSUME NEW label, NEW S,
                   pop' = [pop EXCEPT ![p] = [pop[p] EXCEPT !.at = label, !.cand = S]]
            PROVE  /\ OthersStay(p) /\ pop'[p].run = pop[p].run /\ pop'[p].snap = pop[p].snap
                   /\ pop'[p].at = label /\ pop'[p].flow = pop[p].flow
        <5>1. OthersStay(p) /\ pop'[p] = [pop[p] EXCEPT !.at = label, !.cand = S]
          BY <1>0, <4>1, BecomeFields DEF Become
        <5>. QED BY <1>0, <5>1 DEF Operation
      <4>2. CASE PollList(p)
        <5>1. PICK n, S : Become(p, [pop[p] EXCEPT !.at = "approved", !.avail = n, !.cand = S])
          BY <2>2, <4>2 DEF PollList
        <5>2. /\ OthersStay(p)
              /\ pop'[p] = [pop[p] EXCEPT !.at = "approved", !.avail = n, !.cand = S]
          BY <1>0, <5>1, BecomeFields
        <5>. QED BY <1>0, <4>2, <5>2 DEF PollList, Operation
      <4>3. CASE PollApproved(p)
        BY <4>1, <4>3 DEF PollApproved, Become
      <4>4. CASE PollFilter(p)
        BY <4>1, <4>4 DEF PollFilter, Become
      <4>5. ASSUME NEW t \in Tasks, PickTask(p, t)
            PROVE  /\ OthersStay(p) /\ pop'[p].run = pop[p].run /\ pop'[p].snap = pop[p].snap
                   /\ pop'[p].at = "find" /\ pop[p].at = "pick"
        <5>1. PICK n, S : Become(p, [pop[p] EXCEPT !.at = "find", !.flow = "spawn", !.task = t,
                                                   !.cand = S, !.avail = n])
          BY <4>5 DEF PickTask
        <5>2. /\ OthersStay(p)
              /\ pop'[p] = [pop[p] EXCEPT !.at = "find", !.flow = "spawn", !.task = t,
                                          !.cand = S, !.avail = n]
          BY <1>0, <5>1, BecomeFields
        <5>. QED BY <1>0, <4>5, <5>2 DEF PickTask, Operation
      <4>. QED BY <1>3, <4>2, <4>3, <4>4, <4>5
    <3>2. pop[p].run = None /\ pop[p].flow = "none"
      BY <1>0, <3>1 DEF NotesOK, Runless
    <3>3. Taken(p)
      BY <3>1, <3>2 DEF Taken, Own
    <3>4. PhaseOK(pop[p])'
      BY <3>1, <3>2 DEF PhaseOK, Unspawned, Own, Updating, PollNotes, NotesOK, Asking
    <3>. QED BY <1>1, <3>1, <3>3, <3>4, QuietKeeps
  <2>. QED BY <2>1, <2>2
<1>4. ASSUME CheckRuns(p)
      PROVE  PollInv'
  <2> DEFINE S == [r \in Runs |-> IF runs[r].status \in ActiveStatuses THEN runs[r] ELSE NoRun]
  <2>1. pop'[p] = [Idle EXCEPT !.at = "check", !.snap = S] /\ OthersStay(p)
    BY <1>0, <1>4, BecomeFields DEF CheckRuns
  <2>2. /\ pop'[p].at = "check" /\ pop'[p].run = None /\ pop'[p].flow = "none"
        /\ pop'[p].snap = S
    BY <2>1, IdleOK DEF Operation
  <2>3. Listed(pop[p])'
    BY <1>0, <1>1, <2>2 DEF Listed, Rows, SameStores, Killable, NoRun, ActiveStatuses
  <2>4. Taken(p)
    BY <2>2 DEF Taken, Own, NoRun, ActiveStatuses
  <2>5. PhaseOK(pop[p])'
    BY <2>2 DEF PhaseOK, Unspawned, Own, Updating
  <2>6. Grows /\ Rows' /\ \A q \in Procs : LeftTo(pop[q])
    BY <1>1, SameStoresFacts
  <2>. QED BY <2>1, <2>3, <2>4, <2>5, <2>6, StepKeeps
<1>. QED BY <1>2, <1>3, <1>4

\* update_status returns to its caller.
LEMMA UpdatedPhase ==
  ASSUME PollInv, NEW p \in Procs, pop[p].at = "write", Updated(p), Grows,
         UNCHANGED <<reg, event, agent>>,
         pop[p].then = "confirm_spawning" => runs'[pop[p].run].status \notin IndexedStatuses
  PROVE  PhaseOK(pop[p])' /\ Taken(p) /\ Listed(pop[p])' /\ OthersStay(p)
<1>0. TypeOK /\ NotesOK(pop[p]) /\ PhaseOK(pop[p]) /\ Listed(pop[p])
  BY OwnFacts
<1>1. UpdateCall(pop[p]) /\ pop[p].run \in Runs
  BY <1>0 DEF NotesOK, Updating, Runless, Asking
<1>2. /\ OthersStay(p)
      /\ pop'[p].at = pop[p].then /\ pop'[p].then = "idle"
      /\ pop'[p].run = pop[p].run /\ pop'[p].flow = pop[p].flow
      /\ pop'[p].snap = pop[p].snap
  BY <1>0, UpdatedFields
<1>3. pop'[p].at \in {"check", "confirm_spawning", "quarantine", "write_status", "mark_failed",
                      "kill", "begin_termination", "terminate"}
  BY <1>1, <1>2 DEF UpdateCall
<1>4. Taken(p)
  BY <1>2, <1>3 DEF Taken, Own
<1>5. Listed(pop[p])'
  BY <1>0, <1>2, ListedKept
<1>6. pop[p].then = "write_status" => event[pop[p].run]
  BY <1>0, <1>1 DEF PhaseOK, UpdateCall, Updating
<1>7. Unspawned(pop[p])' => Unspawned(pop[p])
  BY <1>1, <1>2, <1>3 DEF Unspawned, Own, UpdateCall, Updating
<1>8. PhaseOK(pop[p])'
  BY <1>0, <1>1, <1>2, <1>3, <1>6, <1>7 DEF PhaseOK, Updating, Killable
<1>. QED BY <1>2, <1>4, <1>5, <1>8

LEMMA UpdateKeeps ==
  ASSUME PollInv, TypeOK', PollNotes', NEW p \in Procs, UpdateRead(p) \/ UpdateWrite(p)
  PROVE  PollInv'
<1>0. /\ TypeOK /\ Rows /\ NotesOK(pop[p]) /\ PhaseOK(pop[p]) /\ Listed(pop[p])
  BY OwnFacts
<1>1. pop[p].at \in Updating /\ UpdateCall(pop[p]) /\ pop[p].run \in Runs
  BY <1>0 DEF NotesOK, Updating, Runless, Asking, UpdateRead, UpdateWrite
<1>2. ASSUME Raise(p), SameStores PROVE PollInv'
  <2>. QED BY <1>0, <1>2, ReturnsRest, RestingKeeps, SameStoresFacts
<1>3. CASE UpdateRead(p)
  <2>1. SameStores
    BY <1>3 DEF UpdateRead, SameStores
  <2>2. CASE Go(p, "write")
    <3> DEFINE row == runs[pop[p].run]
    <3>0. CASE Raise(p)
      BY <1>2, <2>1, <3>0
    <3>1. CASE row = NoRun \/ <<row.status, pop[p].target>> \in RunTransitions
      <4>1. /\ OthersStay(p) /\ pop'[p].at = "write"
            /\ pop'[p].run = pop[p].run /\ pop'[p].flow = pop[p].flow
            /\ pop'[p].target = pop[p].target /\ pop'[p].then = pop[p].then
            /\ pop'[p].snap = pop[p].snap
        BY <1>0, <2>2, GoFields
      <4>2. Taken(p)
        BY <4>1 DEF Taken, Own
      <4>3. pop[p].target = "TERMINATING" => Killable(pop[p].run) \/ row = NoRun
        BY <1>0, <1>1, <3>1 DEF RunTransitions, Rows
      <4>4. Unspawned(pop[p])' => Unspawned(pop[p])
        BY <1>1, <4>1 DEF Unspawned, Own, Updating
      <4>5. PhaseOK(pop[p])'
        BY <1>0, <1>1, <2>1, <4>1, <4>3, <4>4 DEF PhaseOK, Updating, Killable, SameStores
      <4>. QED BY <2>1, <4>1, <4>2, <4>5, QuietKeeps
    <3>. QED BY <1>3, <3>0, <3>1 DEF UpdateRead
  <2>. QED BY <1>2, <1>3, <2>1, <2>2 DEF UpdateRead
<1>4. CASE UpdateWrite(p)
  <2> DEFINE r == pop[p].run
             status == pop[p].target
  <2>1. CASE runs[r] # NoRun /\ Updated(p) /\ runs' = Written(r, status)
    <3>1. status \in PollRunStatus
      BY <1>1 DEF UpdateCall, PollRunStatus
    <3>2. /\ \A s \in Runs : s # r => runs'[s] = runs[s]
          /\ runs'[r].status = status
      BY <1>0, <1>1, <2>1, <3>1, WrittenIsTable
    <3>3. UNCHANGED <<tasks, reg, file, event, agent>> /\ pop[p].at = "write"
      BY <1>4 DEF UpdateWrite
    <3>4. Grows
      BY <3>3 DEF Grows
    <3>5. status \in IndexedStatuses => Own(pop[p])
      BY <1>1, NoneIsNoRun DEF UpdateCall, IndexedStatuses, Own
    <3>6. ASSUME NEW q \in Procs \ {p} PROVE LeftTo(pop[q])
      <4>1. PhaseOK(pop[q]) /\ NotesOK(pop[q])
        BY OwnFacts
      <4>2. CASE pop[q].run # r
        <5>1. pop[q].at = "save" \/ pop[q].at \in Updating
                \/ pop[q].at \in {"confirm_spawning", "spawn", "record"} => pop[q].run \in Runs
          BY <4>1 DEF NotesOK, Updating, Runless, Asking
        <5>. QED BY <3>2, <3>3, <4>1, <4>2, <5>1
              DEF LeftTo, PhaseOK, Updating, PollInv, SaveIsFirst
      <4>3. CASE pop[q].run = r
        <5>1. pop[q].at # "save"
          BY <4>3 DEF PollInv, SaveIsFirst
        <5>2. pop[q].at \in {"confirm_spawning", "spawn", "record"} => Own(pop[q])
          BY <1>1, <4>1, <4>3, NoneIsNoRun DEF Own, NotesOK, Launching
        <5>3. pop[q].at \in {"confirm_spawning", "spawn", "record"}
                => status \notin IndexedStatuses
          BY <3>5, <4>3, <5>2 DEF PollInv, OwnersApart
        <5>4. status # "ABSENT"
          BY <3>1 DEF PollRunStatus
        <5>. QED BY <2>1, <3>2, <3>3, <4>1, <4>3, <5>1, <5>3, <5>4 DEF LeftTo, PhaseOK, NoRun
      <4>. QED BY <4>2, <4>3
    <3>7. Rows'
      <4>1. reg[r] # NoLaunch
        BY <1>0, <1>1, NoneIsNoRun DEF PhaseOK
      <4>2. status \in {"RUNNING", "TERMINATING"} => Killable(r)
        BY <1>0, <1>1, <2>1, <3>3 DEF PhaseOK, Killable
      <4>. QED BY <1>0, <3>2, <3>3, <4>1, <4>2 DEF Rows, Killable
    <3>8. pop[p].then = "confirm_spawning" => runs'[r].status \notin IndexedStatuses
      BY <1>1, <3>2 DEF UpdateCall, IndexedStatuses
    <3>9. PhaseOK(pop[p])' /\ Taken(p) /\ Listed(pop[p])' /\ OthersStay(p)
      BY <3>3, <3>4, <3>8, <2>1, UpdatedPhase
    <3>. QED BY <3>4, <3>6, <3>7, <3>9, StepKeeps
  <2>2. CASE runs' = runs
    <3>1. SameStores
      BY <1>4, <2>2 DEF UpdateWrite, SameStores
    <3>2. CASE Raise(p)
      BY <1>2, <3>1, <3>2
    <3>3. CASE Updated(p)
      <4>1. Grows /\ Rows' /\ \A q \in Procs : LeftTo(pop[q])
        BY <3>1, SameStoresFacts
      <4>2. CASE runs[r] = NoRun
        <5>1. PhaseOK(pop[p])' /\ Taken(p) /\ Listed(pop[p])' /\ OthersStay(p)
          BY <1>4, <2>2, <3>1, <3>3, <4>1, <4>2, UpdatedPhase
          DEF UpdateWrite, SameStores, NoRun, IndexedStatuses
        <5>. QED BY <4>1, <5>1, StepKeeps
      <4>3. CASE runs[r] # NoRun
        <5>1. runs' = Written(r, status) \/ Raise(p)
          BY <1>4, <4>3, Zenon DEF UpdateWrite
        <5>. QED BY <2>1, <3>2, <3>3, <4>3, <5>1
      <4>. QED BY <4>2, <4>3
    <3>. QED BY <1>4, <3>2, <3>3 DEF UpdateWrite
  <2>. QED BY <1>4, <2>1, <2>2, Zenon DEF UpdateWrite
<1>. QED BY <1>3, <1>4

\* A launch that moves to a status that does not block any more is not one that
\* another process still has to spawn an agent for.
Releases(p, l, to) ==
  to \notin LaunchBlocking => \A q \in Procs \ {p} : Unspawned(pop[q]) => pop[q].run # l

LEMMA MovingStores ==
  ASSUME PollInv, NEW p \in Procs, UNCHANGED <<runs, file, event, agent>>,
         \/ UNCHANGED reg
         \/ \E l \in Runs, from \in SUBSET LaunchBlocking,
               to \in LaunchBlocking \cup {"TERMINATED", "FAILED"} :
              MoveLaunch(l, from, to) /\ Releases(p, l, to)
  PROVE  Grows /\ Rows' /\ \A q \in Procs \ {p} : LeftTo(pop[q])
<1>1. CASE UNCHANGED reg
  BY <1>1, SameStoresFacts DEF SameStores
<1>2. ASSUME NEW l \in Runs, NEW from \in SUBSET LaunchBlocking,
             NEW to \in LaunchBlocking \cup {"TERMINATED", "FAILED"},
             MoveLaunch(l, from, to), Releases(p, l, to)
      PROVE  Grows /\ Rows' /\ \A q \in Procs \ {p} : LeftTo(pop[q])
  <2>1. /\ \A s \in Runs : s # l => reg'[s] = reg[s]
        /\ reg'[l].status = IF reg[l].status \in from THEN to ELSE reg[l].status
        /\ (reg'[l] = NoLaunch) = (reg[l] = NoLaunch)
    BY <1>2, MoveLaunchFacts DEF PollInv
  <2>2. Grows
    BY <2>1 DEF Grows
  <2>3. Rows'
    BY <2>1 DEF PollInv, Rows, Killable
  <2>4. ASSUME NEW q \in Procs \ {p} PROVE LeftTo(pop[q])
    <3>1. PhaseOK(pop[q]) /\ NotesOK(pop[q]) /\ pop[q] \in Operation
      BY OwnFacts
    <3>2. Unspawned(pop[q]) => pop[q].run \in Runs
      BY <3>1 DEF Unspawned, Own, Operation
    <3>3. Unspawned(pop[q]) => reg'[pop[q].run].status \in LaunchBlocking
      BY <1>2, <2>1, <3>1, <3>2 DEF PhaseOK, Releases
    <3>. QED BY <3>1, <3>3 DEF LeftTo, PhaseOK, PollInv, SaveIsFirst
  <2>. QED BY <2>2, <2>3, <2>4
<1>. QED BY <1>1, <1>2

\* The processes that release a launch: one that has been spawned, or their own.
LEMMA KillableIsReleased ==
  ASSUME PollInv, NEW p \in Procs, NEW l \in Runs, Killable(l), NEW to
  PROVE  Releases(p, l, to)
<1>1. agent[l] # "none"
  BY DEF PollInv, Rows, Killable
<1>2. \A q \in Procs : Unspawned(pop[q]) => agent[pop[q].run] = "none"
  BY OwnFacts DEF PhaseOK
<1>. QED BY <1>1, <1>2 DEF Releases

LEMMA OwnIsReleased ==
  ASSUME PollInv, NEW p \in Procs, Own(pop[p]), NEW to
  PROVE  Releases(p, pop[p].run, to)
BY DEF Releases, Unspawned, PollInv, OwnersApart

LEMMA BlockingIsReleased ==
  ASSUME NEW p, NEW l, NEW to \in LaunchBlocking
  PROVE  Releases(p, l, to)
BY DEF Releases

\* The steps of a spawn that leave the rows alone.
LEMMA AskingKeeps ==
  ASSUME PollInv, TypeOK', PollNotes', NEW p \in Procs, RequestFind(p) \/ RequestLost(p)
  PROVE  PollInv'
<1>0. TypeOK /\ NotesOK(pop[p]) /\ Listed(pop[p]) /\ pop[p].at \in {"find", "claim"}
  BY OwnFacts DEF RequestFind, RequestLost
<1>1. Go(p, "claim") \/ Go(p, "suppress")
  BY DEF RequestFind, RequestLost
<1>2. /\ OthersStay(p) /\ pop'[p].at \in {"claim", "suppress"}
      /\ pop'[p].run = None /\ pop'[p].flow = "spawn" /\ pop'[p].snap = pop[p].snap
  BY <1>0, <1>1, GoFields DEF NotesOK, Asking
<1>3. \/ UNCHANGED reg
      \/ \E l \in Runs : MoveLaunch(l, {"RESERVED", "SPAWNING"}, "QUARANTINED")
  BY DEF RequestFind, RequestLost, FindActive
<1>4. UNCHANGED <<runs, file, event, agent>>
  BY DEF RequestFind, RequestLost
<1>5. {"RESERVED", "SPAWNING"} \in SUBSET LaunchBlocking /\ "QUARANTINED" \in LaunchBlocking
  BY DEF LaunchBlocking, LaunchInFlight
<1>6. Grows /\ Rows' /\ \A q \in Procs \ {p} : LeftTo(pop[q])
  BY <1>3, <1>4, <1>5, BlockingIsReleased, MovingStores
<1>7. Taken(p)
  BY <1>2 DEF Taken, Own
<1>8. PhaseOK(pop[p])'
  BY <1>2 DEF PhaseOK, Unspawned, Own, Updating
<1>9. Listed(pop[p])'
  BY <1>0, <1>2, <1>6, ListedKept
<1>. QED BY <1>2, <1>6, <1>7, <1>8, <1>9, StepKeeps

LEMMA ReconcileKeeps ==
  ASSUME PollInv, TypeOK', PollNotes', NEW p \in Procs, NEW r \in Runs, Reconcile(p, r)
  PROVE  PollInv'
<1>0. /\ TypeOK /\ NotesOK(pop[p]) /\ Listed(pop[p]) /\ pop[p].at = "reconcile"
      /\ pop[p] \in Operation
  BY OwnFacts DEF Reconcile
<1>1. PICK S : Become(p, [pop[p] EXCEPT !.todo = S])
  BY DEF Reconcile
<1>2. OthersStay(p) /\ pop'[p] = [pop[p] EXCEPT !.todo = S]
  BY <1>0, <1>1, BecomeFields
<1>3. /\ pop'[p].at = "reconcile" /\ pop'[p].run = pop[p].run /\ pop'[p].flow = pop[p].flow
      /\ pop'[p].snap = pop[p].snap /\ pop'[p].cand = pop[p].cand
  BY <1>0, <1>2 DEF Operation
<1>4. pop'[p].run = None /\ pop'[p].flow = "none"
  BY <1>0, <1>3 DEF NotesOK, Runless
<1>5. {"RESERVED", "SPAWNING", "ACTIVE"} \in SUBSET LaunchBlocking /\ "QUARANTINED" \in LaunchBlocking
  BY DEF LaunchBlocking, LaunchInFlight
<1>6. Grows /\ Rows' /\ \A q \in Procs \ {p} : LeftTo(pop[q])
  BY <1>5, BlockingIsReleased, MovingStores DEF Reconcile, QuarantineLaunch
<1>. QED BY <1>2, <1>3, <1>4, <1>6, RestingKeeps DEF Resting

LEMMA ConfirmSpawningKeeps ==
  ASSUME PollInv, TypeOK', PollNotes', NEW p \in Procs, ConfirmSpawning(p)
  PROVE  PollInv'
<1>0. /\ TypeOK /\ NotesOK(pop[p]) /\ PhaseOK(pop[p]) /\ Listed(pop[p])
      /\ pop[p].at = "confirm_spawning"
  BY OwnFacts DEF ConfirmSpawning
<1>1. /\ OthersStay(p) /\ pop'[p].at = "spawn"
      /\ pop'[p].run = pop[p].run /\ pop'[p].flow = pop[p].flow /\ pop'[p].snap = pop[p].snap
  BY <1>0, GoFields DEF ConfirmSpawning
<1>2. pop[p].run \in Runs /\ pop[p].flow = "spawn" /\ Own(pop[p]) /\ Unspawned(pop[p])
  BY <1>0, NoneIsNoRun DEF NotesOK, Runless, Asking, Launching, Unspawned, Own
<1>3. {"RESERVED"} \in SUBSET LaunchBlocking /\ "SPAWNING" \in LaunchBlocking
  BY DEF LaunchBlocking, LaunchInFlight
<1>4. UNCHANGED <<runs, file, event, agent>>
  BY DEF ConfirmSpawning
<1>5. Grows /\ Rows' /\ \A q \in Procs \ {p} : LeftTo(pop[q])
  BY <1>2, <1>3, <1>4, BlockingIsReleased, MovingStores DEF ConfirmSpawning
<1>6. reg'[pop[p].run].status \in LaunchBlocking
  BY <1>0, <1>2, <1>3, MoveLaunchFacts DEF ConfirmSpawning, PhaseOK
<1>7. Taken(p)
  BY <1>1, <1>2 DEF Taken, Own
<1>8. PhaseOK(pop[p])'
  BY <1>0, <1>1, <1>2, <1>4, <1>5, <1>6 DEF PhaseOK, Updating, Grows
<1>9. Listed(pop[p])'
  BY <1>0, <1>1, <1>5, ListedKept
<1>. QED BY <1>1, <1>5, <1>7, <1>8, <1>9, StepKeeps

LEMMA QuarantineSpawnKeeps ==
  ASSUME PollInv, TypeOK', PollNotes', NEW p \in Procs, QuarantineSpawn(p)
  PROVE  PollInv'
<1>0. TypeOK /\ pop[p].run \in Runs
  BY OwnFacts DEF NotesOK, QuarantineSpawn, Runless, Asking
<1>1. {"RESERVED", "SPAWNING", "ACTIVE"} \in SUBSET LaunchBlocking /\ "QUARANTINED" \in LaunchBlocking
  BY DEF LaunchBlocking, LaunchInFlight
<1>2. Grows /\ Rows' /\ \A q \in Procs \ {p} : LeftTo(pop[q])
  BY <1>0, <1>1, BlockingIsReleased, MovingStores DEF QuarantineSpawn, QuarantineLaunch
<1>3. Resting(p)
  BY <1>0, ReturnsRest DEF QuarantineSpawn
<1>. QED BY <1>2, <1>3, RestingKeeps

\* The steps that end a run, but for the kill.
LEMMA TerminationKeeps ==
  ASSUME PollInv, TypeOK', PollNotes', NEW p \in Procs, BeginTermination(p) \/ ConfirmTerminated(p)
  PROVE  PollInv'
<1>0. /\ TypeOK /\ NotesOK(pop[p]) /\ PhaseOK(pop[p]) /\ Listed(pop[p])
      /\ pop[p].at \in {"begin_termination", "confirm_terminated"}
  BY OwnFacts DEF BeginTermination, ConfirmTerminated
<1>1. pop[p].run \in Runs /\ pop[p].flow = "complete" /\ Killable(pop[p].run)
  BY <1>0 DEF NotesOK, Runless, Asking, PhaseOK
<1>2. /\ {"ACTIVE"} \in SUBSET LaunchBlocking /\ {"TERMINATING"} \in SUBSET LaunchBlocking
      /\ "TERMINATING" \in LaunchBlocking
  BY DEF LaunchBlocking, LaunchInFlight
<1>3. \/ UNCHANGED reg
      \/ MoveLaunch(pop[p].run, {"ACTIVE"}, "TERMINATING")
      \/ MoveLaunch(pop[p].run, {"TERMINATING"}, "TERMINATED")
  BY DEF BeginTermination, ConfirmTerminated
<1>4. UNCHANGED <<runs, file, event, agent>>
  BY DEF BeginTermination, ConfirmTerminated
<1>5. Grows /\ Rows' /\ \A q \in Procs \ {p} : LeftTo(pop[q])
  BY <1>1, <1>2, <1>3, <1>4, KillableIsReleased, MovingStores
<1>6. CASE NextRun(p)
  BY <1>0, <1>5, <1>6, ReturnsRest, RestingKeeps
<1>7. CASE Go(p, "confirm_terminated")
  <2>1. /\ OthersStay(p) /\ pop'[p].at = "confirm_terminated"
        /\ pop'[p].run = pop[p].run /\ pop'[p].flow = pop[p].flow /\ pop'[p].snap = pop[p].snap
    BY <1>0, <1>7, GoFields
  <2>2. Taken(p)
    BY <1>1, <2>1 DEF Taken, Own
  <2>3. PhaseOK(pop[p])'
    BY <1>0, <1>1, <1>4, <1>5, <2>1 DEF PhaseOK, Unspawned, Own, Updating, Grows, Killable
  <2>4. Listed(pop[p])'
    BY <1>0, <1>5, <2>1, ListedKept
  <2>. QED BY <1>5, <2>1, <2>2, <2>3, <2>4, StepKeeps
<1>. QED BY <1>6, <1>7 DEF BeginTermination, ConfirmTerminated

LEMMA MarkFailedKeeps ==
  ASSUME PollInv, TypeOK', PollNotes', NEW p \in Procs, MarkFailed(p)
  PROVE  PollInv'
<1>0. /\ TypeOK /\ NotesOK(pop[p]) /\ PhaseOK(pop[p]) /\ Listed(pop[p])
      /\ pop[p].at = "mark_failed"
  BY OwnFacts DEF MarkFailed
<1>1. pop[p].run \in Runs /\ pop[p].flow \in {"fail", "denied"}
  BY <1>0 DEF NotesOK, Runless, Asking
<1>2. Releases(p, pop[p].run, "FAILED")
  <2>1. CASE pop[p].flow = "fail"
    BY <1>0, <1>1, <2>1, KillableIsReleased DEF PhaseOK
  <2>2. CASE pop[p].flow = "denied"
    BY <1>1, <2>2, OwnIsReleased, NoneIsNoRun DEF Own
  <2>. QED BY <1>1, <2>1, <2>2
<1>3. UNCHANGED reg \/ MoveLaunch(pop[p].run, LaunchBlocking, "FAILED")
  BY DEF MarkFailed, FailLaunch
<1>4. UNCHANGED <<runs, file, event, agent>>
  BY DEF MarkFailed
<1>5. Grows /\ Rows' /\ \A q \in Procs \ {p} : LeftTo(pop[q])
  BY <1>1, <1>2, <1>3, <1>4, MovingStores
<1>6. CASE NextRun(p) \/ Raise(p) \/ NextTask(p)
  BY <1>0, <1>5, <1>6, ReturnsRest, RestingKeeps
<1>7. CASE pop[p].flow = "fail" /\ Go(p, "retry")
  <2>1. /\ OthersStay(p) /\ pop'[p].at = "retry"
        /\ pop'[p].run = pop[p].run /\ pop'[p].flow = pop[p].flow /\ pop'[p].snap = pop[p].snap
    BY <1>0, <1>7, GoFields
  <2>2. Taken(p)
    BY <1>7, <2>1 DEF Taken, Own
  <2>3. PhaseOK(pop[p])'
    BY <1>0, <1>1, <1>4, <1>5, <1>7, <2>1 DEF PhaseOK, Unspawned, Own, Updating, Grows, Killable
  <2>4. Listed(pop[p])'
    BY <1>0, <1>5, <2>1, ListedKept
  <2>. QED BY <1>5, <2>1, <2>2, <2>3, <2>4, StepKeeps
<1>. QED BY <1>6, <1>7 DEF MarkFailed

\* The status is to be updated next, for a run whose agent can be killed or
\* for one that is being cancelled.
LEMMA CallingKeeps ==
  ASSUME PollInv, TypeOK', PollNotes', NEW p \in Procs, OthersStay(p),
         pop[p].flow \in {"fail", "complete", "cancel"},
         pop'[p].at \in {"update", "terminate", "kill", "retry", "complete_task"},
         pop'[p].at = "update" => pop'[p].target # "RUNNING",
         pop'[p].run = pop[p].run, pop'[p].flow = pop[p].flow, pop'[p].snap = pop[p].snap,
         Grows, Rows', \A q \in Procs \ {p} : LeftTo(pop[q])
  PROVE  PollInv'
<1>1. Taken(p)
  BY DEF Taken, Own
<1>2. PhaseOK(pop[p]) /\ Listed(pop[p]) /\ pop[p] \in Operation
  BY OwnFacts
<1>3. PhaseOK(pop[p])'
  <2>1. pop[p].run \in Runs
    BY DEF PollNotes, NotesOK, Runless, Asking
  <2>. QED BY <1>2, <2>1, NoneIsNoRun DEF PhaseOK, Unspawned, Own, Updating, Grows, Killable
<1>4. Listed(pop[p])'
  BY <1>2, ListedKept
<1>. QED BY <1>1, <1>3, <1>4, StepKeeps

LEMMA ResolvingKeeps ==
  ASSUME PollInv, TypeOK', PollNotes', NEW p \in Procs,
         Terminate(p) \/ CompleteTask(p) \/ FailRun(p) \/ Retry(p)
  PROVE  PollInv'
<1>0. TypeOK /\ NotesOK(pop[p]) /\ pop[p] \in Operation
  BY OwnFacts
<1>1. SameStores
  BY DEF SameStores, Terminate, CompleteTask, FailRun, Retry
<1>2. Grows /\ Rows' /\ \A q \in Procs : LeftTo(pop[q])
  BY <1>1, SameStoresFacts
<1>3. CASE Retry(p)
  BY <1>0, <1>2, <1>3, ReturnsRest, RestingKeeps DEF Retry
<1>4. CASE CompleteTask(p)
  <2>1. /\ OthersStay(p) /\ pop'[p].at = "update" /\ pop'[p].target = "COMPLETED"
        /\ pop'[p].run = pop[p].run /\ pop'[p].flow = pop[p].flow /\ pop'[p].snap = pop[p].snap
    BY <1>0, <1>4, UpdateStatusFields DEF CompleteTask
  <2>2. pop[p].flow = "complete"
    BY <1>0, <1>4 DEF CompleteTask, NotesOK
  <2>. QED BY <1>2, <2>1, <2>2, CallingKeeps
<1>5. CASE FailRun(p)
  <2>1. PICK f : Become(p, [pop[p] EXCEPT !.at = "terminate", !.found = f])
    BY <1>5 DEF FailRun
  <2>2. OthersStay(p) /\ pop'[p] = [pop[p] EXCEPT !.at = "terminate", !.found = f]
    BY <1>0, <2>1, BecomeFields
  <2>3. /\ pop'[p].at = "terminate"
        /\ pop'[p].run = pop[p].run /\ pop'[p].flow = pop[p].flow /\ pop'[p].snap = pop[p].snap
    BY <1>0, <2>2 DEF Operation
  <2>4. pop[p].flow = "fail"
    BY <1>0, <1>5 DEF FailRun, NotesOK
  <2>. QED BY <1>2, <2>2, <2>3, <2>4, CallingKeeps
<1>6. CASE Terminate(p)
  <2>1. \E h : \/ Become(p, [pop[p] EXCEPT !.handle = h, !.at = "kill"])
               \/ Become(p, [pop[p] EXCEPT !.handle = h, !.at = "update",
                                           !.target = "TERMINATING", !.then = "kill"])
               \/ Become(p, [pop[p] EXCEPT !.handle = h, !.at = "update",
                                           !.target = "CANCELLED", !.then = "kill"])
    BY <1>6 DEF Terminate
  <2>2. /\ OthersStay(p)
        /\ \E h : \/ pop'[p] = [pop[p] EXCEPT !.handle = h, !.at = "kill"]
                  \/ pop'[p] = [pop[p] EXCEPT !.handle = h, !.at = "update",
                                              !.target = "TERMINATING", !.then = "kill"]
                  \/ pop'[p] = [pop[p] EXCEPT !.handle = h, !.at = "update",
                                              !.target = "CANCELLED", !.then = "kill"]
    BY <1>0, <2>1, BecomeFields
  <2>3. /\ pop'[p].at \in {"kill", "update"}
        /\ pop'[p].at = "update" => pop'[p].target # "RUNNING"
        /\ pop'[p].run = pop[p].run /\ pop'[p].flow = pop[p].flow /\ pop'[p].snap = pop[p].snap
    BY <1>0, <2>2 DEF Operation
  <2>4. pop[p].flow \in {"fail", "complete", "cancel"}
    BY <1>0, <1>6 DEF Terminate, NotesOK
  <2>. QED BY <1>2, <2>2, <2>3, <2>4, CallingKeeps
<1>. QED BY <1>3, <1>4, <1>5, <1>6

LEMMA StartTaskKeeps ==
  ASSUME PollInv, TypeOK', PollNotes', NEW p \in Procs, StartTask(p)
  PROVE  PollInv'
<1>0. /\ TypeOK /\ NotesOK(pop[p]) /\ PhaseOK(pop[p]) /\ Listed(pop[p])
      /\ pop[p] \in Operation /\ pop[p].at = "start"
  BY OwnFacts DEF StartTask
<1>1. pop[p].run \in Runs /\ Own(pop[p]) /\ Unspawned(pop[p]) /\ pop[p].flow = "spawn"
  BY <1>0, NoneIsNoRun DEF NotesOK, Runless, Asking, Launching, Unspawned, Own
<1>2. SameStores
  BY DEF SameStores, StartTask
<1>3. CASE Raise(p)
  BY <1>0, <1>2, <1>3, ReturnsRest, RestingKeeps, SameStoresFacts
<1>4. CASE \/ UpdateStatus(p, "SPAWNING", "confirm_spawning")
           \/ Become(p, [pop[p] EXCEPT !.at = "update", !.flow = "denied",
                                       !.target = "FAILED", !.then = "mark_failed"])
  <2>1. /\ OthersStay(p) /\ pop'[p].at = "update" /\ pop'[p].run = pop[p].run
        /\ pop'[p].flow \in {"spawn", "denied"} /\ pop'[p].snap = pop[p].snap
        /\ pop'[p].target \in {"SPAWNING", "FAILED"}
    <3>1. CASE UpdateStatus(p, "SPAWNING", "confirm_spawning")
      BY <1>0, <1>1, <3>1, UpdateStatusFields
    <3>2. CASE Become(p, [pop[p] EXCEPT !.at = "update", !.flow = "denied",
                                        !.target = "FAILED", !.then = "mark_failed"])
      <4>1. /\ OthersStay(p)
            /\ pop'[p] = [pop[p] EXCEPT !.at = "update", !.flow = "denied",
                                        !.target = "FAILED", !.then = "mark_failed"]
        BY <1>0, <3>2, BecomeFields
      <4>. QED BY <1>0, <4>1 DEF Operation
    <3>. QED BY <1>4, <3>1, <3>2
  <2>2. Taken(p)
    BY <1>1, <2>1 DEF Taken, Own
  <2>3. PhaseOK(pop[p])'
    BY <1>0, <1>1, <1>2, <2>1 DEF PhaseOK, SameStores
  <2>. QED BY <1>2, <2>1, <2>2, <2>3, QuietKeeps
<1>. QED BY <1>3, <1>4 DEF StartTask

LEMMA KillAgentKeeps ==
  ASSUME PollInv, TypeOK', PollNotes', NEW p \in Procs, KillAgent(p)
  PROVE  PollInv'
<1>0. /\ TypeOK /\ Rows /\ NotesOK(pop[p]) /\ pop[p].at = "kill"
  BY OwnFacts DEF KillAgent
<1>1. pop[p].run \in Runs /\ pop[p].flow \in {"fail", "complete", "cancel"}
  BY <1>0 DEF NotesOK, Runless, Asking
<1>2. /\ \A r \in Runs : agent'[r] = agent[r] \/ (agent[r] = "alive" /\ agent'[r] = "ended")
      /\ UNCHANGED <<runs, reg, file, event>>
  BY <1>0, <1>1 DEF KillAgent, Kill, TypeOK
<1>3. Grows
  BY <1>2 DEF Grows
<1>4. Rows'
  BY <1>0, <1>2 DEF Rows, Killable
<1>5. ASSUME NEW q \in Procs PROVE LeftTo(pop[q])
  <2>1. PhaseOK(pop[q]) /\ pop[q] \in Operation
    BY OwnFacts
  <2>2. Unspawned(pop[q]) => pop[q].run \in Runs
    BY <2>1 DEF Unspawned, Own, Operation
  <2>. QED BY <1>2, <2>1, <2>2 DEF LeftTo, PhaseOK, PollInv, SaveIsFirst
<1>6. /\ OthersStay(p) /\ pop'[p].at \in {"update", "retry", "complete_task"}
      /\ pop'[p].at = "update" => pop'[p].target # "RUNNING"
      /\ pop'[p].run = pop[p].run /\ pop'[p].flow = pop[p].flow /\ pop'[p].snap = pop[p].snap
  <2>1. \/ Go(p, "complete_task") \/ Go(p, "retry") \/ UpdateStatus(p, "FAILED", "mark_failed")
    BY <1>1 DEF KillAgent, AfterKill
  <2>2. CASE Go(p, "complete_task") \/ Go(p, "retry")
    BY <1>0, <2>2, GoFields
  <2>3. CASE UpdateStatus(p, "FAILED", "mark_failed")
    BY <1>0, <2>3, UpdateStatusFields
  <2>. QED BY <2>1, <2>2, <2>3
<1>. QED BY <1>1, <1>3, <1>4, <1>5, <1>6, CallingKeeps

LEMMA CancelKeeps ==
  ASSUME PollInv, TypeOK', PollNotes', NEW p \in Procs, NEW r \in Runs, CancelRun(p, r)
  PROVE  PollInv'
<1>0. TypeOK /\ Rows
  BY OwnFacts
<1>1. SameStores
  BY DEF CancelRun, SameStores
<1>2. PICK t : Become(p, [Idle EXCEPT !.at = "update", !.flow = "cancel", !.run = r, !.task = t,
                                      !.target = "CANCELLED", !.then = "terminate"])
  BY DEF CancelRun
<1>3. /\ OthersStay(p)
      /\ pop'[p] = [Idle EXCEPT !.at = "update", !.flow = "cancel", !.run = r, !.task = t,
                                !.target = "CANCELLED", !.then = "terminate"]
  BY <1>0, <1>2, BecomeFields
<1>4. /\ pop'[p].at = "update" /\ pop'[p].flow = "cancel" /\ pop'[p].run = r
      /\ pop'[p].target = "CANCELLED" /\ pop'[p].then = "terminate"
      /\ pop'[p].snap = EmptyTable
  BY <1>3, IdleOK DEF Operation
<1>5. runs[r].status \notin {"ABSENT", "CANCELLED"}
  BY DEF CancelRun, RunTransitions
<1>6. Taken(p)
  BY <1>4, <1>5 DEF Taken, Own, EmptyTable, NoRun
<1>7. reg[r] # NoLaunch
  BY <1>0, <1>5 DEF Rows
<1>8. PhaseOK(pop[p])'
  BY <1>1, <1>4, <1>7 DEF PhaseOK, Unspawned, Own, Updating, SameStores
<1>. QED BY <1>1, <1>3, <1>4, <1>6, <1>8, QuietKeeps DEF EmptyTable

LEMMA CheckingKeeps ==
  ASSUME PollInv, TypeOK', PollNotes', NEW p \in Procs, NEW r \in Runs,
         CheckTimesOut(p, r) \/ CheckLeaves(p, r) \/ CheckFails(p, r) \/ CheckCompletes(p, r)
  PROVE  PollInv'
<1>0. /\ TypeOK /\ Rows /\ NotesOK(pop[p]) /\ PhaseOK(pop[p]) /\ Listed(pop[p])
      /\ pop[p] \in Operation /\ pop[p].at = "check" /\ pop[p].flow = "none"
  BY OwnFacts DEF CheckTimesOut, CheckLeaves, CheckFails, CheckCompletes, NotesOK, Runless
<1>1. SameStores
  BY DEF SameStores, CheckTimesOut, CheckLeaves, CheckFails, CheckCompletes
<1>2. pop[p].snap[r] # NoRun /\ reg[r] # NoLaunch
  <2>1. CheckTimesOut(p, r) => pop[p].snap[r] # NoRun
    BY DEF CheckTimesOut, Unresolved, NoRun
  <2>2. pop[p].snap[r] # NoRun
    BY <2>1 DEF CheckLeaves, CheckFails, CheckCompletes
  <2>. QED BY <1>0, <2>2 DEF Listed
<1> DEFINE S == [pop[p].snap EXCEPT ![r] = NoRun]
<1>3. \A s \in Runs : S[s] \in {NoRun, pop[p].snap[s]}
  BY <1>0 DEF Operation, Table
<1>4. CASE CheckLeaves(p, r)
  <2>1. OthersStay(p) /\ pop'[p] = [pop[p] EXCEPT !.snap = S]
    BY <1>0, <1>4, BecomeFields DEF CheckLeaves
  <2>2. /\ pop'[p].at = "check" /\ pop'[p].flow = "none" /\ pop'[p].run = pop[p].run
        /\ pop'[p].snap = S
    BY <1>0, <2>1 DEF Operation
  <2>3. Taken(p)
    BY <1>3, <2>2 DEF Taken, Own
  <2>4. PhaseOK(pop[p])'
    BY <1>0, <1>1, <2>2 DEF PhaseOK, Unspawned, Own, Updating, SameStores
  <2>. QED BY <1>1, <1>3, <2>1, <2>2, <2>3, <2>4, QuietKeeps
<1>5. ASSUME OthersStay(p), pop'[p].snap = S, pop'[p].run = r,
             \/ pop'[p].at = "update" /\ pop'[p].flow = "none" /\ pop'[p].target = "QUARANTINED"
             \/ /\ pop'[p].at \in {"fail", "terminate"} /\ pop'[p].flow \in {"fail", "complete"}
                /\ Killable(r)
      PROVE  PollInv'
  <2>1. Taken(p)
    BY <1>2, <1>3, <1>5 DEF Taken, Own
  <2>2. PhaseOK(pop[p])'
    BY <1>1, <1>2, <1>5 DEF PhaseOK, Unspawned, Own, Updating, SameStores, Killable
  <2>. QED BY <1>1, <1>3, <1>5, <2>1, <2>2, QuietKeeps
<1>6. CASE CheckTimesOut(p, r)
  <2>1. /\ OthersStay(p)
        /\ pop'[p] = [pop[p] EXCEPT !.at = "update", !.run = r, !.snap = S,
                                    !.target = "QUARANTINED", !.then = "check"]
    BY <1>0, <1>6, BecomeFields DEF CheckTimesOut
  <2>. QED BY <1>0, <1>5, <2>1 DEF Operation
<1>7. ASSUME NEW label \in {"fail", "terminate"}, NEW flow \in {"fail", "complete"},
             Check(p, r, label, flow), Killable(r)
      PROVE  PollInv'
  <2> DEFINE t == pop[p].snap[r].task
  <2>1. /\ OthersStay(p)
        /\ pop'[p] = [pop[p] EXCEPT !.at = label, !.flow = flow, !.run = r,
                                    !.task = t, !.snap = S]
    BY <1>0, <1>7, BecomeFields DEF Check
  <2>. QED BY <1>0, <1>5, <1>7, <2>1 DEF Operation
<1>8. CASE CheckFails(p, r)
  <2>1. Killable(r)
    BY <1>0, <1>2, <1>8 DEF CheckFails, Rows, Listed, Killable, Unresolved, ActiveStatuses
  <2>. QED BY <1>7, <1>8, <2>1 DEF CheckFails
<1>9. CASE CheckCompletes(p, r)
  <2>1. Killable(r)
    BY <1>0, <1>9 DEF CheckCompletes, Rows, Killable
  <2>. QED BY <1>7, <1>9, <2>1 DEF CheckCompletes
<1>. QED BY <1>4, <1>6, <1>8, <1>9

\* Nobody knows of an id before it is claimed.
LEMMA FreshIsUnknown ==
  ASSUME PollInv, NEW r \in Runs, Fresh(r)
  PROVE  /\ agent[r] = "none" /\ ~event[r] /\ file[r] \notin {"COMPLETED", "FAILED"}
         /\ \A q \in Procs : pop[q].run # r /\ pop[q].snap[r] = NoRun
<1>1. ASSUME NEW q \in Procs PROVE pop[q].run # r /\ pop[q].snap[r] = NoRun
  BY OwnFacts, NoneIsNoRun DEF PhaseOK, Listed, Fresh
<1>2. agent[r] \in {"none", "alive", "ended"} /\ event[r] \in BOOLEAN
  BY DEF PollInv, TypeOK
<1>. QED BY <1>1, <1>2 DEF PollInv, Rows, Fresh

LEMMA RequestClaimKeeps ==
  ASSUME PollInv, TypeOK', PollNotes', NEW p \in Procs, NEW r \in Runs, RequestClaim(p, r)
  PROVE  PollInv'
<1>0. /\ TypeOK /\ Rows /\ NotesOK(pop[p]) /\ PhaseOK(pop[p]) /\ Listed(pop[p])
      /\ pop[p] \in Operation /\ pop[p].flow = "spawn"
  BY OwnFacts DEF RequestClaim, NotesOK, Asking
<1>1. Fresh(r) /\ UNCHANGED <<runs, file, event, agent>>
  BY DEF RequestClaim
<1>2. /\ agent[r] = "none" /\ ~event[r]
      /\ \A q \in Procs : pop[q].run # r /\ pop[q].snap[r] = NoRun
  BY <1>1, FreshIsUnknown
<1>3. /\ OthersStay(p) /\ pop'[p].at = "save" /\ pop'[p].run = r
      /\ pop'[p].flow = "spawn" /\ pop'[p].snap = pop[p].snap
  <2>1. OthersStay(p) /\ pop'[p] = [pop[p] EXCEPT !.at = "save", !.run = r]
    BY <1>0, BecomeFields DEF RequestClaim
  <2>. QED BY <1>0, <2>1 DEF Operation
<1>4. /\ \A s \in Runs : s # r => reg'[s] = reg[s]
      /\ reg'[r].status = "RESERVED"
  BY <1>0 DEF RequestClaim, TypeOK
<1>5. reg'[r] # NoLaunch
  BY <1>4 DEF NoLaunch
<1>6. Grows
  BY <1>1, <1>4, <1>5 DEF Grows
<1>7. ASSUME NEW q \in Procs PROVE LeftTo(pop[q])
  <2>1. PhaseOK(pop[q]) /\ pop[q] \in Operation /\ pop[q].run # r
    BY <1>2, OwnFacts
  <2>2. Unspawned(pop[q]) => pop[q].run \in Runs
    BY <2>1 DEF Unspawned, Own, Operation
  <2>. QED BY <1>1, <1>4, <2>1, <2>2 DEF LeftTo, PhaseOK, PollInv, SaveIsFirst
<1>8. Phases'
  <2>1. ASSUME NEW q \in Procs \ {p} PROVE PhaseOK(pop[q])' /\ Listed(pop[q])'
    BY <1>3, <1>6, <1>7, OtherPhase DEF OthersStay
  <2>2. Listed(pop[p])'
    BY <1>0, <1>3, <1>6, ListedKept
  <2>3. PhaseOK(pop[p])'
    BY <1>1, <1>2, <1>3, <1>4, <1>5 DEF PhaseOK, Updating, LaunchBlocking, LaunchInFlight
  <2>. QED BY <2>1, <2>2, <2>3 DEF Phases
<1>9. OwnersApart'
  BY <1>2, <1>3 DEF PollInv, OwnersApart, OthersStay
<1>10. SaveIsFirst'
  <2>1. ASSUME NEW q \in Procs, q # p, pop'[q].at = "save"
        PROVE  /\ runs'[pop'[q].run] = NoRun
               /\ \A o \in Procs \ {q} : pop'[o].run # pop'[q].run
               /\ \A o \in Procs : pop'[o].snap[pop'[q].run] = NoRun
    BY <1>1, <1>2, <1>3, <2>1 DEF PollInv, SaveIsFirst, OthersStay
  <2>2. /\ runs'[r] = NoRun
        /\ \A o \in Procs \ {p} : pop'[o].run # r
        /\ \A o \in Procs : pop'[o].snap[r] = NoRun
    BY <1>1, <1>2, <1>3 DEF Fresh, OthersStay
  <2>. QED BY <1>3, <2>1, <2>2 DEF SaveIsFirst
<1>11. Rows'
  BY <1>0, <1>1, <1>4, <1>5 DEF Rows, Killable
<1>. QED BY <1>8, <1>9, <1>10, <1>11 DEF PollInv

LEMMA SuppressKeeps ==
  ASSUME PollInv, TypeOK', PollNotes', NEW p \in Procs, NEW r \in Runs, Suppress(p, r)
  PROVE  PollInv'
<1>0. TypeOK /\ Rows
  BY OwnFacts
<1>1. Fresh(r) /\ UNCHANGED <<reg, file, event, agent>>
  BY DEF Suppress
<1>2. \A q \in Procs : pop[q].run # r
  BY <1>1, FreshIsUnknown
<1>3. \A s \in Runs : s # r => runs'[s] = runs[s]
  BY <1>0 DEF Suppress, TypeOK, Table
<1>4. runs'[r].status = "CANCELLED"
  BY <1>0 DEF Suppress, TypeOK, Table, NoRun
<1>5. Grows
  BY <1>1 DEF Grows
<1>6. Rows'
  BY <1>0, <1>1, <1>3, <1>4 DEF Rows, Killable
<1>7. ASSUME NEW q \in Procs PROVE LeftTo(pop[q])
  <2>1. PhaseOK(pop[q]) /\ NotesOK(pop[q])
    BY OwnFacts
  <2>2. pop[q].at = "save" \/ pop[q].at \in Updating
          \/ pop[q].at \in {"confirm_spawning", "spawn", "record"} => pop[q].run \in Runs
    BY <2>1 DEF NotesOK, Updating, Runless, Asking
  <2>. QED BY <1>1, <1>2, <1>3, <2>1, <2>2 DEF LeftTo, PhaseOK, Updating, PollInv, SaveIsFirst
<1>8. Resting(p)
  BY <1>0, ReturnsRest DEF Suppress
<1>. QED BY <1>5, <1>6, <1>7, <1>8, RestingKeeps

LEMMA SaveRunKeeps ==
  ASSUME PollInv, TypeOK', PollNotes', NEW p \in Procs, SaveRun(p)
  PROVE  PollInv'
<1>0. /\ TypeOK /\ Rows /\ NotesOK(pop[p]) /\ PhaseOK(pop[p]) /\ Listed(pop[p])
      /\ pop[p].at = "save"
  BY OwnFacts DEF SaveRun
<1> DEFINE r == pop[p].run
<1>1. r \in Runs /\ pop[p].flow = "spawn" /\ Own(pop[p]) /\ Unspawned(pop[p])
  BY <1>0, NoneIsNoRun DEF NotesOK, Runless, Asking, Launching, Unspawned, Own
<1>2. UNCHANGED <<reg, file, event, agent>>
  BY DEF SaveRun
<1>3. /\ runs'[r].status = "QUEUED"
      /\ \A s \in Runs : s # r =>
           \/ runs'[s] = runs[s]
           \/ runs'[s] = NoRun /\ runs[s].status \in IndexedStatuses
  BY <1>1 DEF SaveRun, NoRun
<1>4. \A q \in Procs \ {p} : pop[q].run # r
  BY <1>0 DEF PollInv, SaveIsFirst
<1>5. Grows
  BY <1>2 DEF Grows
<1>6. Rows'
  <2>1. reg[r] # NoLaunch
    BY <1>0, <1>1, NoneIsNoRun DEF PhaseOK
  <2>2. ASSUME NEW s \in Runs
        PROVE  /\ runs'[s].status \notin {"ABSENT", "CANCELLED"} => reg[s] # NoLaunch
               /\ runs'[s].status \in {"RUNNING", "TERMINATING"} => Killable(s)
    BY <1>0, <1>3, <2>1 DEF Rows, NoRun
  <2>. QED BY <1>0, <1>2, <2>2 DEF Rows, Killable
<1>7. ASSUME NEW q \in Procs \ {p} PROVE LeftTo(pop[q])
  <2>1. PhaseOK(pop[q]) /\ NotesOK(pop[q])
    BY OwnFacts
  <2>2. pop[q].at = "save" \/ pop[q].at \in Updating
          \/ pop[q].at \in {"confirm_spawning", "spawn", "record"} => pop[q].run \in Runs
    BY <2>1 DEF NotesOK, Updating, Runless, Asking
  <2>3. pop[q].run \in Runs => \/ runs'[pop[q].run] = runs[pop[q].run]
                               \/ /\ runs'[pop[q].run] = NoRun
                                  /\ runs[pop[q].run].status \in IndexedStatuses
    BY <1>3, <1>4
  <2>4. NoRun.status \notin IndexedStatuses
    BY DEF NoRun, IndexedStatuses
  <2>. QED BY <1>2, <2>1, <2>2, <2>3, <2>4 DEF LeftTo, PhaseOK, Updating, PollInv, SaveIsFirst
<1>8. /\ OthersStay(p) /\ pop'[p].at = "start"
      /\ pop'[p].run = pop[p].run /\ pop'[p].flow = pop[p].flow /\ pop'[p].snap = pop[p].snap
  BY <1>0, GoFields DEF SaveRun
<1>9. Taken(p)
  BY <1>1, <1>8 DEF Taken, Own
<1>10. PhaseOK(pop[p])'
  BY <1>0, <1>1, <1>2, <1>8 DEF PhaseOK, Updating
<1>11. Listed(pop[p])'
  BY <1>0, <1>5, <1>8, ListedKept
<1>. QED BY <1>5, <1>6, <1>7, <1>8, <1>9, <1>10, <1>11, StepKeeps

LEMMA SpawnAgentKeeps ==
  ASSUME PollInv, TypeOK', PollNotes', NEW p \in Procs, SpawnAgent(p)
  PROVE  PollInv'
<1>0. /\ TypeOK /\ Rows /\ NotesOK(pop[p]) /\ PhaseOK(pop[p]) /\ Listed(pop[p])
      /\ pop[p].at = "spawn"
  BY OwnFacts DEF SpawnAgent
<1> DEFINE r == pop[p].run
<1>1. r \in Runs /\ pop[p].flow = "spawn" /\ Own(pop[p]) /\ Unspawned(pop[p])
  BY <1>0, NoneIsNoRun DEF NotesOK, Runless, Asking, Launching, Unspawned, Own
<1>2. UNCHANGED <<runs, reg, file, event>>
  BY DEF SpawnAgent
<1>3. \A s \in Runs : agent'[s] = agent[s] \/ (s = r /\ agent'[s] = "alive")
  BY <1>0, <1>1 DEF SpawnAgent, TypeOK
<1>4. agent[r] = "none" /\ reg[r] # NoLaunch
  BY <1>0, <1>1, NoneIsNoRun DEF PhaseOK
<1>5. Grows
  BY <1>2, <1>3, <1>4 DEF Grows
<1>6. Rows'
  BY <1>0, <1>2, <1>3, <1>4 DEF Rows, Killable
<1>7. ASSUME NEW q \in Procs \ {p} PROVE LeftTo(pop[q])
  <2>1. PhaseOK(pop[q]) /\ pop[q] \in Operation
    BY OwnFacts
  <2>2. Unspawned(pop[q]) => pop[q].run \in Runs /\ pop[q].run # r
    BY <1>1, <2>1 DEF Unspawned, Own, Operation, PollInv, OwnersApart
  <2>. QED BY <1>2, <1>3, <2>1, <2>2 DEF LeftTo, PhaseOK, PollInv, SaveIsFirst
<1>8. /\ OthersStay(p)
      /\ \/ pop'[p].at = "update" /\ pop'[p].target = "QUARANTINED" /\ pop'[p].then = "quarantine"
         \/ pop'[p].at = "record" /\ runs[r] # NoRun /\ agent'[r] = "alive"
      /\ pop'[p].run = pop[p].run /\ pop'[p].flow = pop[p].flow /\ pop'[p].snap = pop[p].snap
  <2>1. CASE UpdateStatus(p, "QUARANTINED", "quarantine")
    BY <1>0, <2>1, UpdateStatusFields
  <2>2. CASE Go(p, "record") /\ runs[r] # NoRun /\ agent' = [agent EXCEPT ![r] = "alive"]
    BY <1>0, <1>1, <2>2, GoFields DEF TypeOK
  <2>. QED BY <2>1, <2>2 DEF SpawnAgent
<1>9. Taken(p)
  BY <1>1, <1>8 DEF Taken, Own
<1>10. PhaseOK(pop[p])'
  BY <1>0, <1>1, <1>2, <1>4, <1>8 DEF PhaseOK, Unspawned, Updating
<1>11. Listed(pop[p])'
  BY <1>0, <1>5, <1>8, ListedKept
<1>. QED BY <1>5, <1>6, <1>7, <1>8, <1>9, <1>10, <1>11, StepKeeps

LEMMA RecordKeeps ==
  ASSUME PollInv, TypeOK', PollNotes', NEW p \in Procs, RecordMetadata(p)
  PROVE  PollInv'
<1>0. /\ TypeOK /\ Rows /\ NotesOK(pop[p]) /\ PhaseOK(pop[p]) /\ Listed(pop[p])
      /\ pop[p].at = "record"
  BY OwnFacts DEF RecordMetadata
<1> DEFINE r == pop[p].run
<1>1. r \in Runs /\ pop[p].flow = "spawn" /\ runs[r] # NoRun
  BY <1>0 DEF NotesOK, Runless, Asking, Launching, PhaseOK
<1>2. UNCHANGED <<reg, file, event, agent>>
  BY DEF RecordMetadata
<1>3. /\ \A s \in Runs : s # r => runs'[s] = runs[s]
      /\ runs'[r].status = runs[r].status
  <2>1. runs[r] \in PollRun
    BY <1>0, <1>1, RowsOfTable DEF TypeOK
  <2>2. runs' = [runs EXCEPT ![r] = [runs[r] EXCEPT !.handle = TRUE]]
    BY <1>0, <1>1 DEF RecordMetadata, TypeOK, Table
  <2>3. [runs[r] EXCEPT !.handle = TRUE].status = runs[r].status
    BY <2>1 DEF PollRun
  <2>. QED BY <1>0, <1>1, <2>2, <2>3 DEF TypeOK, Table
<1>4. \A s \in Runs : (runs'[s] = NoRun) = (runs[s] = NoRun) /\ runs'[s].status = runs[s].status
  BY <1>0, <1>3, RowsOfTable DEF TypeOK
<1>5. Grows
  BY <1>2 DEF Grows
<1>6. Rows'
  BY <1>0, <1>2, <1>4 DEF Rows, Killable
<1>7. ASSUME NEW q \in Procs PROVE LeftTo(pop[q])
  <2>1. PhaseOK(pop[q]) /\ NotesOK(pop[q])
    BY OwnFacts
  <2>2. pop[q].at = "save" \/ pop[q].at \in Updating
          \/ pop[q].at \in {"confirm_spawning", "spawn", "record"} => pop[q].run \in Runs
    BY <2>1 DEF NotesOK, Updating, Runless, Asking
  <2>. QED BY <1>2, <1>4, <2>1, <2>2 DEF LeftTo, PhaseOK, Updating, PollInv, SaveIsFirst
<1>8. /\ OthersStay(p) /\ pop'[p].at = "confirm_active"
      /\ pop'[p].run = pop[p].run /\ pop'[p].flow = pop[p].flow /\ pop'[p].snap = pop[p].snap
  BY <1>0, GoFields DEF RecordMetadata
<1>9. Taken(p)
  BY <1>1, <1>8 DEF Taken, Own
<1>10. PhaseOK(pop[p])'
  BY <1>0, <1>1, <1>2, <1>8 DEF PhaseOK, Unspawned, Updating
<1>11. Listed(pop[p])'
  BY <1>0, <1>5, <1>8, ListedKept
<1>. QED BY <1>5, <1>6, <1>7, <1>8, <1>9, <1>10, <1>11, StepKeeps

LEMMA ConfirmActiveKeeps ==
  ASSUME PollInv, TypeOK', PollNotes', NEW p \in Procs, ConfirmActive(p)
  PROVE  PollInv'
<1>0. /\ TypeOK /\ Rows /\ NotesOK(pop[p]) /\ PhaseOK(pop[p]) /\ Listed(pop[p])
      /\ pop[p].at = "confirm_active"
  BY OwnFacts DEF ConfirmActive
<1> DEFINE r == pop[p].run
<1>1. r \in Runs /\ pop[p].flow = "spawn" /\ reg[r] # NoLaunch /\ agent[r] # "none"
  BY <1>0, NoneIsNoRun DEF NotesOK, Runless, Asking, Launching, PhaseOK
<1>2. UNCHANGED <<runs, file, agent>> /\ event' = [event EXCEPT ![r] = TRUE]
  BY DEF ConfirmActive
<1>3. \A s \in Runs : event'[s] = event[s] \/ s = r
  BY <1>0, <1>2 DEF TypeOK
<1>4. event'[r]
  BY <1>0, <1>1, <1>2 DEF TypeOK
<1>5. \A s \in Runs : \/ reg'[s] = reg[s]
                      \/ reg[s].status = "SPAWNING" /\ reg'[s].status = "ACTIVE"
  <2>1. CASE reg[r].status = "SPAWNING"
    <3>1. reg[r] \in Launch
      BY <1>0, <1>1, <2>1 DEF TypeOK
    <3>2. reg' = [reg EXCEPT ![r] = [reg[r] EXCEPT !.status = "ACTIVE", !.lease = "none"]]
      BY <1>0, <1>1, <2>1 DEF ConfirmActive, TypeOK
    <3>3. [reg[r] EXCEPT !.status = "ACTIVE", !.lease = "none"].status = "ACTIVE"
      BY <3>1 DEF Launch
    <3>. QED BY <1>0, <1>1, <2>1, <3>2, <3>3 DEF TypeOK
  <2>2. CASE reg[r].status # "SPAWNING"
    BY <2>2 DEF ConfirmActive
  <2>. QED BY <2>1, <2>2
<1>6. /\ \A s \in Runs : (reg'[s] = NoLaunch) = (reg[s] = NoLaunch)
      /\ \A s \in Runs : reg[s].status \in LaunchBlocking => reg'[s].status \in LaunchBlocking
  BY <1>5 DEF NoLaunch, LaunchBlocking, LaunchInFlight
<1>7. Grows
  BY <1>2, <1>3, <1>4, <1>6 DEF Grows
<1>8. Rows'
  BY <1>0, <1>1, <1>2, <1>3, <1>4, <1>6 DEF Rows, Killable
<1>9. ASSUME NEW q \in Procs PROVE LeftTo(pop[q])
  <2>1. PhaseOK(pop[q]) /\ pop[q] \in Operation
    BY OwnFacts
  <2>2. Unspawned(pop[q]) => pop[q].run \in Runs
    BY <2>1 DEF Unspawned, Own, Operation
  <2>. QED BY <1>2, <1>6, <2>1, <2>2 DEF LeftTo, PhaseOK, PollInv, SaveIsFirst
<1>10. /\ OthersStay(p) /\ pop'[p].at = "update"
       /\ pop'[p].target = "RUNNING" /\ pop'[p].then = "write_status"
       /\ pop'[p].run = pop[p].run /\ pop'[p].flow = pop[p].flow /\ pop'[p].snap = pop[p].snap
  BY <1>0, UpdateStatusFields DEF ConfirmActive
<1>11. Taken(p)
  BY <1>1, <1>10 DEF Taken, Own
<1>12. PhaseOK(pop[p])'
  BY <1>1, <1>4, <1>6, <1>10 DEF PhaseOK, Unspawned, Updating
<1>13. Listed(pop[p])'
  BY <1>0, <1>7, <1>10, ListedKept
<1>. QED BY <1>7, <1>8, <1>9, <1>10, <1>11, <1>12, <1>13, StepKeeps

LEMMA WriteStatusKeeps ==
  ASSUME PollInv, TypeOK', PollNotes', NEW p \in Procs, WriteStatus(p)
  PROVE  PollInv'
<1>0. TypeOK /\ Rows
  BY OwnFacts
<1>1. UNCHANGED <<runs, reg, event, agent>>
  BY DEF WriteStatus
<1>2. \A r \in Runs : file'[r] = file[r] \/ file'[r] = "RUNNING"
  BY <1>0 DEF WriteStatus, TypeOK
<1>3. Grows /\ \A q \in Procs : LeftTo(pop[q])
  BY <1>1, OwnFacts DEF Grows, LeftTo, PhaseOK, PollInv, SaveIsFirst
<1>4. Rows'
  BY <1>0, <1>1, <1>2 DEF Rows, Killable
<1>5. Resting(p)
  BY <1>0, ReturnsRest DEF WriteStatus
<1>. QED BY <1>3, <1>4, <1>5, RestingKeeps

LEMMA SurroundingsKeep ==
  ASSUME PollInv, TypeOK', PollNotes', NEW r \in Runs,
         LeaseExpires(r) \/ \E outcome \in AgentOutcomes : AgentEnds(r, outcome)
  PROVE  PollInv'
<1>0. TypeOK /\ Rows
  BY DEF PollInv
<1>1. UNCHANGED <<runs, event, pop>>
  BY DEF LeaseExpires, AgentEnds
<1>2. /\ \A s \in Runs : reg'[s].status = reg[s].status
      /\ \A s \in Runs : (reg'[s] = NoLaunch) = (reg[s] = NoLaunch)
      /\ \A s \in Runs : agent'[s] = agent[s] \/ (agent[s] = "alive" /\ agent'[s] = "ended")
      /\ \A s \in Runs : file'[s] = file[s] \/ agent'[s] = "ended"
  <2>1. CASE LeaseExpires(r)
    <3>1. reg[r] \in Launch
      BY <1>0, <2>1 DEF LeaseExpires, TypeOK, NoLaunch
    <3>2. reg' = [reg EXCEPT ![r] = [reg[r] EXCEPT !.lease = "expired"]]
      BY <1>0, <2>1 DEF LeaseExpires, TypeOK
    <3>3. /\ [reg[r] EXCEPT !.lease = "expired"] \in Launch
          /\ [reg[r] EXCEPT !.lease = "expired"].status = reg[r].status
      BY <3>1 DEF Launch
    <3>4. NoLaunch \notin Launch
      BY DEF NoLaunch, Launch, LaunchBlocking, LaunchInFlight
    <3>. QED BY <1>0, <2>1, <3>1, <3>2, <3>3, <3>4 DEF LeaseExpires, TypeOK
  <2>2. ASSUME NEW outcome \in AgentOutcomes, AgentEnds(r, outcome)
        PROVE  /\ reg' = reg
               /\ \A s \in Runs : agent'[s] = agent[s] \/ (agent[s] = "alive" /\ agent'[s] = "ended")
               /\ \A s \in Runs : file'[s] = file[s] \/ agent'[s] = "ended"
    BY <1>0, <2>2 DEF AgentEnds, TypeOK
  <2>. QED BY <2>1, <2>2
<1>3. Grows
  BY <1>1, <1>2 DEF Grows
<1>4. Rows'
  BY <1>0, <1>1, <1>2 DEF Rows, Killable
<1>5. ASSUME NEW q \in Procs PROVE LeftTo(pop[q])
  <2>1. PhaseOK(pop[q]) /\ pop[q] \in Operation
    BY OwnFacts
  <2>2. Unspawned(pop[q]) => pop[q].run \in Runs
    BY <2>1 DEF Unspawned, Own, Operation
  <2>. QED BY <1>1, <1>2, <2>1, <2>2 DEF LeftTo, PhaseOK, PollInv, SaveIsFirst
<1>6. Phases'
  BY <1>1, <1>3, <1>5, OtherPhase DEF Phases
<1>7. OwnersApart' /\ SaveIsFirst'
  BY <1>1 DEF PollInv, OwnersApart, SaveIsFirst
<1>. QED BY <1>4, <1>6, <1>7 DEF PollInv

LEMMA PollStep ==
  ASSUME PollInv, Next
  PROVE  PollInv'
<1>1. TypeOK' /\ PollNotes'
  BY OwnFacts, TypeStep DEF PollInv, PhaseOK
<1>2. ASSUME NEW p \in Procs, Step(p)
      PROVE  PollInv'
  <2>1. CASE \/ PollOnce(p) \/ PollList(p) \/ PollApproved(p) \/ PollFilter(p) \/ PollDone(p)
             \/ \E t \in Tasks : PickTask(p, t)
             \/ CheckRuns(p) \/ CheckDone(p)
    BY <1>1, <2>1, PollingKeeps
  <2>2. ASSUME NEW r \in Runs,
               \/ Reconcile(p, r)
               \/ CheckTimesOut(p, r) \/ CheckLeaves(p, r)
               \/ CheckFails(p, r) \/ CheckCompletes(p, r)
        PROVE  PollInv'
    BY <1>1, <2>2, ReconcileKeeps, CheckingKeeps
  <2>3. CASE UpdateRead(p) \/ UpdateWrite(p)
    BY <1>1, <2>3, UpdateKeeps
  <2>4. CASE Spawning(p)
    BY <1>1, <2>4, AskingKeeps, RequestClaimKeeps, SuppressKeeps, SaveRunKeeps, StartTaskKeeps,
       ConfirmSpawningKeeps, SpawnAgentKeeps, QuarantineSpawnKeeps, RecordKeeps,
       ConfirmActiveKeeps, WriteStatusKeeps DEF Spawning
  <2>5. CASE Ending(p)
    BY <1>1, <2>5, ResolvingKeeps, KillAgentKeeps, TerminationKeeps, MarkFailedKeeps DEF Ending
  <2>. QED BY <1>2, <2>1, <2>2, <2>3, <2>4, <2>5 DEF Step
<1>3. ASSUME NEW p \in Procs, Crash(p)
      PROVE  PollInv'
  BY <1>1, <1>3, PollingKeeps
<1>4. ASSUME NEW p \in Procs, NEW r \in Runs, CancelRun(p, r)
      PROVE  PollInv'
  BY <1>1, <1>4, CancelKeeps
<1>5. ASSUME NEW r \in Runs,
             LeaseExpires(r) \/ \E outcome \in AgentOutcomes : AgentEnds(r, outcome)
      PROVE  PollInv'
  BY <1>1, <1>5, SurroundingsKeep
<1>. QED BY <1>2, <1>3, <1>4, <1>5 DEF Next

LEMMA PollInit ==
  ASSUME Init
  PROVE  PollInv
<1>1. TypeOK
  BY IdleOK, EmptyTableIsTable, PollAssumption DEF Init, TypeOK, TaskStatus
<1>2. \A p \in Procs : pop[p] = Idle
  BY DEF Init
<1>3. PollNotes
  BY <1>2, IdleOK DEF PollNotes
<1>4. Phases
  <2>1. PhaseOK(Idle)
    BY IdleOK DEF PhaseOK, Unspawned, Own, Updating
  <2>2. Listed(Idle)
    BY IdleOK DEF Listed, EmptyTable, NoRun
  <2>. QED BY <1>2, <2>1, <2>2 DEF Phases
<1>5. OwnersApart /\ SaveIsFirst
  BY <1>2, IdleOK DEF OwnersApart, SaveIsFirst, Own
<1>6. Rows
  BY PollAssumption DEF Init, Rows, EmptyTable, NoRun
<1>. QED BY <1>1, <1>3, <1>4, <1>5, <1>6 DEF PollInv

LEMMA PollStutter ==
  ASSUME PollInv, UNCHANGED vars
  PROVE  PollInv'
<1>1. TypeOK' /\ PollNotes'
  BY DEF PollInv, TypeOK, PollNotes, vars
<1>2. \A p \in Procs : PhaseOK(pop[p])' /\ Listed(pop[p])'
  BY DEF PollInv, Phases, PhaseOK, Listed, Unspawned, Own, Updating, Killable, vars
<1>3. Rows' /\ OwnersApart' /\ SaveIsFirst'
  BY DEF PollInv, Rows, OwnersApart, SaveIsFirst, Killable, vars
<1>. QED BY <1>1, <1>2, <1>3 DEF PollInv, Phases

LEMMA PollInvariant == Spec => []PollInv
<1>1. Init => PollInv
  BY PollInit
<1>2. PollInv /\ [Next]_vars => PollInv'
  BY PollStep, PollStutter
<1>. QED BY <1>1, <1>2, PTL DEF Spec

\* Every store and every process keeps its type, whatever the pollers and the
\* cancel commands do and wherever they die.
THEOREM PollTypeCorrect == Spec => []TypeOK
<1>1. PollInv => TypeOK
  BY DEF PollInv
<1>. QED BY <1>1, PollInvariant, PTL

\* save deletes the rows of other runs of the task that the unique index covers
\* (INSERT OR REPLACE), and update_status writes whatever the status has become:
\* still the row of a run is there when the metadata of its agent is recorded.
THEOREM RecordFindsRow == Spec => []RowOutlivesSpawn
<1>1. PollInv => RowOutlivesSpawn
  BY OwnFacts DEF RowOutlivesSpawn, PhaseOK
<1>. QED BY <1>1, PollInvariant, PTL

-----------------------------------------------------------------------------
(* Agents and launches *)

\* Only request_launch, confirm_terminated and mark_failed change which launches
\* block their keys.
RegStays ==
  \A r \in Runs :
    /\ reg'[r].key = reg[r].key /\ reg'[r].created = reg[r].created
    /\ reg'[r].status \in LaunchBlocking <=> reg[r].status \in LaunchBlocking

LEMMA MoveStays ==
  ASSUME TypeOK, NEW l \in Runs, NEW from \in SUBSET LaunchBlocking, NEW to \in LaunchBlocking,
         MoveLaunch(l, from, to)
  PROVE  RegStays
BY MoveLaunchFacts DEF RegStays

LEMMA RegSteps ==
  ASSUME TypeOK, PollNotes, Next
  PROVE  \/ RegStays
         \/ \E p \in Procs : ConfirmTerminated(p) \/ MarkFailed(p)
         \/ \E p \in Procs, r \in Runs : RequestClaim(p, r)
<1>0. ASSUME UNCHANGED reg PROVE RegStays
  BY <1>0 DEF RegStays
<1>1. ASSUME NEW p \in Procs,
             RequestFind(p) \/ ConfirmSpawning(p) \/ QuarantineSpawn(p) \/ BeginTermination(p)
      PROVE  RegStays
  <2>1. NotesOK(pop[p])
    BY DEF PollNotes
  <2>2. /\ {"RESERVED"} \in SUBSET LaunchBlocking /\ {"RESERVED", "SPAWNING"} \in SUBSET LaunchBlocking
        /\ {"RESERVED", "SPAWNING", "ACTIVE"} \in SUBSET LaunchBlocking
        /\ {"ACTIVE"} \in SUBSET LaunchBlocking
        /\ "SPAWNING" \in LaunchBlocking /\ "QUARANTINED" \in LaunchBlocking
        /\ "TERMINATING" \in LaunchBlocking
    BY DEF LaunchBlocking, LaunchInFlight
  <2>3. CASE RequestFind(p)
    <3>1. \/ UNCHANGED reg
          \/ \E l \in Runs : MoveLaunch(l, {"RESERVED", "SPAWNING"}, "QUARANTINED")
      BY <2>3 DEF RequestFind, FindActive
    <3>. QED BY <1>0, <2>2, <3>1, MoveStays
  <2>4. CASE ConfirmSpawning(p)
    <3>1. pop[p].run \in Runs
      BY <2>1, <2>4 DEF ConfirmSpawning, NotesOK, Runless, Asking
    <3>. QED BY <2>2, <2>4, <3>1, MoveStays DEF ConfirmSpawning
  <2>5. CASE QuarantineSpawn(p)
    <3>1. pop[p].run \in Runs
      BY <2>1, <2>5 DEF QuarantineSpawn, NotesOK, Runless, Asking
    <3>. QED BY <2>2, <2>5, <3>1, MoveStays DEF QuarantineSpawn, QuarantineLaunch
  <2>6. CASE BeginTermination(p)
    <3>1. pop[p].run \in Runs
      BY <2>1, <2>6 DEF BeginTermination, NotesOK, Runless, Asking
    <3>2. UNCHANGED reg \/ MoveLaunch(pop[p].run, {"ACTIVE"}, "TERMINATING")
      BY <2>6 DEF BeginTermination
    <3>. QED BY <1>0, <2>2, <3>1, <3>2, MoveStays
  <2>. QED BY <1>1, <2>3, <2>4, <2>5, <2>6
<1>2. ASSUME NEW p \in Procs, NEW r \in Runs, Reconcile(p, r)
      PROVE  RegStays
  <2>1. {"RESERVED", "SPAWNING", "ACTIVE"} \in SUBSET LaunchBlocking /\ "QUARANTINED" \in LaunchBlocking
    BY DEF LaunchBlocking, LaunchInFlight
  <2>. QED BY <1>2, <2>1, MoveStays DEF Reconcile, QuarantineLaunch
<1>3. ASSUME NEW p \in Procs, ConfirmActive(p)
      PROVE  RegStays
  <2> DEFINE l == pop[p].run
  <2>1. CASE reg[l].status = "SPAWNING" /\ l \in Runs
    <3>1. reg[l] \in Launch
      BY <2>1 DEF TypeOK, NoLaunch
    <3>2. reg' = [reg EXCEPT ![l] = [reg[l] EXCEPT !.status = "ACTIVE", !.lease = "none"]]
      BY <1>3, <2>1 DEF ConfirmActive, TypeOK
    <3>3. /\ [reg[l] EXCEPT !.status = "ACTIVE", !.lease = "none"].status = "ACTIVE"
          /\ [reg[l] EXCEPT !.status = "ACTIVE", !.lease = "none"].key = reg[l].key
          /\ [reg[l] EXCEPT !.status = "ACTIVE", !.lease = "none"].created = reg[l].created
      BY <3>1 DEF Launch
    <3>. QED BY <2>1, <3>2, <3>3 DEF RegStays, TypeOK, LaunchBlocking, LaunchInFlight
  <2>2. CASE reg[l].status # "SPAWNING"
    BY <1>0, <1>3, <2>2 DEF ConfirmActive
  <2>3. l \in Runs
    BY <1>3 DEF PollNotes, NotesOK, ConfirmActive, Runless, Asking
  <2>. QED BY <2>1, <2>2, <2>3
<1>4. ASSUME NEW r \in Runs, LeaseExpires(r)
      PROVE  RegStays
  <2>1. reg[r] \in Launch
    BY <1>4 DEF LeaseExpires, TypeOK, NoLaunch
  <2>2. reg' = [reg EXCEPT ![r] = [reg[r] EXCEPT !.lease = "expired"]]
    BY <1>4 DEF LeaseExpires, TypeOK
  <2>3. /\ [reg[r] EXCEPT !.lease = "expired"].status = reg[r].status
        /\ [reg[r] EXCEPT !.lease = "expired"].key = reg[r].key
        /\ [reg[r] EXCEPT !.lease = "expired"].created = reg[r].created
    BY <2>1 DEF Launch
  <2>. QED BY <2>2, <2>3 DEF RegStays, TypeOK
<1>5. ASSUME NEW p \in Procs, Step(p)
      PROVE  \/ RegStays
             \/ ConfirmTerminated(p) \/ MarkFailed(p)
             \/ \E r \in Runs : RequestClaim(p, r)
  <2>1. CASE Spawning(p)
    <3>1. CASE RequestLost(p) \/ SaveRun(p) \/ StartTask(p) \/ SpawnAgent(p)
               \/ RecordMetadata(p) \/ WriteStatus(p) \/ \E r \in Runs : Suppress(p, r)
      BY <1>0, <3>1
      DEF RequestLost, SaveRun, StartTask, SpawnAgent, RecordMetadata, WriteStatus, Suppress
    <3>. QED BY <1>1, <1>3, <2>1, <3>1 DEF Spawning
  <2>2. CASE Ending(p)
    <3>1. CASE Terminate(p) \/ KillAgent(p) \/ CompleteTask(p) \/ FailRun(p) \/ Retry(p)
      BY <1>0, <3>1 DEF Terminate, KillAgent, CompleteTask, FailRun, Retry
    <3>. QED BY <1>1, <2>2, <3>1 DEF Ending
  <2>3. CASE UpdateRead(p) \/ UpdateWrite(p)
    BY <1>0, <2>3 DEF UpdateRead, UpdateWrite
  <2>4. ASSUME NEW r \in Runs,
               \/ Reconcile(p, r)
               \/ CheckTimesOut(p, r) \/ CheckLeaves(p, r)
               \/ CheckFails(p, r) \/ CheckCompletes(p, r)
        PROVE  RegStays
    BY <1>0, <1>2, <2>4 DEF CheckTimesOut, CheckLeaves, CheckFails, CheckCompletes
  <2>5. CASE \/ PollOnce(p) \/ PollList(p) \/ PollApproved(p) \/ PollFilter(p) \/ PollDone(p)
             \/ \E t \in Tasks : PickTask(p, t)
             \/ CheckRuns(p) \/ CheckDone(p)
    BY <1>0, <2>5 DEF PollOnce, PollList, PollApproved, PollFilter, PollDone, PickTask,
                      CheckRuns, CheckDone
  <2>. QED BY <1>5, <2>1, <2>2, <2>3, <2>4, <2>5 DEF Step
<1>6. ASSUME NEW p \in Procs, Crash(p) \/ \E r \in Runs : CancelRun(p, r)
      PROVE  RegStays
  BY <1>0, <1>6 DEF Crash, CancelRun
<1>7. ASSUME NEW r \in Runs, NEW outcome \in AgentOutcomes, AgentEnds(r, outcome)
      PROVE  RegStays
  BY <1>0, <1>7 DEF AgentEnds
<1>. QED BY <1>4, <1>5, <1>6, <1>7 DEF Next

\* An agent is spawned once, and once it has ended it stays so.
AgentsEndOnly == \A r \in Runs : agent'[r] = agent[r] \/ (agent[r] = "alive" /\ agent'[r] = "ended")

LEMMA AgentSteps ==
  ASSUME TypeOK, PollNotes, Next
  PROVE  AgentsEndOnly \/ \E p \in Procs : SpawnAgent(p)
<1>0. ASSUME UNCHANGED agent PROVE AgentsEndOnly
  BY <1>0 DEF AgentsEndOnly
<1>1. ASSUME NEW p \in Procs, KillAgent(p) PROVE AgentsEndOnly
  BY <1>1 DEF KillAgent, Kill, AgentsEndOnly, TypeOK
<1>2. ASSUME NEW r \in Runs, NEW outcome \in AgentOutcomes, AgentEnds(r, outcome)
      PROVE  AgentsEndOnly
  BY <1>2 DEF AgentEnds, AgentsEndOnly, TypeOK
<1>3. ASSUME NEW p \in Procs, Step(p)
      PROVE  AgentsEndOnly \/ SpawnAgent(p)
  <2>1. CASE Spawning(p)
    <3>1. CASE RequestFind(p) \/ RequestLost(p) \/ SaveRun(p) \/ StartTask(p) \/ ConfirmSpawning(p)
      BY <1>0, <3>1 DEF RequestFind, RequestLost, SaveRun, StartTask, ConfirmSpawning
    <3>2. CASE \/ QuarantineSpawn(p) \/ RecordMetadata(p) \/ ConfirmActive(p) \/ WriteStatus(p)
               \/ \E r \in Runs : RequestClaim(p, r) \/ Suppress(p, r)
      BY <1>0, <3>2 DEF QuarantineSpawn, RecordMetadata, ConfirmActive, WriteStatus,
                        RequestClaim, Suppress
    <3>. QED BY <2>1, <3>1, <3>2 DEF Spawning
  <2>2. CASE Ending(p)
    <3>1. CASE \/ Terminate(p) \/ CompleteTask(p) \/ BeginTermination(p) \/ ConfirmTerminated(p)
               \/ FailRun(p) \/ MarkFailed(p) \/ Retry(p)
      BY <1>0, <3>1 DEF Terminate, CompleteTask, BeginTermination, ConfirmTerminated,
                        FailRun, MarkFailed, Retry
    <3>. QED BY <1>1, <2>2, <3>1 DEF Ending
  <2>3. CASE UpdateRead(p) \/ UpdateWrite(p)
    BY <1>0, <2>3 DEF UpdateRead, UpdateWrite
  <2>4. ASSUME NEW r \in Runs,
               \/ Reconcile(p, r)
               \/ CheckTimesOut(p, r) \/ CheckLeaves(p, r)
               \/ CheckFails(p, r) \/ CheckCompletes(p, r)
        PROVE  AgentsEndOnly
    BY <1>0, <2>4 DEF Reconcile, CheckTimesOut, CheckLeaves, CheckFails, CheckCompletes
  <2>5. CASE \/ PollOnce(p) \/ PollList(p) \/ PollApproved(p) \/ PollFilter(p) \/ PollDone(p)
             \/ \E t \in Tasks : PickTask(p, t)
             \/ CheckRuns(p) \/ CheckDone(p)
    BY <1>0, <2>5 DEF PollOnce, PollList, PollApproved, PollFilter, PollDone, PickTask,
                      CheckRuns, CheckDone
  <2>. QED BY <1>3, <2>1, <2>2, <2>3, <2>4, <2>5 DEF Step
<1>4. ASSUME NEW p \in Procs, Crash(p) \/ \E r \in Runs : CancelRun(p, r)
      PROVE  AgentsEndOnly
  BY <1>0, <1>4 DEF Crash, CancelRun
<1>5. ASSUME NEW r \in Runs, LeaseExpires(r) PROVE AgentsEndOnly
  BY <1>0, <1>5 DEF LeaseExpires
<1>. QED BY <1>2, <1>3, <1>4, <1>5 DEF Next

LEMMA OneMoves ==
  ASSUME PollInv, Next
  PROVE  \/ \E p \in Procs : /\ OthersStay(p)
                             /\ Step(p) \/ Crash(p) \/ \E r \in Runs : CancelRun(p, r)
         \/ UNCHANGED pop
<1>1. TypeOK /\ PollNotes /\ \A p \in Procs : pop[p].at = "record" => runs[pop[p].run] # NoRun
  BY OwnFacts DEF PhaseOK, PollInv
<1>2. ASSUME NEW p \in Procs, \E o : Moves(p, o) PROVE OthersStay(p)
  BY <1>2 DEF Moves, OthersStay
<1>3. ASSUME NEW p \in Procs, Step(p) PROVE \E o : Moves(p, o)
  BY <1>1, <1>3, PollingMoves, UpdatingMoves, SpawningMoves, EndingMoves, CheckingMoves DEF Step
<1>4. ASSUME NEW p \in Procs, Crash(p) \/ \E r \in Runs : CancelRun(p, r)
      PROVE  \E o : Moves(p, o)
  BY <1>1, <1>4, CancelAndCrashMove
<1>. QED BY <1>2, <1>3, <1>4 DEF Next, LeaseExpires, AgentEnds

\* The methods that kill come past the kill by the kill alone.
LEMMA KilledSteps ==
  ASSUME PollInv, PollNotes', NEW p \in Procs,
         Step(p) \/ Crash(p) \/ \E r \in Runs : CancelRun(p, r),
         Killed(pop[p])'
  PROVE  /\ pop'[p].run = pop[p].run
         /\ Killed(pop[p]) \/ (KillAgent(p) /\ pop[p].flow \in {"fail", "complete"})
<1>0. /\ TypeOK /\ NotesOK(pop[p]) /\ pop[p] \in Operation /\ PollNotes
  BY OwnFacts
<1>1. /\ pop'[p].flow \in {"fail", "complete"}
      /\ pop'[p].at \notin Runless \cup Asking \cup Launching
      /\ pop'[p].at \notin {"fail", "terminate", "kill"}
      /\ pop'[p].at \in Updating => pop'[p].then # "kill"
  BY DEF Killed, PollNotes, NotesOK, Updating
<1>2. ASSUME Resting(p) PROVE FALSE
  BY <1>1, <1>2 DEF Resting
<1>3. ASSUME NEW label \in Runless \cup Asking \cup Launching \cup {"kill", "terminate"},
             Go(p, label)
      PROVE  FALSE
  BY <1>0, <1>1, <1>3, GoFields
<1>4. /\ pop'[p].at # "update" \/ pop'[p].then # "kill"
      /\ pop'[p].flow \notin {"none", "spawn", "denied", "cancel"}
  BY <1>1 DEF Updating
<1>5. CASE \/ PollOnce(p) \/ PollDone(p) \/ CheckDone(p) \/ Crash(p)
  BY <1>0, <1>2, <1>5, ReturnsRest DEF PollDone
<1>6. CASE \/ PollList(p) \/ PollApproved(p) \/ PollFilter(p) \/ CheckRuns(p)
           \/ \E t \in Tasks : PickTask(p, t)
  <2>1. ASSUME NEW label \in Runless, NEW S,
               pop'[p] = [pop[p] EXCEPT !.at = label, !.cand = S]
        PROVE  FALSE
    <3>1. pop'[p].at = label
      BY <1>0, <2>1 DEF Operation
    <3>. QED BY <1>1, <3>1
  <2>2. CASE PollList(p)
    <3>1. \/ PollReturns(p)
          \/ \E n, S : Become(p, [pop[p] EXCEPT !.at = "approved", !.avail = n, !.cand = S])
      BY <2>2 DEF PollList
    <3>2. ASSUME NEW n, NEW S, Become(p, [pop[p] EXCEPT !.at = "approved", !.avail = n, !.cand = S])
          PROVE  FALSE
      <4>1. pop'[p] = [pop[p] EXCEPT !.at = "approved", !.avail = n, !.cand = S]
        BY <1>0, <3>2, BecomeFields
      <4>2. pop'[p].at = "approved"
        BY <1>0, <4>1 DEF Operation
      <4>. QED BY <1>1, <4>2 DEF Runless
    <3>. QED BY <1>0, <1>2, <3>1, <3>2, ReturnsRest
  <2>3. CASE PollApproved(p)
    <3>1. PICK S : Become(p, [pop[p] EXCEPT !.at = "filter", !.cand = S])
      BY <2>3 DEF PollApproved
    <3>2. pop'[p] = [pop[p] EXCEPT !.at = "filter", !.cand = S]
      BY <1>0, <3>1, BecomeFields
    <3>. QED BY <2>1, <3>2 DEF Runless
  <2>4. CASE PollFilter(p)
    <3>1. PICK S : Become(p, [pop[p] EXCEPT !.at = "pick", !.cand = S])
      BY <2>4 DEF PollFilter
    <3>2. pop'[p] = [pop[p] EXCEPT !.at = "pick", !.cand = S]
      BY <1>0, <3>1, BecomeFields
    <3>. QED BY <2>1, <3>2 DEF Runless
  <2>5. ASSUME NEW t \in Tasks, PickTask(p, t) PROVE FALSE
    <3>1. PICK n, S : Become(p, [pop[p] EXCEPT !.at = "find", !.flow = "spawn", !.task = t,
                                               !.cand = S, !.avail = n])
      BY <2>5 DEF PickTask
    <3>2. pop'[p] = [pop[p] EXCEPT !.at = "find", !.flow = "spawn", !.task = t,
                                   !.cand = S, !.avail = n]
      BY <1>0, <3>1, BecomeFields
    <3>3. pop'[p].at = "find"
      BY <1>0, <3>2 DEF Operation
    <3>. QED BY <1>1, <3>3 DEF Asking
  <2>6. CASE CheckRuns(p)
    <3>1. PICK S : Become(p, [Idle EXCEPT !.at = "check", !.snap = S])
      BY <2>6 DEF CheckRuns
    <3>2. pop'[p] = [Idle EXCEPT !.at = "check", !.snap = S]
      BY <1>0, <3>1, BecomeFields
    <3>3. pop'[p].flow = "none"
      BY <3>2, IdleOK DEF Operation
    <3>. QED BY <1>4, <3>3
  <2>. QED BY <1>6, <2>2, <2>3, <2>4, <2>5, <2>6
<1>7. CASE UpdateRead(p) \/ UpdateWrite(p)
  <2>1. CASE Raise(p)
    BY <1>0, <1>2, <2>1, ReturnsRest
  <2>2. CASE UpdateRead(p) /\ Go(p, "write")
    <3>1. /\ pop'[p].run = pop[p].run /\ pop'[p].flow = pop[p].flow
          /\ pop'[p].then = pop[p].then /\ pop'[p].at = "write" /\ pop[p].at = "update"
      BY <1>0, <2>2, GoFields DEF UpdateRead
    <3>. QED BY <1>1, <3>1 DEF Killed, Updating
  <2>3. CASE UpdateWrite(p) /\ Updated(p)
    <3>1. /\ pop'[p].run = pop[p].run /\ pop'[p].flow = pop[p].flow
          /\ pop'[p].at = pop[p].then /\ pop[p].at = "write"
      BY <1>0, <2>3, UpdatedFields DEF UpdateWrite
    <3>. QED BY <1>1, <3>1 DEF Killed, Updating
  <2>. QED BY <1>7, <2>1, <2>2, <2>3 DEF UpdateRead, UpdateWrite
<1>8. CASE Spawning(p)
  <2>1. pop[p].flow = "spawn"
    BY <1>0, <1>8
    DEF Spawning, RequestFind, RequestLost, SaveRun, StartTask, ConfirmSpawning, SpawnAgent,
        QuarantineSpawn, RecordMetadata, ConfirmActive, WriteStatus, RequestClaim, Suppress,
        NotesOK, Asking, Launching
  <2>2. ASSUME NEW status, NEW then, UpdateStatus(p, status, then) PROVE FALSE
    BY <1>0, <1>1, <2>1, <2>2, UpdateStatusFields
  <2>3. ASSUME NEW label, Go(p, label) PROVE FALSE
    BY <1>0, <1>1, <2>1, <2>3, GoFields
  <2>4. CASE RequestFind(p) \/ RequestLost(p) \/ SaveRun(p) \/ ConfirmSpawning(p)
             \/ SpawnAgent(p) \/ RecordMetadata(p) \/ ConfirmActive(p)
    BY <2>2, <2>3, <2>4
    DEF RequestFind, RequestLost, SaveRun, ConfirmSpawning, SpawnAgent, RecordMetadata, ConfirmActive
  <2>5. CASE QuarantineSpawn(p) \/ WriteStatus(p) \/ \E r \in Runs : Suppress(p, r)
    BY <1>0, <1>2, <2>5, ReturnsRest DEF QuarantineSpawn, WriteStatus, Suppress
  <2>6. CASE StartTask(p)
    <3>1. ASSUME Become(p, [pop[p] EXCEPT !.at = "update", !.flow = "denied",
                                          !.target = "FAILED", !.then = "mark_failed"])
          PROVE  FALSE
      <4>1. pop'[p] = [pop[p] EXCEPT !.at = "update", !.flow = "denied",
                                     !.target = "FAILED", !.then = "mark_failed"]
        BY <1>0, <3>1, BecomeFields
      <4>2. pop'[p].flow = "denied"
        BY <1>0, <4>1 DEF Operation
      <4>. QED BY <1>4, <4>2
    <3>. QED BY <1>0, <1>2, <2>2, <2>6, <3>1, ReturnsRest DEF StartTask
  <2>7. ASSUME NEW r \in Runs, RequestClaim(p, r) PROVE FALSE
    <3>1. pop'[p] = [pop[p] EXCEPT !.at = "save", !.run = r]
      BY <1>0, <2>7, BecomeFields DEF RequestClaim
    <3>2. pop'[p].flow = "spawn"
      BY <1>0, <2>1, <3>1 DEF Operation
    <3>. QED BY <1>4, <3>2
  <2>. QED BY <1>8, <2>4, <2>5, <2>6, <2>7 DEF Spawning
<1>9. CASE Ending(p)
  <2>1. CASE Terminate(p)
    <3>1. \E h : \/ Become(p, [pop[p] EXCEPT !.handle = h, !.at = "kill"])
                 \/ Become(p, [pop[p] EXCEPT !.handle = h, !.at = "update",
                                             !.target = "TERMINATING", !.then = "kill"])
                 \/ Become(p, [pop[p] EXCEPT !.handle = h, !.at = "update",
                                             !.target = "CANCELLED", !.then = "kill"])
      BY <2>1 DEF Terminate
    <3>2. \E h : \/ pop'[p] = [pop[p] EXCEPT !.handle = h, !.at = "kill"]
                 \/ pop'[p] = [pop[p] EXCEPT !.handle = h, !.at = "update",
                                             !.target = "TERMINATING", !.then = "kill"]
                 \/ pop'[p] = [pop[p] EXCEPT !.handle = h, !.at = "update",
                                             !.target = "CANCELLED", !.then = "kill"]
      BY <1>0, <3>1, BecomeFields
    <3>3. pop'[p].at = "kill" \/ (pop'[p].at = "update" /\ pop'[p].then = "kill")
      BY <1>0, <3>2 DEF Operation
    <3>. QED BY <1>1, <1>4, <3>3
  <2>2. CASE FailRun(p)
    <3>1. PICK f : Become(p, [pop[p] EXCEPT !.at = "terminate", !.found = f])
      BY <2>2 DEF FailRun
    <3>2. pop'[p] = [pop[p] EXCEPT !.at = "terminate", !.found = f]
      BY <1>0, <3>1, BecomeFields
    <3>3. pop'[p].at = "terminate"
      BY <1>0, <3>2 DEF Operation
    <3>. QED BY <1>1, <3>3
  <2>3. CASE KillAgent(p)
    <3>1. pop[p].flow \in {"fail", "complete", "cancel"}
      BY <1>0, <2>3 DEF KillAgent, NotesOK
    <3>2. \/ Go(p, "complete_task") \/ Go(p, "retry") \/ UpdateStatus(p, "FAILED", "mark_failed")
      BY <2>3, <3>1 DEF KillAgent, AfterKill
    <3>3. pop'[p].run = pop[p].run /\ pop'[p].flow = pop[p].flow
      BY <1>0, <3>2, GoFields, UpdateStatusFields
    <3>. QED BY <1>1, <2>3, <3>3
  <2>4. CASE CompleteTask(p)
    <3>1. pop'[p].run = pop[p].run /\ pop'[p].flow = pop[p].flow
      BY <1>0, <2>4, UpdateStatusFields DEF CompleteTask
    <3>. QED BY <1>1, <2>4, <3>1 DEF Killed, CompleteTask, Updating
  <2>5. CASE BeginTermination(p) \/ ConfirmTerminated(p) \/ MarkFailed(p) \/ Retry(p)
    <3>1. \/ NextRun(p) \/ NextTask(p) \/ Raise(p) \/ Become(p, Idle)
          \/ Go(p, "confirm_terminated") \/ Go(p, "retry")
      BY <2>5 DEF BeginTermination, ConfirmTerminated, MarkFailed, Retry
    <3>2. pop'[p].run = pop[p].run /\ pop'[p].flow = pop[p].flow
      BY <1>0, <1>2, <3>1, ReturnsRest, GoFields
    <3>. QED BY <1>1, <2>5, <3>2
          DEF Killed, BeginTermination, ConfirmTerminated, MarkFailed, Retry, Updating
  <2>. QED BY <1>9, <2>1, <2>2, <2>3, <2>4, <2>5 DEF Ending
<1>10. ASSUME NEW r \in Runs,
              \/ Reconcile(p, r)
              \/ CheckTimesOut(p, r) \/ CheckLeaves(p, r)
              \/ CheckFails(p, r) \/ CheckCompletes(p, r)
       PROVE  FALSE
  <2>1. pop[p].flow = "none"
    BY <1>0, <1>10 DEF Reconcile, CheckTimesOut, CheckLeaves, CheckFails, CheckCompletes,
                       NotesOK, Runless
  <2>2. CASE Reconcile(p, r)
    <3>1. PICK S : Become(p, [pop[p] EXCEPT !.todo = S])
      BY <2>2 DEF Reconcile
    <3>2. pop'[p] = [pop[p] EXCEPT !.todo = S]
      BY <1>0, <3>1, BecomeFields
    <3>3. pop'[p].flow = "none"
      BY <1>0, <2>1, <3>2 DEF Operation
    <3>. QED BY <1>4, <3>3
  <2>3. CASE CheckLeaves(p, r)
    <3>1. PICK S : Become(p, [pop[p] EXCEPT !.snap = S])
      BY <2>3 DEF CheckLeaves
    <3>2. pop'[p] = [pop[p] EXCEPT !.snap = S]
      BY <1>0, <3>1, BecomeFields
    <3>3. pop'[p].flow = "none"
      BY <1>0, <2>1, <3>2 DEF Operation
    <3>. QED BY <1>4, <3>3
  <2>4. CASE CheckTimesOut(p, r)
    <3>1. PICK S : Become(p, [pop[p] EXCEPT !.at = "update", !.run = r, !.snap = S,
                                            !.target = "QUARANTINED", !.then = "check"])
      BY <2>4 DEF CheckTimesOut
    <3>2. pop'[p] = [pop[p] EXCEPT !.at = "update", !.run = r, !.snap = S,
                                   !.target = "QUARANTINED", !.then = "check"]
      BY <1>0, <3>1, BecomeFields
    <3>3. pop'[p].flow = "none"
      BY <1>0, <2>1, <3>2 DEF Operation
    <3>. QED BY <1>4, <3>3
  <2>5. ASSUME NEW label \in {"fail", "terminate"}, NEW flow, Check(p, r, label, flow)
        PROVE  FALSE
    <3>1. PICK t, S : Become(p, [pop[p] EXCEPT !.at = label, !.flow = flow, !.run = r,
                                               !.task = t, !.snap = S])
      BY <2>5 DEF Check
    <3>2. pop'[p] = [pop[p] EXCEPT !.at = label, !.flow = flow, !.run = r,
                                   !.task = t, !.snap = S]
      BY <1>0, <3>1, BecomeFields
    <3>3. pop'[p].at = label
      BY <1>0, <3>2 DEF Operation
    <3>. QED BY <1>1, <3>3
  <2>. QED BY <1>10, <2>2, <2>3, <2>4, <2>5 DEF CheckFails, CheckCompletes
<1>11. ASSUME NEW r \in Runs, CancelRun(p, r) PROVE FALSE
  <2>1. PICK t : Become(p, [Idle EXCEPT !.at = "update", !.flow = "cancel", !.run = r, !.task = t,
                                        !.target = "CANCELLED", !.then = "terminate"])
    BY <1>11 DEF CancelRun
  <2>2. pop'[p] = [Idle EXCEPT !.at = "update", !.flow = "cancel", !.run = r, !.task = t,
                               !.target = "CANCELLED", !.then = "terminate"]
    BY <1>0, <2>1, BecomeFields
  <2>3. pop'[p].flow = "cancel"
    BY <2>2, IdleOK DEF Operation
  <2>. QED BY <1>4, <2>3
<1>. QED BY <1>5, <1>6, <1>7, <1>8, <1>9, <1>10, <1>11 DEF Step

LEMMA KillStep ==
  ASSUME ~KillFails, PollInv, PollInv', KillInv, Next
  PROVE  KillInv'
<1>0. TypeOK /\ PollNotes /\ PollNotes' /\ Rows
  BY DEF PollInv
<1>1. ASSUME NEW p \in Procs, SpawnAgent(p)
      PROVE  /\ pop[p].run \in Runs /\ agent[pop[p].run] = "none"
             /\ reg[pop[p].run].status \in LaunchBlocking /\ UNCHANGED reg
             /\ \A r \in Runs : agent'[r] = agent[r] \/ r = pop[p].run
  <2>1. NotesOK(pop[p]) /\ PhaseOK(pop[p]) /\ pop[p].at = "spawn"
    BY <1>1, OwnFacts DEF SpawnAgent
  <2>2. pop[p].run \in Runs /\ Unspawned(pop[p])
    BY <2>1, NoneIsNoRun DEF NotesOK, Runless, Asking, Launching, Unspawned, Own
  <2>. QED BY <1>0, <1>1, <2>1, <2>2 DEF PhaseOK, SpawnAgent, TypeOK
<1>2. \A r \in Runs : agent[r] = "ended" => agent'[r] = "ended"
  BY <1>0, <1>1, AgentSteps DEF AgentsEndOnly
<1>3. KilledIsDead'
  <2> SUFFICES ASSUME NEW p \in Procs, Killed(pop[p])'
               PROVE  agent'[pop'[p].run] = "ended"
    BY DEF KilledIsDead
  <2>1. CASE pop'[p] = pop[p]
    <3>1. Killed(pop[p])
      BY <2>1 DEF Killed, Updating
    <3>2. pop[p].run \in Runs
      BY <1>0, <3>1 DEF PollNotes, NotesOK, Killed, Runless, Asking
    <3>. QED BY <1>2, <2>1, <3>1, <3>2 DEF KillInv, KilledIsDead
  <2>2. CASE Step(p) \/ Crash(p) \/ \E r \in Runs : CancelRun(p, r)
    <3>1. /\ pop'[p].run = pop[p].run
          /\ Killed(pop[p]) \/ (KillAgent(p) /\ pop[p].flow \in {"fail", "complete"})
      BY <1>0, <2>2, KilledSteps
    <3>2. pop[p].run \in Runs /\ Killable(pop[p].run)
      BY <1>0, <3>1, OwnFacts DEF NotesOK, PhaseOK, Killed, KillAgent, Runless, Asking
    <3>3. CASE Killed(pop[p])
      BY <1>2, <3>1, <3>2, <3>3 DEF KillInv, KilledIsDead
    <3>4. CASE KillAgent(p)
      <4>1. CASE agent[pop[p].run] = "ended"
        BY <1>2, <3>1, <3>2, <4>1
      <4>2. CASE event[pop[p].run]
        <5>1. agent[pop[p].run] \in {"alive", "ended"}
          BY <1>0, <3>2, <4>2 DEF Rows, TypeOK
        <5>2. Kill(pop[p].run)
          BY <3>4, <4>2 DEF KillAgent
        <5>. QED BY <1>0, <3>1, <3>2, <5>1, <5>2 DEF Kill, TypeOK
      <4>. QED BY <3>2, <4>1, <4>2 DEF Killable
    <3>. QED BY <3>1, <3>3, <3>4
  <2>. QED BY <2>1, <2>2, OneMoves DEF OthersStay
<1>4. LiveAgentHoldsLaunch'
  <2> SUFFICES ASSUME NEW r \in Runs, agent'[r] = "alive"
               PROVE  reg'[r].status \in LaunchBlocking
    BY DEF LiveAgentHoldsLaunch, Alive
  <2>1. CASE agent[r] = "alive"
    <3>1. reg[r].status \in LaunchBlocking
      BY <2>1 DEF KillInv, LiveAgentHoldsLaunch, Alive
    <3>2. CASE RegStays
      BY <3>1, <3>2 DEF RegStays
    <3>3. ASSUME NEW p \in Procs, ConfirmTerminated(p) \/ MarkFailed(p)
          PROVE  reg'[r].status \in LaunchBlocking
      <4>1. /\ pop[p].at \in {"confirm_terminated", "mark_failed"}
            /\ NotesOK(pop[p]) /\ PhaseOK(pop[p])
        BY <3>3, OwnFacts DEF ConfirmTerminated, MarkFailed
      <4>2. pop[p].run \in Runs /\ pop[p].flow \in {"fail", "complete", "denied"}
        BY <4>1 DEF NotesOK, Runless, Asking
      <4>3. agent[pop[p].run] # "alive"
        <5>1. CASE pop[p].flow = "denied"
          BY <4>1, <4>2, <5>1, NoneIsNoRun DEF PhaseOK, Unspawned, Own
        <5>2. CASE pop[p].flow \in {"fail", "complete"}
          BY <4>1, <5>2 DEF KillInv, KilledIsDead, Killed, Updating
        <5>. QED BY <4>2, <5>1, <5>2
      <4>4. \/ UNCHANGED reg
            \/ MoveLaunch(pop[p].run, LaunchBlocking, "FAILED")
            \/ MoveLaunch(pop[p].run, {"TERMINATING"}, "TERMINATED")
        BY <3>3 DEF ConfirmTerminated, MarkFailed, FailLaunch
      <4>5. reg'[r] = reg[r]
        BY <1>0, <2>1, <4>2, <4>3, <4>4 DEF MoveLaunch, TypeOK
      <4>. QED BY <3>1, <4>5
    <3>4. ASSUME NEW p \in Procs, NEW s \in Runs, RequestClaim(p, s)
          PROVE  reg'[r].status \in LaunchBlocking
      <4>1. r # s
        BY <3>1, <3>4 DEF RequestClaim, Fresh, NoLaunch, LaunchBlocking, LaunchInFlight
      <4>. QED BY <3>1, <3>4, <4>1 DEF RequestClaim
    <3>. QED BY <1>0, <3>2, <3>3, <3>4, RegSteps
  <2>2. CASE agent[r] # "alive"
    <3>1. PICK p \in Procs : SpawnAgent(p)
      BY <1>0, <2>2, AgentSteps DEF AgentsEndOnly
    <3>. QED BY <1>1, <2>2, <3>1
  <2>. QED BY <2>1, <2>2
<1>. QED BY <1>3, <1>4 DEF KillInv

LEMMA KillInvariant ==
  ASSUME ~KillFails
  PROVE  Spec => []KillInv
<1>1. Init => KillInv
  BY IdleOK DEF Init, KillInv, KilledIsDead, Killed, LiveAgentHoldsLaunch, Alive
<1>2. PollInv /\ PollInv' /\ KillInv /\ Next => KillInv'
  BY KillStep
<1>3. KillInv /\ UNCHANGED vars => KillInv'
  BY DEF KillInv, KilledIsDead, Killed, LiveAgentHoldsLaunch, Alive, Updating, vars
<1>4. PollInv /\ PollInv' /\ KillInv /\ [Next]_vars => KillInv'
  BY <1>2, <1>3
<1>. QED BY <1>1, <1>4, PollInvariant, PTL DEF Spec

\* mark_failed and confirm_terminated release the launch of a run, and the next
\* poll takes its task.  They come after _terminate_spawned_agent, which finds
\* the agent by the row or by the event; that both can be missing is left to a
\* run that is not in the hands of _fail_run or _complete_run (Killable).  Where
\* tmux does what it is asked to, an agent that is alive has a launch that
\* blocks its task, for any number of pollers and cancel commands.
THEOREM AgentsHoldLaunches ==
  ASSUME ~KillFails
  PROVE  Spec => []LiveAgentHoldsLaunch
<1>1. KillInv => LiveAgentHoldsLaunch
  BY DEF KillInv
<1>. QED BY <1>1, KillInvariant, PTL

-----------------------------------------------------------------------------
(* One launch of a task at a time *)

LEMMA NewestBlocks ==
  ASSUME TypeOK, CreatedIsBounded, NEW t, FindActive(t) = {}
  PROVE  Unblocked(t)
<1> DEFINE blocking == {r \in Runs : reg[r].key = t /\ reg[r].status \in LaunchBlocking}
           bound == Cardinality(Runs) + 1
           ages == {bound - reg[r].created : r \in blocking}
<1>1. bound \in Nat
  BY CountRuns
<1>2. \A r \in blocking : reg[r].created \in Nat /\ reg[r].created <= bound
  BY DEF TypeOK, Launch, NoLaunch, CreatedIsBounded
<1>3. ages \in SUBSET Nat
  BY <1>1, <1>2
<1>4. ASSUME blocking # {} PROVE FALSE
  <2>1. PICK a \in ages : \A b \in ages : ~(<<b, a>> \in {ss \in Nat \X Nat : ss[1] < ss[2]})
    <3>1. IsWellFoundedOn({ss \in Nat \X Nat : ss[1] < ss[2]}, Nat)
      BY NatLessThanWellFounded, Zenon DEF OpToRel
    <3>2. ages # {}
      BY <1>4
    <3> HIDE DEF ages
    <3>. QED BY <1>3, <3>1, <3>2, WFMin
  <2>2. PICK r \in blocking : a = bound - reg[r].created
    OBVIOUS
  <2>3. ASSUME NEW s \in blocking PROVE reg[s].created <= reg[r].created
    <3>1. bound - reg[s].created \in ages
      OBVIOUS
    <3>2. a \in Nat /\ bound - reg[s].created \in Nat
      BY <1>1, <1>2, <2>2
    <3>3. ~(bound - reg[s].created < a)
      BY <2>1, <3>1, <3>2
    <3>. QED BY <1>1, <1>2, <2>2, <3>3
  <2>. QED BY <2>3 DEF FindActive
<1>. QED BY <1>4 DEF Unblocked

\* Where the helpers leave the candidates.
LEMMA ReturnsAway ==
  ASSUME TypeOK, NEW p \in Procs,
         \/ Become(p, Idle) \/ Raise(p) \/ PollReturns(p) \/ NextRun(p)
         \/ PollOnce(p) \/ CheckDone(p) \/ Crash(p)
  PROVE  /\ pop'[p].at \in {"idle", "list_active", "check", "reconcile"} /\ pop'[p].flow = "none"
         /\ pop'[p].at = "reconcile" => p \in Pollers
<1>1. Idle \in Operation
  BY IdleOK
<1>2. CASE Become(p, Idle) \/ Raise(p) \/ CheckDone(p) \/ Crash(p)
  BY <1>2, IdleOK, BecomeFields DEF Raise, CheckDone, Crash
<1>3. CASE PollReturns(p)
  <2>1. pop'[p] = [Idle EXCEPT !.at = "list_active"]
    BY <1>3, BecomeFields DEF PollReturns
  <2>. QED BY <1>1, <2>1, IdleOK DEF Operation
<1>4. CASE NextRun(p)
  <2>1. pop'[p] = [Idle EXCEPT !.at = "check", !.snap = pop[p].snap]
    BY <1>4, BecomeFields DEF NextRun
  <2>. QED BY <1>1, <2>1, IdleOK DEF Operation
<1>5. CASE PollOnce(p)
  <2>1. pop'[p] = [Idle EXCEPT !.at = "reconcile", !.todo = Expired]
    BY <1>5, BecomeFields DEF PollOnce
  <2>2. pop'[p].at = "reconcile" /\ pop'[p].flow = "none"
    BY <1>1, <2>1, IdleOK DEF Operation
  <2>. QED BY <1>5, <2>2 DEF PollOnce
<1>. QED BY <1>2, <1>3, <1>4, <1>5

LEMMA NextTaskFields ==
  ASSUME TypeOK, NEW p \in Procs, NextTask(p)
  PROVE  /\ pop'[p].at = "pick" /\ pop'[p].flow = "none" /\ pop'[p].cand = pop[p].cand
         /\ pop'[p].avail = pop[p].avail
<1>1. pop'[p] = [Idle EXCEPT !.at = "pick", !.cand = pop[p].cand, !.avail = pop[p].avail]
  BY BecomeFields DEF NextTask
<1>. QED BY <1>1, IdleOK DEF Operation

\* The process is choosing a task, or spawning one it has chosen.
Choosing(o) == o.at \in {"reconcile", "approved", "filter", "pick"} \/ o.flow \in {"spawn", "denied"}

Spawns(o) == o.flow \in {"spawn", "denied"}

\* How a process comes by its candidates.
KeepsCandidates(p) ==
  /\ Spawns(pop'[p]) \/ pop'[p].at = "pick"
  /\ Spawns(pop[p])
  /\ pop'[p].cand = pop[p].cand
  /\ Spawns(pop'[p]) => pop'[p].task = pop[p].task
  /\ pop'[p].at # "find" /\ (pop'[p].at = "claim" => pop[p].at = "find")

FiltersCandidates(p) ==
  /\ pop[p].at = "filter" /\ pop'[p].at = "pick" /\ pop'[p].flow = "none"
  /\ pop'[p].cand = {t \in pop[p].cand : FindActive(t) = {}}

PicksCandidate(p) ==
  /\ pop[p].at = "pick" /\ pop'[p].at = "find" /\ pop'[p].flow = "spawn"
  /\ pop'[p].task \in pop[p].cand
  /\ pop'[p].cand = pop[p].cand \ {pop'[p].task}

PassesOn(p) ==
  /\ pop'[p].flow = "none" /\ pop'[p].at \in {"reconcile", "approved", "filter"}
  /\ Choosing(pop[p]) \/ p \in Pollers

\* A method that is not about choosing or spawning.
Elsewhere(p) == ~Choosing(pop'[p])

LEMMA ChoosingSteps ==
  ASSUME PollInv, PollNotes', NEW p \in Procs,
         Step(p) \/ Crash(p) \/ \E r \in Runs : CancelRun(p, r)
  PROVE  \/ KeepsCandidates(p) \/ FiltersCandidates(p) \/ PicksCandidate(p)
         \/ PassesOn(p) \/ Elsewhere(p)
<1>0. /\ TypeOK /\ NotesOK(pop[p]) /\ pop[p] \in Operation /\ PollNotes
  BY OwnFacts
<1>1. CASE \/ Become(p, Idle) \/ Raise(p) \/ PollReturns(p) \/ NextRun(p)
           \/ PollOnce(p) \/ CheckDone(p) \/ Crash(p)
  BY <1>0, <1>1, ReturnsAway DEF Elsewhere, PassesOn, Choosing
<1>2. CASE PollList(p) \/ PollApproved(p) \/ PollFilter(p) \/ PollDone(p) \/ CheckRuns(p)
  <2>1. CASE PollList(p) /\ ~PollReturns(p)
    <3>1. PICK n, S : Become(p, [pop[p] EXCEPT !.at = "approved", !.avail = n, !.cand = S])
      BY <2>1 DEF PollList
    <3>2. pop'[p] = [pop[p] EXCEPT !.at = "approved", !.avail = n, !.cand = S]
      BY <1>0, <3>1, BecomeFields
    <3>3. pop'[p].at = "approved" /\ pop'[p].flow = pop[p].flow /\ pop[p].at = "reconcile"
      BY <1>0, <2>1, <3>2 DEF Operation, PollList
    <3>. QED BY <1>0, <3>3 DEF PassesOn, Choosing, NotesOK, Runless
  <2>2. CASE PollApproved(p)
    <3>1. PICK S : Become(p, [pop[p] EXCEPT !.at = "filter", !.cand = S])
      BY <2>2 DEF PollApproved
    <3>2. pop'[p] = [pop[p] EXCEPT !.at = "filter", !.cand = S]
      BY <1>0, <3>1, BecomeFields
    <3>3. pop'[p].at = "filter" /\ pop'[p].flow = pop[p].flow /\ pop[p].at = "approved"
      BY <1>0, <2>2, <3>2 DEF Operation, PollApproved
    <3>. QED BY <1>0, <3>3 DEF PassesOn, Choosing, NotesOK, Runless
  <2>3. CASE PollFilter(p)
    <3> DEFINE S == {t \in pop[p].cand : FindActive(t) = {}}
    <3>1. Become(p, [pop[p] EXCEPT !.at = "pick", !.cand = S])
      BY <2>3 DEF PollFilter
    <3> HIDE DEF S
    <3>2. pop'[p] = [pop[p] EXCEPT !.at = "pick", !.cand = S]
      BY <1>0, <3>1, BecomeFields
    <3>3. /\ pop'[p].at = "pick" /\ pop'[p].flow = pop[p].flow /\ pop[p].at = "filter"
          /\ pop'[p].cand = S
      BY <1>0, <2>3, <3>2 DEF Operation, PollFilter
    <3>. QED BY <1>0, <3>3 DEF FiltersCandidates, NotesOK, Runless, S
  <2>4. CASE CheckRuns(p)
    <3>1. PICK S : Become(p, [Idle EXCEPT !.at = "check", !.snap = S])
      BY <2>4 DEF CheckRuns
    <3>2. pop'[p] = [Idle EXCEPT !.at = "check", !.snap = S]
      BY <1>0, <3>1, BecomeFields
    <3>3. pop'[p].flow = "none" /\ pop'[p].at = "check"
      BY <3>2, IdleOK DEF Operation
    <3>. QED BY <3>3 DEF Elsewhere, Choosing
  <2>. QED BY <1>1, <1>2, <2>1, <2>2, <2>3, <2>4 DEF PollDone
<1>3. ASSUME NEW t \in Tasks, PickTask(p, t)
      PROVE  PicksCandidate(p)
  <2> DEFINE S == pop[p].cand \ {t}
  <2>1. PICK n : Become(p, [pop[p] EXCEPT !.at = "find", !.flow = "spawn", !.task = t,
                                          !.cand = S, !.avail = n])
    BY <1>3 DEF PickTask
  <2> HIDE DEF S
  <2>2. pop'[p] = [pop[p] EXCEPT !.at = "find", !.flow = "spawn", !.task = t,
                                 !.cand = S, !.avail = n]
    BY <1>0, <2>1, BecomeFields
  <2>3. pop'[p].at = "find" /\ pop'[p].flow = "spawn" /\ pop'[p].task = t /\ pop'[p].cand = S
    BY <1>0, <2>2 DEF Operation
  <2>. QED BY <1>3, <2>3 DEF PicksCandidate, PickTask, S
<1>4. CASE UpdateRead(p) \/ UpdateWrite(p)
  <2>1. CASE Go(p, "write") \/ Updated(p)
    <3>1. /\ pop'[p].flow = pop[p].flow /\ pop'[p].cand = pop[p].cand /\ pop'[p].task = pop[p].task
          /\ pop'[p].at \in {"write", pop[p].then} /\ pop[p].at \in Updating
      BY <1>0, <1>4, <2>1, GoFields, UpdatedFields DEF UpdateRead, UpdateWrite, Updating
    <3>2. pop'[p].at \notin {"reconcile", "approved", "filter", "pick", "find", "claim"}
      BY <1>0, <3>1 DEF NotesOK, UpdateCall
    <3>. QED BY <3>1, <3>2 DEF KeepsCandidates, Elsewhere, Choosing, Spawns
  <2>. QED BY <1>1, <1>4, <2>1 DEF UpdateRead, UpdateWrite
<1>5. CASE Spawning(p)
  <2>1. pop[p].flow = "spawn" /\ pop[p].at \in Asking \cup Launching
    BY <1>0, <1>5
    DEF Spawning, RequestFind, RequestLost, SaveRun, StartTask, ConfirmSpawning, SpawnAgent,
        QuarantineSpawn, RecordMetadata, ConfirmActive, WriteStatus, RequestClaim, Suppress,
        NotesOK, Asking, Launching
  <2>2. ASSUME NEW status, NEW then, UpdateStatus(p, status, then) PROVE KeepsCandidates(p)
    BY <1>0, <2>1, <2>2, UpdateStatusFields DEF KeepsCandidates, Spawns
  <2>3. ASSUME NEW label, Go(p, label), label # "find", label = "claim" => pop[p].at = "find"
        PROVE  KeepsCandidates(p)
    BY <1>0, <2>1, <2>3, GoFields DEF KeepsCandidates, Spawns
  <2>4. CASE RequestFind(p) \/ RequestLost(p) \/ SaveRun(p) \/ ConfirmSpawning(p)
             \/ SpawnAgent(p) \/ RecordMetadata(p) \/ ConfirmActive(p)
    BY <2>2, <2>3, <2>4
    DEF RequestFind, RequestLost, SaveRun, ConfirmSpawning, SpawnAgent, RecordMetadata, ConfirmActive
  <2>5. CASE QuarantineSpawn(p) \/ WriteStatus(p) \/ \E r \in Runs : Suppress(p, r)
    <3>1. CASE NextTask(p)
      BY <1>0, <2>1, <3>1, NextTaskFields DEF KeepsCandidates, Spawns
    <3>. QED BY <1>1, <2>5, <3>1 DEF QuarantineSpawn, WriteStatus, Suppress
  <2>6. CASE StartTask(p)
    <3>1. ASSUME Become(p, [pop[p] EXCEPT !.at = "update", !.flow = "denied",
                                          !.target = "FAILED", !.then = "mark_failed"])
          PROVE  KeepsCandidates(p)
      <4>1. pop'[p] = [pop[p] EXCEPT !.at = "update", !.flow = "denied",
                                     !.target = "FAILED", !.then = "mark_failed"]
        BY <1>0, <3>1, BecomeFields
      <4>2. /\ pop'[p].flow = "denied" /\ pop'[p].at = "update"
            /\ pop'[p].cand = pop[p].cand /\ pop'[p].task = pop[p].task
        BY <1>0, <4>1 DEF Operation
      <4>. QED BY <2>1, <4>2 DEF KeepsCandidates, Spawns
    <3>. QED BY <1>1, <2>2, <2>6, <3>1 DEF StartTask
  <2>7. ASSUME NEW r \in Runs, RequestClaim(p, r) PROVE KeepsCandidates(p)
    <3>1. pop'[p] = [pop[p] EXCEPT !.at = "save", !.run = r]
      BY <1>0, <2>7, BecomeFields DEF RequestClaim
    <3>2. /\ pop'[p].flow = pop[p].flow /\ pop'[p].at = "save"
          /\ pop'[p].cand = pop[p].cand /\ pop'[p].task = pop[p].task
      BY <1>0, <3>1 DEF Operation
    <3>. QED BY <2>1, <3>2 DEF KeepsCandidates, Spawns
  <2>. QED BY <1>5, <2>4, <2>5, <2>6, <2>7 DEF Spawning
<1>6. CASE Ending(p)
  <2>1. CASE MarkFailed(p) /\ NextTask(p)
    <3>1. pop[p].flow \in {"fail", "denied"}
      BY <1>0, <2>1 DEF NotesOK, MarkFailed
    <3>2. CASE pop[p].flow = "denied"
      BY <1>0, <2>1, <3>2, NextTaskFields DEF KeepsCandidates, Spawns
    <3>3. CASE pop[p].flow = "fail"
      BY <1>0, <2>1, <3>3, NextTaskFields, GoFields, ReturnsAway DEF MarkFailed
    <3>. QED BY <3>1, <3>2, <3>3
  <2>2. ASSUME pop[p].flow \in {"fail", "complete", "cancel"}, pop'[p].flow = pop[p].flow,
               pop'[p].at \notin {"reconcile", "approved", "filter", "pick"}
        PROVE  Elsewhere(p)
    BY <2>2 DEF Elsewhere, Choosing
  <2>3. CASE Terminate(p)
    <3>1. \E h : \/ Become(p, [pop[p] EXCEPT !.handle = h, !.at = "kill"])
                 \/ Become(p, [pop[p] EXCEPT !.handle = h, !.at = "update",
                                             !.target = "TERMINATING", !.then = "kill"])
                 \/ Become(p, [pop[p] EXCEPT !.handle = h, !.at = "update",
                                             !.target = "CANCELLED", !.then = "kill"])
      BY <2>3 DEF Terminate
    <3>2. \E h : \/ pop'[p] = [pop[p] EXCEPT !.handle = h, !.at = "kill"]
                 \/ pop'[p] = [pop[p] EXCEPT !.handle = h, !.at = "update",
                                             !.target = "TERMINATING", !.then = "kill"]
                 \/ pop'[p] = [pop[p] EXCEPT !.handle = h, !.at = "update",
                                             !.target = "CANCELLED", !.then = "kill"]
      BY <1>0, <3>1, BecomeFields
    <3>3. pop'[p].at \in {"kill", "update"} /\ pop'[p].flow = pop[p].flow
      BY <1>0, <3>2 DEF Operation
    <3>. QED BY <1>0, <2>2, <2>3, <3>3 DEF Terminate, NotesOK
  <2>4. CASE FailRun(p)
    <3>1. PICK f : Become(p, [pop[p] EXCEPT !.at = "terminate", !.found = f])
      BY <2>4 DEF FailRun
    <3>2. pop'[p] = [pop[p] EXCEPT !.at = "terminate", !.found = f]
      BY <1>0, <3>1, BecomeFields
    <3>3. pop'[p].at = "terminate" /\ pop'[p].flow = pop[p].flow
      BY <1>0, <3>2 DEF Operation
    <3>. QED BY <1>0, <2>2, <2>4, <3>3 DEF FailRun, NotesOK
  <2>5. CASE KillAgent(p)
    <3>1. pop[p].flow \in {"fail", "complete", "cancel"}
      BY <1>0, <2>5 DEF KillAgent, NotesOK
    <3>2. \/ Go(p, "complete_task") \/ Go(p, "retry") \/ UpdateStatus(p, "FAILED", "mark_failed")
      BY <2>5, <3>1 DEF KillAgent, AfterKill
    <3>. QED BY <1>0, <2>2, <3>1, <3>2, GoFields, UpdateStatusFields
  <2>6. CASE CompleteTask(p)
    <3>1. pop'[p].at = "update" /\ pop'[p].flow = pop[p].flow
      BY <1>0, <2>6, UpdateStatusFields DEF CompleteTask
    <3>. QED BY <1>0, <2>2, <2>6, <3>1 DEF CompleteTask, NotesOK
  <2>7. CASE BeginTermination(p) \/ ConfirmTerminated(p) \/ Retry(p)
             \/ (MarkFailed(p) /\ ~NextTask(p))
    <3>1. \/ NextRun(p) \/ Raise(p) \/ Become(p, Idle)
          \/ pop[p].at = "begin_termination" /\ Go(p, "confirm_terminated")
          \/ pop[p].flow = "fail" /\ Go(p, "retry")
      BY <2>7 DEF BeginTermination, ConfirmTerminated, MarkFailed, Retry
    <3>. QED BY <1>0, <1>1, <2>2, <3>1, GoFields DEF NotesOK
  <2>. QED BY <1>6, <2>1, <2>3, <2>4, <2>5, <2>6, <2>7 DEF Ending
<1>7. ASSUME NEW r \in Runs, Reconcile(p, r)
      PROVE  PassesOn(p)
  <2>1. PICK S : Become(p, [pop[p] EXCEPT !.todo = S])
    BY <1>7 DEF Reconcile
  <2>2. pop'[p] = [pop[p] EXCEPT !.todo = S]
    BY <1>0, <2>1, BecomeFields
  <2>3. pop'[p].at = "reconcile" /\ pop'[p].flow = pop[p].flow /\ pop[p].at = "reconcile"
    BY <1>0, <1>7, <2>2 DEF Operation, Reconcile
  <2>. QED BY <1>0, <2>3 DEF PassesOn, Choosing, NotesOK, Runless
<1>8. ASSUME NEW r \in Runs,
             CheckTimesOut(p, r) \/ CheckLeaves(p, r) \/ CheckFails(p, r) \/ CheckCompletes(p, r)
      PROVE  Elsewhere(p)
  <2>1. pop[p].flow = "none" /\ pop[p].at = "check"
    BY <1>0, <1>8 DEF CheckTimesOut, CheckLeaves, CheckFails, CheckCompletes, NotesOK, Runless
  <2>2. CASE CheckLeaves(p, r)
    <3>1. PICK S : Become(p, [pop[p] EXCEPT !.snap = S])
      BY <2>2 DEF CheckLeaves
    <3>2. pop'[p] = [pop[p] EXCEPT !.snap = S]
      BY <1>0, <3>1, BecomeFields
    <3>3. pop'[p].flow = "none" /\ pop'[p].at = "check"
      BY <1>0, <2>1, <3>2 DEF Operation
    <3>. QED BY <3>3 DEF Elsewhere, Choosing
  <2>3. CASE CheckTimesOut(p, r)
    <3>1. PICK S : Become(p, [pop[p] EXCEPT !.at = "update", !.run = r, !.snap = S,
                                            !.target = "QUARANTINED", !.then = "check"])
      BY <2>3 DEF CheckTimesOut
    <3>2. pop'[p] = [pop[p] EXCEPT !.at = "update", !.run = r, !.snap = S,
                                   !.target = "QUARANTINED", !.then = "check"]
      BY <1>0, <3>1, BecomeFields
    <3>3. pop'[p].flow = "none" /\ pop'[p].at = "update"
      BY <1>0, <2>1, <3>2 DEF Operation
    <3>. QED BY <3>3 DEF Elsewhere, Choosing
  <2>4. ASSUME NEW label \in {"fail", "terminate"}, NEW flow \in {"fail", "complete"},
               Check(p, r, label, flow)
        PROVE  Elsewhere(p)
    <3>1. PICK t, S : Become(p, [pop[p] EXCEPT !.at = label, !.flow = flow, !.run = r,
                                               !.task = t, !.snap = S])
      BY <2>4 DEF Check
    <3>2. pop'[p] = [pop[p] EXCEPT !.at = label, !.flow = flow, !.run = r,
                                   !.task = t, !.snap = S]
      BY <1>0, <3>1, BecomeFields
    <3>3. pop'[p].at = label /\ pop'[p].flow = flow
      BY <1>0, <3>2 DEF Operation
    <3>. QED BY <3>3 DEF Elsewhere, Choosing
  <2>. QED BY <1>8, <2>2, <2>3, <2>4 DEF CheckFails, CheckCompletes
<1>9. ASSUME NEW r \in Runs, CancelRun(p, r) PROVE Elsewhere(p)
  <2>1. PICK t : Become(p, [Idle EXCEPT !.at = "update", !.flow = "cancel", !.run = r, !.task = t,
                                        !.target = "CANCELLED", !.then = "terminate"])
    BY <1>9 DEF CancelRun
  <2>2. pop'[p] = [Idle EXCEPT !.at = "update", !.flow = "cancel", !.run = r, !.task = t,
                               !.target = "CANCELLED", !.then = "terminate"]
    BY <1>0, <2>1, BecomeFields
  <2>3. pop'[p].flow = "cancel" /\ pop'[p].at = "update"
    BY <2>2, IdleOK DEF Operation
  <2>. QED BY <2>3 DEF Elsewhere, Choosing
<1>. QED BY <1>1, <1>2, <1>3, <1>4, <1>5, <1>6, <1>7, <1>8, <1>9 DEF Step

\* The task has no launch that blocks it after the step.
StillFree(t) == \A r \in Runs : reg'[r].key = t => reg'[r].status \notin LaunchBlocking

\* With one poller the task it claims has no launch that blocks it.
LEMMA ClaimStep ==
  ASSUME \A x, y \in Pollers : x = y, PollInv, PollInv', ClaimInv, Next
  PROVE  ClaimInv'
<1>0. TypeOK /\ PollNotes /\ PollNotes' /\ \A p \in Procs : NotesOK(pop[p])
  BY DEF PollInv, PollNotes
<1>1. \A p, q \in Procs : Choosing(pop[p]) /\ Choosing(pop[q]) => p = q
  BY DEF ClaimInv, OnlyPollersSpawn, Choosing
<1>2. ASSUME NEW p \in Procs, ConfirmTerminated(p) \/ MarkFailed(p)
      PROVE  \A r \in Runs : /\ reg'[r].key = reg[r].key /\ reg'[r].created = reg[r].created
                             /\ reg'[r].status \in LaunchBlocking => reg[r].status \in LaunchBlocking
  <2>1. pop[p].run \in Runs
    BY <1>0, <1>2 DEF ConfirmTerminated, MarkFailed, NotesOK, Runless, Asking
  <2>2. \/ UNCHANGED reg
        \/ MoveLaunch(pop[p].run, LaunchBlocking, "FAILED")
        \/ MoveLaunch(pop[p].run, {"TERMINATING"}, "TERMINATED")
    BY <1>2 DEF ConfirmTerminated, MarkFailed, FailLaunch
  <2>3. {"TERMINATING"} \in SUBSET LaunchBlocking /\ "FAILED" \notin LaunchBlocking
          /\ "TERMINATED" \notin LaunchBlocking
    BY DEF LaunchBlocking, LaunchInFlight
  <2>4. CASE MoveLaunch(pop[p].run, LaunchBlocking, "FAILED")
    BY <1>0, <2>1, <2>3, <2>4, MoveLaunchFacts
  <2>5. CASE MoveLaunch(pop[p].run, {"TERMINATING"}, "TERMINATED")
    <3>1. /\ \A s \in Runs : s # pop[p].run => reg'[s] = reg[s]
          /\ reg'[pop[p].run].key = reg[pop[p].run].key
          /\ reg'[pop[p].run].created = reg[pop[p].run].created
          /\ reg'[pop[p].run].status \in {"TERMINATED", reg[pop[p].run].status}
      BY <1>0, <2>1, <2>3, <2>5, MoveLaunchFacts
    <3>. QED BY <2>3, <3>1
  <2>. QED BY <2>2, <2>4, <2>5
<1>3. ASSUME NEW p \in Procs, NEW r \in Runs, RequestClaim(p, r)
      PROVE  /\ pop[p].at = "claim" /\ Spawns(pop[p]) /\ Choosing(pop[p])
             /\ reg[r] = NoLaunch /\ reg'[r].key = pop[p].task
             /\ reg'[r].created <= Cardinality(Runs) + 1
             /\ \A s \in Runs : s # r => reg'[s] = reg[s]
  <2>1. Cardinality({s \in Runs : reg[s] # NoLaunch}) <= Cardinality(Runs)
        /\ Cardinality({s \in Runs : reg[s] # NoLaunch}) \in Nat /\ Cardinality(Runs) \in Nat
    BY CountRuns
  <2> DEFINE n == Cardinality({s \in Runs : reg[s] # NoLaunch})
  <2>2. reg' = [reg EXCEPT ![r] = [status |-> "RESERVED", key |-> pop[p].task, lease |-> "held",
                                   created |-> 1 + n]]
    BY <1>3 DEF RequestClaim
  <2>3. 1 + n <= Cardinality(Runs) + 1
    BY <2>1
  <2> HIDE DEF n
  <2>4. pop[p].flow = "spawn" /\ pop[p].at = "claim" /\ Fresh(r)
    BY <1>0, <1>3 DEF RequestClaim, NotesOK, Asking
  <2>. QED BY <1>0, <2>2, <2>3, <2>4 DEF TypeOK, Fresh, Spawns, Choosing
<1>4. \/ \A r \in Runs : /\ reg'[r].key = reg[r].key /\ reg'[r].created = reg[r].created
                         /\ reg'[r].status \in LaunchBlocking => reg[r].status \in LaunchBlocking
      \/ \E p \in Procs, r \in Runs : RequestClaim(p, r)
  BY <1>0, <1>2, RegSteps DEF RegStays
<1>5. OneBlockingLaunch'
  <2>1. ASSUME NEW p \in Procs, NEW r \in Runs, RequestClaim(p, r)
        PROVE  OneBlockingLaunch'
    <3>1. Unblocked(pop[p].task)
      BY <1>3, <2>1 DEF ClaimInv, PickedIsFree
    <3>. QED BY <1>3, <2>1, <3>1 DEF ClaimInv, OneBlockingLaunch, Unblocked
  <2>. QED BY <1>4, <2>1 DEF ClaimInv, OneBlockingLaunch
<1>6. CreatedIsBounded'
  BY <1>3, <1>4 DEF ClaimInv, CreatedIsBounded
<1>7. ASSUME NEW t, Unblocked(t), ~StillFree(t)
      PROVE  \E p \in Procs : /\ pop[p].at = "claim" /\ Spawns(pop[p]) /\ Choosing(pop[p])
                              /\ pop[p].task = t
                              /\ \E r \in Runs : RequestClaim(p, r)
  <2>1. PICK s \in Runs : reg'[s].key = t /\ reg'[s].status \in LaunchBlocking
    BY <1>7 DEF StillFree
  <2>2. PICK p \in Procs, r \in Runs : RequestClaim(p, r)
    BY <1>4, <1>7, <2>1 DEF Unblocked
  <2>. QED BY <1>3, <1>7, <2>1, <2>2 DEF Unblocked
<1>8. ASSUME NEW p \in Procs
      PROVE  /\ pop'[p].at \in {"reconcile", "approved", "filter", "pick"} \/ Spawns(pop'[p])
                  => p \in Pollers
             /\ pop'[p].at = "pick" \/ Spawns(pop'[p]) => \A t \in pop'[p].cand : StillFree(t)
             /\ Spawns(pop'[p]) => pop'[p].task \notin pop'[p].cand
             /\ pop'[p].at \in {"find", "claim"} => StillFree(pop'[p].task)
  <2>0. /\ Choosing(pop[p]) => p \in Pollers
        /\ pop[p].at = "pick" \/ Spawns(pop[p]) => \A t \in pop[p].cand : Unblocked(t)
        /\ Spawns(pop[p]) => pop[p].task \notin pop[p].cand
        /\ pop[p].at \in {"find", "claim"} => Unblocked(pop[p].task)
    BY DEF ClaimInv, OnlyPollersSpawn, PickedIsFree, Choosing, Spawns
  <2>1. ASSUME NEW t, Unblocked(t), Choosing(pop[p]), pop[p].at = "claim" => t # pop[p].task
        PROVE  StillFree(t)
    BY <1>1, <1>7, <2>1
  <2>2. CASE pop'[p] = pop[p]
    <3>1. CASE Choosing(pop[p]) /\ ~(pop[p].at = "claim" /\ \E r \in Runs : RequestClaim(p, r))
      <4>1. ASSUME NEW t, Unblocked(t) PROVE StillFree(t)
        BY <1>1, <1>7, <3>1, <4>1
      <4>. QED BY <2>0, <2>2, <3>1, <4>1 DEF Choosing, Spawns
    <3>2. CASE ~Choosing(pop[p])
      <4>1. pop[p].at \notin {"pick", "find", "claim"} /\ ~Spawns(pop[p])
        BY <1>0, <3>2 DEF Choosing, Spawns, NotesOK, Asking
      <4>. QED BY <2>2, <3>2, <4>1 DEF Choosing
    <3>3. ASSUME NEW r \in Runs, RequestClaim(p, r), pop[p].at = "claim"
          PROVE  FALSE
      <4>1. pop'[p] = [pop[p] EXCEPT !.at = "save", !.run = r]
        BY <1>0, <3>3, BecomeFields DEF RequestClaim
      <4>2. pop'[p].at = "save"
        BY <1>0, <4>1 DEF TypeOK, Operation
      <4>. QED BY <2>2, <3>3, <4>2
    <3>. QED BY <3>1, <3>2, <3>3
  <2>3. CASE Step(p) \/ Crash(p) \/ \E r \in Runs : CancelRun(p, r)
    <3>1. CASE KeepsCandidates(p)
      <4>1. \A t \in pop'[p].cand : StillFree(t)
        BY <2>0, <2>1, <3>1 DEF KeepsCandidates, Choosing, Spawns
      <4>2. pop'[p].at = "claim" => StillFree(pop'[p].task)
        <5>1. SUFFICES ASSUME pop'[p].at = "claim"
                       PROVE  StillFree(pop'[p].task)
          OBVIOUS
        <5>2. Spawns(pop'[p]) /\ pop[p].at = "find" /\ pop'[p].task = pop[p].task
          BY <3>1, <5>1 DEF KeepsCandidates
        <5>3. Choosing(pop[p])
          BY <3>1 DEF KeepsCandidates, Choosing, Spawns
        <5>4. StillFree(pop[p].task)
          BY <2>0, <2>1, <5>2, <5>3
        <5>. QED BY <5>2, <5>4
      <4>. QED BY <2>0, <3>1, <4>1, <4>2 DEF KeepsCandidates, Choosing, Spawns
    <3>2. CASE FiltersCandidates(p)
      <4>1. \A t \in pop'[p].cand : Unblocked(t)
        BY <1>0, <3>2, NewestBlocks DEF FiltersCandidates, ClaimInv
      <4>2. Choosing(pop[p]) /\ pop[p].at # "claim"
        BY <3>2 DEF FiltersCandidates, Choosing
      <4>. QED BY <2>0, <2>1, <3>2, <4>1, <4>2 DEF FiltersCandidates, Spawns
    <3>3. CASE PicksCandidate(p)
      <4>1. Choosing(pop[p]) /\ pop[p].at # "claim"
        BY <3>3 DEF PicksCandidate, Choosing
      <4>2. \A t \in pop[p].cand : StillFree(t)
        BY <2>0, <2>1, <3>3, <4>1 DEF PicksCandidate
      <4>3. StillFree(pop'[p].task)
        BY <3>3, <4>2 DEF PicksCandidate
      <4>. QED BY <2>0, <3>3, <4>1, <4>2, <4>3 DEF PicksCandidate
    <3>4. CASE PassesOn(p)
      BY <2>0, <3>4 DEF PassesOn, Spawns
    <3>5. CASE Elsewhere(p)
      <4>1. pop'[p].at \notin {"pick", "find", "claim"} /\ ~Spawns(pop'[p])
        BY <1>0, <3>5 DEF Elsewhere, Choosing, Spawns, PollNotes, NotesOK, Asking
      <4>. QED BY <3>5, <4>1 DEF Elsewhere, Choosing
    <3>. QED BY <1>0, <2>3, <3>1, <3>2, <3>3, <3>4, <3>5, ChoosingSteps
  <2>. QED BY <2>2, <2>3, OneMoves DEF OthersStay
<1>9. PickedIsFree' /\ OnlyPollersSpawn'
  BY <1>8 DEF PickedIsFree, OnlyPollersSpawn, Spawns, Unblocked, StillFree
<1>. QED BY <1>5, <1>6, <1>9 DEF ClaimInv

LEMMA ClaimInvariant ==
  ASSUME \A x, y \in Pollers : x = y
  PROVE  Spec => []ClaimInv
<1>1. Init => ClaimInv
  <2> SUFFICES ASSUME Init PROVE ClaimInv
    OBVIOUS
  <2>1. \A r \in Runs : /\ reg[r].status \notin LaunchBlocking
                        /\ reg[r].created <= Cardinality(Runs) + 1
    BY CountRuns DEF Init, NoLaunch, LaunchBlocking, LaunchInFlight
  <2>2. \A p \in Procs : pop[p] = Idle
    BY DEF Init
  <2>. QED BY <2>1, <2>2, IdleOK
        DEF ClaimInv, OneBlockingLaunch, PickedIsFree, OnlyPollersSpawn, CreatedIsBounded
<1>2. PollInv /\ PollInv' /\ ClaimInv /\ Next => ClaimInv'
  BY ClaimStep
<1>3. ClaimInv /\ UNCHANGED vars => ClaimInv'
  BY DEF ClaimInv, OneBlockingLaunch, PickedIsFree, OnlyPollersSpawn, CreatedIsBounded,
         Unblocked, vars
<1>4. PollInv /\ PollInv' /\ ClaimInv /\ [Next]_vars => ClaimInv'
  BY <1>2, <1>3
<1>. QED BY <1>1, <1>4, PollInvariant, PTL DEF Spec

\* Two agents never work on one task under one poller, beside any number of
\* cancel commands, restarts of the poller and late answers: a task is picked
\* when no launch blocks it, its launch blocks it from the claim to the kill,
\* and only the poller claims.
THEOREM OnePollerOneAgent ==
  ASSUME \A x, y \in Pollers : x = y, ~KillFails
  PROVE  Spec => []OneAgentPerTask
<1>1. ClaimInv /\ LiveAgentHoldsLaunch => OneAgentPerTask
  BY DEF ClaimInv, OneBlockingLaunch, LiveAgentHoldsLaunch, OneAgentPerTask, Alive
<1>. QED BY <1>1, ClaimInvariant, AgentsHoldLaunches, PTL

-----------------------------------------------------------------------------
(* Slots.  With one poller and no cancel command the rows are what the     *)
(* poller has seen: what it listed is still so, a task it picked has no    *)
(* run that takes a slot, and a row leaves the statuses that take one only *)
(* by a legal move and after the kill.                                     *)

Wanting(o) == o.at \in {"find", "claim", "suppress", "save"}

Wants(o) == IF Wanting(o) THEN 1 ELSE 0

Starting(o) ==
  \/ o.at \in {"start", "confirm_spawning", "spawn"}
  \/ o.at \in Updating /\ o.then = "confirm_spawning"

\* What the process has noted is so, and its picks fit the cap.
Slotted(p) ==
  /\ pop[p].flow # "cancel"
  /\ Choosing(pop[p]) => pop[p].snap = EmptyTable
  /\ pop[p].run # None => pop[p].snap[pop[p].run] = NoRun
  /\ \A r \in Runs : pop[p].snap[r] # NoRun => runs[r] = pop[p].snap[r]
  /\ \A r \in Blocking : runs[r].task \notin pop[p].cand
  /\ Wanting(pop[p]) => \A r \in Blocking : runs[r].task # pop[p].task
  /\ Cardinality(Blocking) + (pop[p].avail + Wants(pop[p])) <= MaxConcurrent

\* What is to come is legal, and hides no live agent.
Promises(p) ==
  LET r == pop[p].run
  IN /\ pop[p].at = "write" =>
          runs[r] = NoRun \/ <<runs[r].status, pop[p].target>> \in RunTransitions
     /\ Starting(pop[p]) => r \in Blocking
     /\ pop[p].flow \in {"fail", "complete"} /\ pop[p].at \in {"fail", "terminate"} =>
          agent[r] = "ended" \/ runs[r].status \in {"RUNNING", "TERMINATING"}
     /\ pop[p].at \in Updating /\ pop[p].target = "CANCELLED" => agent[r] = "ended"

SlotInv ==
  /\ LiveAgentTakesSlot
  /\ Cardinality(Blocking) <= MaxConcurrent
  /\ \A p \in Procs : Slotted(p) /\ Promises(p)

\* The rows that take a slot stay or leave, and no listed row changes.
RowsPass(p) ==
  /\ Blocking' \subseteq Blocking
  /\ \A r \in Blocking' : runs'[r].task = runs[r].task
  /\ \A r \in Runs : runs'[r] = runs[r] \/ pop[p].snap[r] = NoRun

\* The notes of the process claim no more than before.
NotesPass(p) ==
  /\ pop'[p].flow # "cancel"
  /\ \A r \in Runs : pop'[p].snap[r] \in {NoRun, pop[p].snap[r]}
  /\ Choosing(pop'[p]) => Choosing(pop[p]) \/ pop'[p].snap = EmptyTable
  /\ pop'[p].run \in {None, pop[p].run} \/ pop'[p].snap[pop'[p].run] = NoRun
  /\ pop'[p].cand \subseteq pop[p].cand
  /\ Wanting(pop'[p]) => \/ Wanting(pop[p]) /\ pop'[p].task = pop[p].task
                         \/ pop'[p].task \in pop[p].cand
  /\ pop'[p].avail + Wants(pop'[p]) <= pop[p].avail + Wants(pop[p])

LEMMA CountSlots ==
  ASSUME TypeOK, NEW p \in Procs
  PROVE  /\ IsFiniteSet(Blocking) /\ Cardinality(Blocking) \in Nat
         /\ MaxConcurrent \in Nat
         /\ pop[p].avail \in Nat /\ Wants(pop[p]) \in Nat
         /\ pop[p].avail + Wants(pop[p]) \in Nat
BY CountRuns, PollAssumption DEF Blocking, TypeOK, Operation, Wants

LEMMA TablesAgree ==
  ASSUME NEW tab \in Table, \A r \in Runs : tab[r] = NoRun
  PROVE  tab = EmptyTable
BY DEF Table, EmptyTable

LEMMA SlotsPass ==
  ASSUME TypeOK, TypeOK', NEW p \in Procs, Slotted(p), RowsPass(p), NotesPass(p)
  PROVE  Slotted(p)'
<1>1. pop'[p] \in Operation /\ pop[p] \in Operation /\ pop'[p].snap \in Table
  BY DEF TypeOK, Operation
<1>2. Choosing(pop'[p]) => pop'[p].snap = EmptyTable
  <2>1. ASSUME Choosing(pop[p]) PROVE \A r \in Runs : pop'[p].snap[r] = NoRun
    BY <2>1 DEF Slotted, NotesPass, EmptyTable
  <2>. QED BY <1>1, <2>1, TablesAgree DEF NotesPass
<1>3. pop'[p].run # None => pop'[p].snap[pop'[p].run] = NoRun
  <2>1. pop'[p].run \in Runs \cup {None}
    BY <1>1 DEF Operation
  <2>. QED BY <2>1 DEF Slotted, NotesPass
<1>4. \A r \in Runs : pop'[p].snap[r] # NoRun => runs'[r] = pop'[p].snap[r]
  BY DEF Slotted, NotesPass, RowsPass
<1>5. \A r \in Blocking' : runs'[r].task \notin pop'[p].cand
  BY DEF Slotted, NotesPass, RowsPass
<1>6. Wanting(pop'[p]) => \A r \in Blocking' : runs'[r].task # pop'[p].task
  BY DEF Slotted, NotesPass, RowsPass
<1>7. Cardinality(Blocking') + (pop'[p].avail + Wants(pop'[p])) <= MaxConcurrent
  <2>1. Cardinality(Blocking') <= Cardinality(Blocking) /\ Cardinality(Blocking') \in Nat
    BY CountSlots, FS_Subset, FS_CardinalityType DEF RowsPass
  <2>2. /\ Cardinality(Blocking) \in Nat /\ MaxConcurrent \in Nat
        /\ pop[p].avail + Wants(pop[p]) \in Nat
    BY CountSlots
  <2>3. pop'[p].avail + Wants(pop'[p]) \in Nat
    BY <1>1, PollAssumption DEF Operation, Wants
  <2>4. /\ pop'[p].avail + Wants(pop'[p]) <= pop[p].avail + Wants(pop[p])
        /\ Cardinality(Blocking) + (pop[p].avail + Wants(pop[p])) <= MaxConcurrent
    BY DEF NotesPass, Slotted
  <2>. QED BY <2>1, <2>2, <2>3, <2>4
<1>. QED BY <1>2, <1>3, <1>4, <1>5, <1>6, <1>7 DEF Slotted, NotesPass

\* A step with the label as its only news.
LEMMA CallsPass ==
  ASSUME TypeOK, NEW p \in Procs, Slotted(p),
         pop'[p].run = pop[p].run /\ pop'[p].flow = pop[p].flow /\ pop'[p].task = pop[p].task,
         pop'[p].snap = pop[p].snap /\ pop'[p].cand = pop[p].cand /\ pop'[p].avail = pop[p].avail,
         pop'[p].at \notin {"reconcile", "approved", "filter", "pick"},
         Wanting(pop'[p]) => Wanting(pop[p])
  PROVE  NotesPass(p)
<1>1. pop[p].avail \in Nat
  BY CountSlots
<1>. QED BY <1>1 DEF NotesPass, Slotted, Choosing, Wants

\* A method returns.
LEMMA ReturnsPass ==
  ASSUME TypeOK, NEW p \in Procs, Slotted(p),
         \/ Become(p, Idle) \/ Raise(p) \/ PollReturns(p) \/ NextRun(p) \/ PollOnce(p)
         \/ CheckDone(p) \/ Crash(p) \/ (NextTask(p) /\ Choosing(pop[p]))
  PROVE  NotesPass(p) /\ Promises(p)'
<1>1. pop[p].avail \in Nat /\ Wants(pop[p]) \in Nat /\ Idle.avail = 0
  BY CountSlots DEF Idle
<1>2. /\ Idle \in Operation /\ Idle.at = "idle" /\ Idle.flow = "none" /\ Idle.run = None
      /\ Idle.snap = EmptyTable /\ Idle.cand = {} /\ Idle.then = "idle"
  BY IdleOK DEF Idle
<1>3. Resting(p)
  BY ReturnsRest
<1>4. /\ pop'[p].avail = 0 \/ (pop'[p].avail = pop[p].avail /\ Choosing(pop[p]))
      /\ pop'[p].at \in {"reconcile", "pick"} => Choosing(pop[p]) \/ pop'[p].snap = EmptyTable
  <2>1. CASE NextTask(p) /\ Choosing(pop[p])
    BY <2>1, NextTaskFields
  <2>2. CASE Become(p, Idle) \/ Raise(p) \/ CheckDone(p) \/ Crash(p)
    BY <1>1, <1>2, <2>2, BecomeFields DEF Raise, CheckDone, Crash
  <2>3. CASE PollReturns(p)
    <3>1. pop'[p] = [Idle EXCEPT !.at = "list_active"]
      BY <2>3, BecomeFields DEF PollReturns
    <3>. QED BY <1>1, <1>2, <3>1 DEF Operation
  <2>4. CASE NextRun(p)
    <3>1. pop'[p] = [Idle EXCEPT !.at = "check", !.snap = pop[p].snap]
      BY <2>4, BecomeFields DEF NextRun
    <3>. QED BY <1>1, <1>2, <3>1 DEF Operation
  <2>5. CASE PollOnce(p)
    <3>1. pop'[p] = [Idle EXCEPT !.at = "reconcile", !.todo = Expired]
      BY <2>5, BecomeFields DEF PollOnce
    <3>. QED BY <1>1, <1>2, <3>1 DEF Operation
  <2>. QED BY <2>1, <2>2, <2>3, <2>4, <2>5
<1>5. pop'[p].at \in {"reconcile", "pick"} => Choosing(pop[p]) \/ pop'[p].snap = EmptyTable
  BY <1>4
<1>6. Promises(p)'
  BY <1>3 DEF Resting, Promises, Starting, Updating
<1>7. NotesPass(p)
  <2>1. \A r \in Runs : pop'[p].snap[r] \in {NoRun, pop[p].snap[r]}
    BY <1>3 DEF Resting, EmptyTable
  <2>2. ~Wanting(pop'[p]) /\ Wants(pop'[p]) = 0
    BY <1>3 DEF Resting, Wanting, Wants
  <2>3. pop'[p].avail + Wants(pop'[p]) <= pop[p].avail + Wants(pop[p])
    BY <1>1, <1>4, <2>2
  <2>. QED BY <1>3, <1>5, <2>1, <2>2, <2>3 DEF Resting, NotesPass, Choosing
<1>. QED BY <1>6, <1>7

LEMMA SlotKept ==
  ASSUME \A x, y \in Procs : x = y, TypeOK, TypeOK', SlotInv, NEW p \in Procs,
         RowsPass(p), NotesPass(p), Promises(p)', LiveAgentTakesSlot'
  PROVE  SlotInv'
<1>1. \A q \in Procs : q = p
  OBVIOUS
<1>2. Slotted(p)'
  BY SlotsPass DEF SlotInv
<1>3. Cardinality(Blocking') <= MaxConcurrent
  <2>1. /\ Cardinality(Blocking') <= Cardinality(Blocking) /\ Cardinality(Blocking') \in Nat
        /\ Cardinality(Blocking) \in Nat /\ MaxConcurrent \in Nat
    BY CountSlots, FS_Subset, FS_CardinalityType DEF RowsPass
  <2>. QED BY <2>1 DEF SlotInv
<1>. QED BY <1>1, <1>2, <1>3 DEF SlotInv

\* The rows stay, and no agent begins.
SlotsStay == runs' = runs /\ AgentsEndOnly

LEMMA SlotsStayFacts ==
  ASSUME SlotInv, SlotsStay, NEW p \in Procs
  PROVE  /\ RowsPass(p) /\ LiveAgentTakesSlot'
         /\ Blocking' = Blocking
         /\ \A r \in Runs : agent[r] = "ended" => agent'[r] = "ended"
BY DEF SlotsStay, AgentsEndOnly, RowsPass, Blocking, SlotInv, LiveAgentTakesSlot, Alive

LEMMA StaysKept ==
  ASSUME \A x, y \in Procs : x = y, TypeOK, TypeOK', SlotInv, NEW p \in Procs,
         SlotsStay, NotesPass(p), Promises(p)'
  PROVE  SlotInv'
BY SlotsStayFacts, SlotKept

\* The promises are about a few labels.
LEMMA NothingPromised ==
  ASSUME NEW p \in Procs,
         pop'[p].at \notin {"write", "start", "confirm_spawning", "spawn", "fail", "terminate"},
         pop'[p].at = "update" => pop'[p].then # "confirm_spawning" /\ pop'[p].target # "CANCELLED"
  PROVE  Promises(p)'
BY DEF Promises, Starting, Updating

\* Choosing a task.
LEMMA ChoosingSlots ==
  ASSUME \A x, y \in Procs : x = y, TypeOK, TypeOK', PollNotes, SlotInv, NEW p \in Procs,
         \/ PollOnce(p) \/ PollApproved(p) \/ PollFilter(p) \/ PollDone(p)
         \/ (\E r \in Runs : Reconcile(p, r)) \/ (\E t \in Tasks : PickTask(p, t))
  PROVE  SlotInv'
<1>0. /\ pop[p] \in Operation /\ Slotted(p) /\ NotesOK(pop[p])
      /\ pop[p].avail \in Nat /\ Wants(pop[p]) \in Nat
  BY CountSlots DEF TypeOK, SlotInv, PollNotes
<1>1. SlotsStay
  BY DEF PollOnce, PollApproved, PollFilter, PollDone, Reconcile, PickTask, SlotsStay, AgentsEndOnly
<1>2. CASE PollOnce(p) \/ PollDone(p)
  BY <1>0, <1>1, <1>2, ReturnsPass, StaysKept DEF PollDone
<1>3. ASSUME NEW t \in Tasks, PickTask(p, t) PROVE SlotInv'
  <2>1. /\ pop[p].at = "pick" /\ t \in pop[p].cand /\ pop[p].avail > 0
        /\ Become(p, [pop[p] EXCEPT !.at = "find", !.flow = "spawn", !.task = t,
                                    !.cand = pop[p].cand \ {t}, !.avail = pop[p].avail - 1])
    BY <1>0, <1>3 DEF PickTask
  <2>2. pop'[p] = [pop[p] EXCEPT !.at = "find", !.flow = "spawn", !.task = t,
                                 !.cand = pop[p].cand \ {t}, !.avail = pop[p].avail - 1]
    BY <1>0, <2>1, BecomeFields
  <2>3. /\ pop'[p].at = "find" /\ pop'[p].flow = "spawn" /\ pop'[p].task = t
        /\ pop'[p].cand = pop[p].cand \ {t} /\ pop'[p].avail = pop[p].avail - 1
        /\ pop'[p].run = pop[p].run /\ pop'[p].snap = pop[p].snap
    BY <1>0, <2>2 DEF Operation
  <2>4. Wants(pop[p]) = 0 /\ Wants(pop'[p]) = 1
    BY <2>1, <2>3 DEF Wants, Wanting
  <2>5. pop'[p].avail + Wants(pop'[p]) <= pop[p].avail + Wants(pop[p])
    BY <1>0, <2>1, <2>3, <2>4
  <2>6. Choosing(pop[p])
    BY <2>1 DEF Choosing
  <2>7. NotesPass(p)
    BY <2>1, <2>3, <2>5, <2>6 DEF NotesPass
  <2>8. Promises(p)'
    BY <2>3, NothingPromised
  <2>. QED BY <1>0, <1>1, <2>7, <2>8, StaysKept
<1>4. ASSUME NEW label \in {"reconcile", "filter", "pick"}, pop'[p].at = label,
             pop[p].at \in {"reconcile", "approved", "filter"},
             pop'[p].cand \subseteq pop[p].cand, pop'[p].flow = pop[p].flow,
             pop'[p].run = pop[p].run, pop'[p].snap = pop[p].snap, pop'[p].avail = pop[p].avail
      PROVE  SlotInv'
  <2>1. Wants(pop'[p]) = 0
    BY <1>4 DEF Wants, Wanting
  <2>2. pop'[p].avail + Wants(pop'[p]) <= pop[p].avail + Wants(pop[p])
    BY <1>0, <1>4, <2>1
  <2>3. Choosing(pop[p]) /\ ~Wanting(pop'[p])
    BY <1>4 DEF Choosing, Wanting
  <2>4. NotesPass(p)
    BY <1>0, <1>4, <2>2, <2>3 DEF NotesPass, Slotted
  <2>5. Promises(p)'
    BY <1>4, NothingPromised
  <2>. QED BY <1>0, <1>1, <2>4, <2>5, StaysKept
<1>5. CASE PollApproved(p)
  <2>1. PICK C \in SUBSET pop[p].cand : Become(p, [pop[p] EXCEPT !.at = "filter", !.cand = C])
    BY <1>0, <1>5 DEF PollApproved
  <2>2. pop'[p] = [pop[p] EXCEPT !.at = "filter", !.cand = C]
    BY <1>0, <2>1, BecomeFields
  <2>3. /\ pop'[p].at = "filter" /\ pop'[p].cand = C /\ pop'[p].flow = pop[p].flow
        /\ pop'[p].run = pop[p].run /\ pop'[p].snap = pop[p].snap
        /\ pop'[p].avail = pop[p].avail
    BY <1>0, <2>2 DEF Operation
  <2>. QED BY <1>4, <1>5, <2>3 DEF PollApproved
<1>6. CASE PollFilter(p)
  <2>1. PICK C \in SUBSET pop[p].cand : Become(p, [pop[p] EXCEPT !.at = "pick", !.cand = C])
    BY <1>0, <1>6 DEF PollFilter
  <2>2. pop'[p] = [pop[p] EXCEPT !.at = "pick", !.cand = C]
    BY <1>0, <2>1, BecomeFields
  <2>3. /\ pop'[p].at = "pick" /\ pop'[p].cand = C /\ pop'[p].flow = pop[p].flow
        /\ pop'[p].run = pop[p].run /\ pop'[p].snap = pop[p].snap
        /\ pop'[p].avail = pop[p].avail
    BY <1>0, <2>2 DEF Operation
  <2>. QED BY <1>4, <1>6, <2>3 DEF PollFilter
<1>7. ASSUME NEW r \in Runs, Reconcile(p, r) PROVE SlotInv'
  <2>1. PICK S : Become(p, [pop[p] EXCEPT !.todo = S])
    BY <1>7 DEF Reconcile
  <2>2. pop'[p] = [pop[p] EXCEPT !.todo = S]
    BY <1>0, <2>1, BecomeFields
  <2>3. /\ pop'[p].at = pop[p].at /\ pop'[p].cand = pop[p].cand /\ pop'[p].flow = pop[p].flow
        /\ pop'[p].run = pop[p].run /\ pop'[p].snap = pop[p].snap
        /\ pop'[p].avail = pop[p].avail
    BY <1>0, <2>2 DEF Operation
  <2>. QED BY <1>4, <1>7, <2>3 DEF Reconcile
<1>. QED BY <1>2, <1>3, <1>5, <1>6, <1>7

\* poll_once and check_runs list the rows.
LEMMA ListingSlots ==
  ASSUME \A x, y \in Procs : x = y, TypeOK, TypeOK', PollNotes, SlotInv, NEW p \in Procs,
         PollList(p) \/ CheckRuns(p) \/ CheckDone(p) \/ Crash(p)
  PROVE  SlotInv'
<1>0. /\ pop[p] \in Operation /\ Slotted(p) /\ NotesOK(pop[p])
      /\ Cardinality(Blocking) \in Nat /\ MaxConcurrent \in Nat
  BY CountSlots DEF TypeOK, SlotInv, PollNotes
<1>1. SlotsStay
  BY DEF PollList, CheckRuns, CheckDone, Crash, SlotsStay, AgentsEndOnly
<1>2. LiveAgentTakesSlot' /\ Blocking' = Blocking /\ runs' = runs
  BY <1>1, SlotsStayFacts DEF SlotsStay
<1>3. CASE PollReturns(p) \/ CheckDone(p) \/ Crash(p)
  BY <1>0, <1>1, <1>3, ReturnsPass, StaysKept
<1>4. ASSUME Slotted(p)', Promises(p)'
      PROVE  SlotInv'
  BY <1>2, <1>4 DEF SlotInv
<1>5. CASE PollList(p) /\ ~PollReturns(p)
  <2>. DEFINE C == Tasks \ {runs[r].task : r \in Blocking}
  <2>1. /\ pop[p].at = "reconcile"
        /\ Become(p, [pop[p] EXCEPT !.at = "approved", !.avail = Slots, !.cand = C])
    BY <1>5 DEF PollList
  <2>2. pop'[p] = [pop[p] EXCEPT !.at = "approved", !.avail = Slots, !.cand = C]
    BY <1>0, <2>1, BecomeFields
  <2>3. /\ pop'[p].at = "approved" /\ pop'[p].avail = Slots /\ pop'[p].cand = C
        /\ pop'[p].flow = pop[p].flow /\ pop'[p].run = pop[p].run /\ pop'[p].snap = pop[p].snap
    BY <1>0, <2>2 DEF Operation
  <2>4. \A r \in Blocking' : runs'[r].task \notin pop'[p].cand
    BY <1>2, <2>3
  <2>5. Wants(pop'[p]) = 0 /\ ~Wanting(pop'[p])
    BY <2>3 DEF Wants, Wanting
  <2>6. Cardinality(Blocking') + (pop'[p].avail + Wants(pop'[p])) <= MaxConcurrent
    BY <1>0, <1>2, <2>3, <2>5 DEF Slots
  <2>7. Choosing(pop[p])
    BY <2>1 DEF Choosing
  <2>. HIDE DEF C
  <2>8. Slotted(p)'
    BY <1>0, <1>2, <2>3, <2>4, <2>5, <2>6, <2>7 DEF Slotted
  <2>9. Promises(p)'
    BY <2>3, NothingPromised
  <2>. QED BY <1>4, <2>8, <2>9
<1>6. CASE CheckRuns(p)
  <2>. DEFINE S == [r \in Runs |-> IF runs[r].status \in ActiveStatuses THEN runs[r] ELSE NoRun]
  <2>1. pop'[p] = [Idle EXCEPT !.at = "check", !.snap = S]
    BY <1>0, <1>6, BecomeFields DEF CheckRuns
  <2>2. /\ pop'[p].at = "check" /\ pop'[p].run = None /\ pop'[p].flow = "none"
        /\ pop'[p].snap = S /\ pop'[p].cand = {} /\ pop'[p].avail = 0
    BY <2>1, IdleOK DEF Operation, Idle
  <2>3. Wants(pop'[p]) = 0 /\ ~Wanting(pop'[p]) /\ ~Choosing(pop'[p])
    BY <2>2 DEF Wants, Wanting, Choosing
  <2>4. \A r \in Runs : pop'[p].snap[r] # NoRun => runs'[r] = pop'[p].snap[r]
    BY <1>2, <2>2
  <2>5. Cardinality(Blocking') + (pop'[p].avail + Wants(pop'[p])) <= MaxConcurrent
    BY <1>0, <1>2, <2>2, <2>3 DEF SlotInv
  <2>. HIDE DEF S
  <2>6. Slotted(p)'
    BY <2>2, <2>3, <2>4, <2>5 DEF Slotted
  <2>7. Promises(p)'
    BY <2>2, NothingPromised
  <2>. QED BY <1>4, <2>6, <2>7
<1>. QED BY <1>3, <1>5, <1>6

\* _spawn_run, where it leaves the rows alone.
LEMMA SpawningSlots ==
  ASSUME \A x, y \in Procs : x = y, TypeOK, TypeOK', PollNotes, SlotInv, NEW p \in Procs,
         \/ RequestFind(p) \/ RequestLost(p) \/ StartTask(p) \/ ConfirmSpawning(p)
         \/ QuarantineSpawn(p) \/ ConfirmActive(p) \/ WriteStatus(p)
         \/ \E r \in Runs : RequestClaim(p, r)
  PROVE  SlotInv'
<1>0. pop[p] \in Operation /\ Slotted(p) /\ Promises(p) /\ NotesOK(pop[p])
  BY DEF TypeOK, SlotInv, PollNotes
<1>1. SlotsStay
  BY DEF RequestFind, RequestLost, StartTask, ConfirmSpawning, QuarantineSpawn, ConfirmActive,
         WriteStatus, RequestClaim, SlotsStay, AgentsEndOnly
<1>2. Blocking' = Blocking
  BY <1>1, SlotsStayFacts
<1>3. pop[p].flow = "spawn" /\ Choosing(pop[p]) /\ pop[p].snap = EmptyTable
  <2>1. pop[p].flow = "spawn"
    BY <1>0 DEF RequestFind, RequestLost, StartTask, ConfirmSpawning, QuarantineSpawn,
                ConfirmActive, WriteStatus, RequestClaim, NotesOK, Asking, Launching
  <2>. QED BY <1>0, <2>1 DEF Choosing, Slotted
<1>4. CASE Raise(p) \/ NextTask(p)
  BY <1>0, <1>1, <1>3, <1>4, ReturnsPass, StaysKept
<1>5. ASSUME NEW label, Go(p, label), label \in {"claim", "suppress", "spawn"},
             Wanting(pop'[p]) => Wanting(pop[p]), label = "spawn" => Starting(pop[p])
      PROVE  SlotInv'
  <2>1. NotesPass(p)
    BY <1>0, <1>5, GoFields, CallsPass
  <2>2. pop'[p].at = label /\ pop'[p].run = pop[p].run
    BY <1>5, GoFields
  <2>3. Promises(p)'
    <3>1. CASE label = "spawn"
      BY <1>0, <1>2, <1>5, <2>2, <3>1 DEF Promises, Updating
    <3>2. CASE label # "spawn"
      BY <1>5, <2>2, <3>2, NothingPromised
    <3>. QED BY <3>1, <3>2
  <2>. QED BY <1>1, <2>1, <2>3, StaysKept
<1>6. ASSUME NEW status \in {"SPAWNING", "RUNNING"}, NEW then, UpdateStatus(p, status, then),
             then = "confirm_spawning" => Starting(pop[p])
      PROVE  SlotInv'
  <2>1. /\ pop'[p].at = "update" /\ pop'[p].target = status /\ pop'[p].then = then
        /\ pop'[p].run = pop[p].run
    BY <1>6, UpdateStatusFields
  <2>2. NotesPass(p)
    BY <1>0, <1>6, <2>1, UpdateStatusFields, CallsPass DEF Wanting
  <2>3. Promises(p)'
    BY <1>0, <1>2, <1>6, <2>1 DEF Promises, Starting
  <2>. QED BY <1>1, <2>2, <2>3, StaysKept
<1>7. CASE RequestFind(p)
  BY <1>5, <1>7, GoFields DEF RequestFind, Wanting
<1>8. CASE RequestLost(p)
  BY <1>5, <1>8, GoFields DEF RequestLost, Wanting
<1>9. ASSUME NEW r \in Runs, RequestClaim(p, r) PROVE SlotInv'
  <2>1. pop'[p] = [pop[p] EXCEPT !.at = "save", !.run = r] /\ pop[p].at = "claim"
    BY <1>9, BecomeFields, <1>0 DEF RequestClaim
  <2>2. /\ pop'[p].at = "save" /\ pop'[p].run = r /\ pop'[p].flow = pop[p].flow
        /\ pop'[p].task = pop[p].task /\ pop'[p].snap = pop[p].snap
        /\ pop'[p].cand = pop[p].cand /\ pop'[p].avail = pop[p].avail
    BY <1>0, <2>1 DEF Operation
  <2>3. Wanting(pop[p]) /\ Wants(pop'[p]) = Wants(pop[p]) /\ pop[p].avail \in Nat
        /\ Wants(pop[p]) \in Nat
    BY <2>1, <2>2, CountSlots DEF Wanting, Wants
  <2>4. pop'[p].snap[r] = NoRun
    BY <1>3, <2>2 DEF EmptyTable
  <2>5. NotesPass(p)
    BY <1>3, <2>2, <2>3, <2>4 DEF NotesPass
  <2>6. Promises(p)'
    BY <2>2, NothingPromised
  <2>. QED BY <1>1, <2>5, <2>6, StaysKept
<1>10. CASE StartTask(p)
  <2>1. CASE Become(p, [pop[p] EXCEPT !.at = "update", !.flow = "denied", !.target = "FAILED",
                                      !.then = "mark_failed"])
    <3>1. pop'[p] = [pop[p] EXCEPT !.at = "update", !.flow = "denied", !.target = "FAILED",
                                   !.then = "mark_failed"]
      BY <1>0, <2>1, BecomeFields
    <3>2. /\ pop'[p].at = "update" /\ pop'[p].flow = "denied" /\ pop'[p].target = "FAILED"
          /\ pop'[p].then = "mark_failed" /\ pop'[p].run = pop[p].run
          /\ pop'[p].snap = pop[p].snap /\ pop'[p].cand = pop[p].cand
          /\ pop'[p].avail = pop[p].avail
      BY <1>0, <3>1 DEF Operation
    <3>3. Wants(pop'[p]) = 0 /\ pop[p].avail \in Nat /\ Wants(pop[p]) \in Nat /\ ~Wanting(pop'[p])
      BY <3>2, CountSlots DEF Wants, Wanting
    <3>4. NotesPass(p)
      BY <1>3, <3>2, <3>3 DEF NotesPass, EmptyTable
    <3>5. Promises(p)'
      BY <3>2, NothingPromised
    <3>. QED BY <1>1, <3>4, <3>5, StaysKept
  <2>2. Starting(pop[p])
    BY <1>10 DEF StartTask, Starting
  <2>. QED BY <1>4, <1>6, <1>10, <2>1, <2>2 DEF StartTask
<1>11. CASE ConfirmSpawning(p)
  BY <1>5, <1>11, GoFields DEF ConfirmSpawning, Wanting, Starting
<1>12. CASE ConfirmActive(p)
  BY <1>6, <1>12 DEF ConfirmActive
<1>. QED BY <1>4, <1>7, <1>8, <1>9, <1>10, <1>11, <1>12 DEF QuarantineSpawn, WriteStatus

\* check_runs takes a listed row; what it says is still so.
LEMMA CheckingSlots ==
  ASSUME \A x, y \in Procs : x = y, TypeOK', PollInv, SlotInv, NEW p \in Procs, NEW r \in Runs,
         CheckTimesOut(p, r) \/ CheckLeaves(p, r) \/ CheckFails(p, r) \/ CheckCompletes(p, r)
  PROVE  SlotInv'
<1>0. /\ TypeOK /\ Rows /\ Listed(pop[p]) /\ pop[p] \in Operation /\ Slotted(p)
      /\ pop[p].at = "check" /\ pop[p].flow = "none" /\ pop[p].avail \in Nat
  BY OwnFacts, CountSlots
  DEF SlotInv, NotesOK, Runless, CheckTimesOut, CheckLeaves, CheckFails, CheckCompletes
<1>1. SlotsStay
  BY DEF CheckTimesOut, CheckLeaves, CheckFails, CheckCompletes, SlotsStay, AgentsEndOnly
<1> DEFINE S == [pop[p].snap EXCEPT ![r] = NoRun]
<1>2. S[r] = NoRun /\ \A s \in Runs : S[s] \in {NoRun, pop[p].snap[s]}
  BY <1>0 DEF Operation, Table
<1>3. ASSUME pop'[p].snap = S, pop'[p].run \in {r, pop[p].run},
             pop'[p].cand = pop[p].cand, pop'[p].avail = pop[p].avail,
             pop'[p].at \in {"check", "update", "fail", "terminate"},
             pop'[p].flow \in {"none", "fail", "complete"}
      PROVE  NotesPass(p)
  <2>1. Wants(pop'[p]) = 0 /\ Wants(pop[p]) = 0 /\ ~Wanting(pop'[p]) /\ ~Choosing(pop'[p])
    BY <1>0, <1>3 DEF Wants, Wanting, Choosing
  <2>. QED BY <1>0, <1>2, <1>3, <2>1 DEF NotesPass
<1>4. CASE CheckLeaves(p, r)
  <2>1. pop'[p] = [pop[p] EXCEPT !.snap = S]
    BY <1>0, <1>4, BecomeFields DEF CheckLeaves
  <2>2. /\ pop'[p].at = "check" /\ pop'[p].flow = "none" /\ pop'[p].run = pop[p].run
        /\ pop'[p].snap = S /\ pop'[p].cand = pop[p].cand /\ pop'[p].avail = pop[p].avail
    BY <1>0, <2>1 DEF Operation
  <2>3. NotesPass(p)
    BY <1>3, <2>2
  <2>4. Promises(p)'
    BY <2>2, NothingPromised
  <2>. QED BY <1>0, <1>1, <2>3, <2>4, StaysKept
<1>5. CASE CheckTimesOut(p, r)
  <2>1. pop'[p] = [pop[p] EXCEPT !.at = "update", !.run = r, !.snap = S,
                                 !.target = "QUARANTINED", !.then = "check"]
    BY <1>0, <1>5, BecomeFields DEF CheckTimesOut
  <2>2. /\ pop'[p].at = "update" /\ pop'[p].flow = "none" /\ pop'[p].run = r
        /\ pop'[p].target = "QUARANTINED" /\ pop'[p].then = "check"
        /\ pop'[p].snap = S /\ pop'[p].cand = pop[p].cand /\ pop'[p].avail = pop[p].avail
    BY <1>0, <2>1 DEF Operation
  <2>3. NotesPass(p)
    BY <1>3, <2>2
  <2>4. Promises(p)'
    BY <2>2, NothingPromised
  <2>. QED BY <1>0, <1>1, <2>3, <2>4, StaysKept
<1>6. ASSUME NEW label \in {"fail", "terminate"}, NEW flow \in {"fail", "complete"},
             Check(p, r, label, flow),
             agent[r] = "ended" \/ runs[r].status \in {"RUNNING", "TERMINATING"}
      PROVE  SlotInv'
  <2> DEFINE t == pop[p].snap[r].task
  <2>1. pop'[p] = [pop[p] EXCEPT !.at = label, !.flow = flow, !.run = r, !.task = t, !.snap = S]
    BY <1>0, <1>6, BecomeFields DEF Check
  <2>2. /\ pop'[p].at = label /\ pop'[p].flow = flow /\ pop'[p].run = r
        /\ pop'[p].snap = S /\ pop'[p].cand = pop[p].cand /\ pop'[p].avail = pop[p].avail
    BY <1>0, <2>1 DEF Operation
  <2>3. NotesPass(p)
    BY <1>3, <2>2
  <2>4. agent'[r] = "ended" \/ runs'[r].status \in {"RUNNING", "TERMINATING"}
    BY <1>1, <1>6, <1>0, SlotsStayFacts DEF SlotsStay
  <2>5. Promises(p)'
    BY <2>2, <2>4 DEF Promises, Starting, Updating
  <2>. QED BY <1>0, <1>1, <2>3, <2>5, StaysKept
<1>7. CASE CheckFails(p, r)
  <2>1. agent[r] = "ended" \/ runs[r].status \in {"RUNNING", "TERMINATING"}
    BY <1>0, <1>7 DEF CheckFails, Rows, Listed, Slotted, Unresolved, ActiveStatuses
  <2>. QED BY <1>6, <1>7, <2>1 DEF CheckFails
<1>8. CASE CheckCompletes(p, r)
  <2>1. agent[r] = "ended"
    BY <1>0, <1>8 DEF CheckCompletes, Rows
  <2>. QED BY <1>6, <1>8, <2>1 DEF CheckCompletes
<1>. QED BY <1>4, <1>5, <1>7, <1>8

\* update_status reads, and the ends of a run before and after the write.
LEMMA EndingSlots ==
  ASSUME \A x, y \in Procs : x = y, TypeOK, TypeOK', PollNotes, SlotInv, NEW p \in Procs,
         UpdateRead(p) \/ Ending(p)
  PROVE  SlotInv'
<1>0. /\ pop[p] \in Operation /\ Slotted(p) /\ Promises(p) /\ NotesOK(pop[p])
      /\ pop[p].flow # "cancel"
  BY DEF TypeOK, SlotInv, PollNotes, Slotted
<1>1. SlotsStay
  <2>1. CASE KillAgent(p)
    BY <2>1 DEF KillAgent, Kill, SlotsStay, AgentsEndOnly, TypeOK
  <2>2. CASE ~KillAgent(p)
    BY <2>2 DEF Ending, UpdateRead, Terminate, CompleteTask, BeginTermination,
                ConfirmTerminated, FailRun, MarkFailed, Retry, SlotsStay, AgentsEndOnly
  <2>. QED BY <2>1, <2>2
<1>2. Blocking' = Blocking /\ runs' = runs /\ \A r \in Runs : agent[r] = "ended" => agent'[r] = "ended"
  BY <1>1, SlotsStayFacts DEF SlotsStay
<1>3. CASE Raise(p) \/ NextRun(p) \/ (NextTask(p) /\ pop[p].flow = "denied")
  BY <1>0, <1>1, <1>3, ReturnsPass, StaysKept DEF Choosing
<1>4. ASSUME NEW label, Go(p, label),
             label \in {"complete_task", "confirm_terminated", "retry"}
      PROVE  SlotInv'
  <2>1. NotesPass(p)
    BY <1>0, <1>4, GoFields, CallsPass DEF Wanting
  <2>2. pop'[p].at = label
    BY <1>4, GoFields
  <2>3. Promises(p)'
    BY <1>4, <2>2, NothingPromised
  <2>. QED BY <1>0, <1>1, <2>1, <2>3, StaysKept
<1>5. ASSUME NEW status \in {"FAILED", "COMPLETED"}, NEW then \in {"mark_failed", "begin_termination"},
             UpdateStatus(p, status, then)
      PROVE  SlotInv'
  <2>1. NotesPass(p)
    BY <1>0, <1>5, UpdateStatusFields, CallsPass DEF Wanting
  <2>2. pop'[p].at = "update" /\ pop'[p].target = status /\ pop'[p].then = then
    BY <1>5, UpdateStatusFields
  <2>3. Promises(p)'
    BY <2>2, NothingPromised
  <2>. QED BY <1>0, <1>1, <2>1, <2>3, StaysKept
<1>6. CASE UpdateRead(p)
  <2>1. CASE Go(p, "write")
    <3>1. pop[p].at = "update"
      BY <1>6 DEF UpdateRead
    <3>2. /\ pop'[p].at = "write" /\ pop'[p].target = pop[p].target
          /\ pop'[p].then = pop[p].then /\ pop'[p].run = pop[p].run /\ pop'[p].flow = pop[p].flow
      BY <2>1, GoFields
    <3>3. NotesPass(p)
      BY <1>0, <2>1, GoFields, CallsPass DEF Wanting
    <3>4. pop[p].run \in Runs
      BY <1>0, <3>1 DEF NotesOK, Runless, Asking
    <3>5. CASE Raise(p)
      BY <1>3, <3>5
    <3>6. CASE ~Raise(p)
      <4>1. \/ runs[pop[p].run] = NoRun
            \/ <<runs[pop[p].run].status, pop[p].target>> \in RunTransitions
        BY <1>6, <3>6 DEF UpdateRead
      <4>2. Starting(pop'[p]) => pop[p].run \in Blocking
        BY <1>0, <3>1, <3>2 DEF Promises, Starting, Updating
      <4>3. pop'[p].target = "CANCELLED" => agent'[pop[p].run] = "ended"
        BY <1>0, <1>2, <3>1, <3>2, <3>4 DEF Promises, Updating
      <4>4. Promises(p)'
        BY <1>2, <3>2, <4>1, <4>2, <4>3 DEF Promises
      <4>. QED BY <1>0, <1>1, <3>3, <4>4, StaysKept
    <3>. QED BY <3>5, <3>6
  <2>. QED BY <1>3, <1>6, <2>1 DEF UpdateRead
<1>7. ASSUME Terminate(p)
      PROVE  SlotInv'
  <2>0. pop[p].at = "terminate" /\ pop[p].run \in Runs /\ pop[p].flow \in {"fail", "complete"}
    BY <1>0, <1>7 DEF Terminate, NotesOK, Runless, Asking
  <2>1. PICK h : h = runs[pop[p].run].handle
    OBVIOUS
  <2>2. ASSUME NEW status \in {"TERMINATING", "CANCELLED"},
               status = "CANCELLED" => agent[pop[p].run] = "ended",
               Become(p, [[pop[p] EXCEPT !.handle = h]
                            EXCEPT !.at = "update", !.target = status, !.then = "kill"])
        PROVE  SlotInv'
    <3>1. pop'[p] = [[pop[p] EXCEPT !.handle = h]
                       EXCEPT !.at = "update", !.target = status, !.then = "kill"]
      BY <2>2, BecomeFields
    <3>2. /\ pop'[p].at = "update" /\ pop'[p].target = status /\ pop'[p].then = "kill"
          /\ pop'[p].run = pop[p].run /\ pop'[p].flow = pop[p].flow /\ pop'[p].task = pop[p].task
          /\ pop'[p].snap = pop[p].snap /\ pop'[p].cand = pop[p].cand
          /\ pop'[p].avail = pop[p].avail
      BY <1>0, <3>1 DEF Operation
    <3>3. NotesPass(p)
      BY <1>0, <3>2, CallsPass DEF Wanting
    <3>4. Promises(p)'
      BY <1>2, <2>0, <2>2, <3>2 DEF Promises, Starting
    <3>. QED BY <1>0, <1>1, <3>3, <3>4, StaysKept
  <2>3. ASSUME Become(p, [[pop[p] EXCEPT !.handle = h] EXCEPT !.at = "kill"])
        PROVE  SlotInv'
    <3>1. pop'[p] = [[pop[p] EXCEPT !.handle = h] EXCEPT !.at = "kill"]
      BY <2>3, BecomeFields
    <3>2. /\ pop'[p].at = "kill"
          /\ pop'[p].run = pop[p].run /\ pop'[p].flow = pop[p].flow /\ pop'[p].task = pop[p].task
          /\ pop'[p].snap = pop[p].snap /\ pop'[p].cand = pop[p].cand
          /\ pop'[p].avail = pop[p].avail
      BY <1>0, <3>1 DEF Operation
    <3>3. NotesPass(p)
      BY <1>0, <3>2, CallsPass DEF Wanting
    <3>4. Promises(p)'
      BY <3>2, NothingPromised
    <3>. QED BY <1>0, <1>1, <3>3, <3>4, StaysKept
  <2>4. runs[pop[p].run].status \in {"QUEUED", "QUARANTINED"} => agent[pop[p].run] = "ended"
    BY <1>0, <2>0 DEF Promises
  <2>. QED BY <1>7, <2>1, <2>2, <2>3, <2>4 DEF Terminate
<1>8. CASE KillAgent(p)
  <2>1. pop[p].flow \in {"fail", "complete"} /\ AfterKill(p)
    BY <1>0, <1>8 DEF KillAgent, NotesOK
  <2>2. CASE pop[p].flow = "complete"
    BY <1>4, <2>1, <2>2 DEF AfterKill
  <2>3. CASE pop[p].flow = "fail"
    BY <1>5, <2>1, <2>3 DEF AfterKill
  <2>. QED BY <2>1, <2>2, <2>3
<1>9. CASE FailRun(p)
  <2>0. pop[p].at = "fail" /\ pop[p].run \in Runs /\ pop[p].flow = "fail"
    BY <1>0, <1>9 DEF FailRun, NotesOK, Runless, Asking
  <2>1. PICK f : f = (runs[pop[p].run] # NoRun)
    OBVIOUS
  <2>2. pop'[p] = [pop[p] EXCEPT !.at = "terminate", !.found = f]
    BY <1>9, <2>1, BecomeFields DEF FailRun
  <2>3. /\ pop'[p].at = "terminate"
        /\ pop'[p].run = pop[p].run /\ pop'[p].flow = pop[p].flow /\ pop'[p].task = pop[p].task
        /\ pop'[p].snap = pop[p].snap /\ pop'[p].cand = pop[p].cand
        /\ pop'[p].avail = pop[p].avail
    BY <1>0, <2>2 DEF Operation
  <2>4. NotesPass(p)
    BY <1>0, <2>3, CallsPass DEF Wanting
  <2>5. Promises(p)'
    BY <1>0, <1>2, <2>0, <2>3 DEF Promises, Starting, Updating
  <2>. QED BY <1>0, <1>1, <2>4, <2>5, StaysKept
<1>10. CASE CompleteTask(p)
  BY <1>5, <1>10 DEF CompleteTask
<1>11. CASE BeginTermination(p) \/ ConfirmTerminated(p) \/ MarkFailed(p) \/ Retry(p)
  BY <1>0, <1>3, <1>4, <1>11 DEF BeginTermination, ConfirmTerminated, MarkFailed, Retry
<1>. QED BY <1>6, <1>7, <1>8, <1>9, <1>10, <1>11 DEF Ending

\* update_status writes: a status a run may leave a slot for comes after the kill.
LEMMA WritingSlots ==
  ASSUME \A x, y \in Procs : x = y, PollInv, TypeOK', KillInv, SlotInv, NEW p \in Procs,
         UpdateWrite(p)
  PROVE  SlotInv'
<1>0. /\ TypeOK /\ NotesOK(pop[p]) /\ PhaseOK(pop[p]) /\ pop[p] \in Operation
      /\ Slotted(p) /\ Promises(p) /\ pop[p].at = "write" /\ pop[p].flow # "cancel"
      /\ UNCHANGED agent
  BY OwnFacts DEF SlotInv, Slotted, UpdateWrite
<1> DEFINE r == pop[p].run
           status == pop[p].target
<1>1. UpdateCall(pop[p]) /\ r \in Runs /\ r # None /\ status \in PollRunStatus
  <2>1. UpdateCall(pop[p]) /\ r \in Runs
    BY <1>0 DEF NotesOK, Updating, Runless, Asking
  <2>. QED BY <2>1, NoneIsNoRun DEF UpdateCall, PollRunStatus
<1>2. CASE runs' = runs
  <2>1. SlotsStay
    BY <1>0, <1>2 DEF SlotsStay, AgentsEndOnly
  <2>2. CASE Raise(p)
    BY <1>0, <2>1, <2>2, ReturnsPass, StaysKept
  <2>3. CASE Updated(p)
    <3>1. pop'[p].at = pop[p].then /\ pop'[p].then = "idle" /\ pop'[p].run = r
      BY <1>0, <2>3, UpdatedFields
    <3>2. pop[p].then \in {"check", "confirm_spawning", "quarantine", "write_status",
                           "mark_failed", "kill", "begin_termination"}
      BY <1>0, <1>1 DEF UpdateCall
    <3>3. NotesPass(p)
      BY <1>0, <2>3, <3>1, <3>2, UpdatedFields, CallsPass DEF Wanting
    <3>4. pop[p].then = "confirm_spawning" => r \in Blocking
      BY <1>0 DEF Promises, Starting, Updating
    <3>5. Blocking' = Blocking
      BY <2>1, <1>0, SlotsStayFacts
    <3>6. Promises(p)'
      BY <3>1, <3>2, <3>4, <3>5 DEF Promises, Starting, Updating
    <3>. QED BY <1>0, <2>1, <3>3, <3>6, StaysKept
  <2>. QED BY <2>2, <2>3 DEF UpdateWrite
<1>3. CASE runs[r] # NoRun /\ Updated(p) /\ runs' = Written(r, status)
  <2>1. /\ \A s \in Runs : s # r => runs'[s] = runs[s]
        /\ runs'[r].status = status /\ runs'[r].task = runs[r].task
    BY <1>0, <1>1, <1>3, WrittenIsTable
  <2>2. r \in Blocking
    <3>1. <<runs[r].status, status>> \in RunTransitions
      BY <1>0, <1>3 DEF Promises
    <3>2. runs[r].status \in BlockingStatuses
      BY <3>1 DEF RunTransitions, BlockingStatuses, ActiveStatuses
    <3>. QED BY <1>1, <3>2 DEF Blocking
  <2>3. RowsPass(p)
    <3>1. Blocking' \subseteq Blocking
      BY <2>1, <2>2 DEF Blocking
    <3>2. pop[p].snap[r] = NoRun
      BY <1>0, <1>1 DEF Slotted
    <3>3. Blocking \subseteq Runs
      BY DEF Blocking
    <3>. QED BY <2>1, <3>1, <3>2, <3>3 DEF RowsPass
  <2>4. status \notin BlockingStatuses => agent[r] # "alive"
    <3>1. CASE status = "CANCELLED"
      BY <1>0, <3>1 DEF Promises, Updating
    <3>2. CASE pop[p].flow = "denied"
      <4>1. agent[r] = "none"
        BY <1>0, <1>1, <3>2 DEF PhaseOK, Unspawned, Own
      <4>. QED BY <4>1
    <3>3. CASE pop[p].then \in {"mark_failed", "begin_termination"} /\ pop[p].flow \in {"fail", "complete"}
      <4>1. Killed(pop[p])
        BY <1>0, <3>3 DEF Killed
      <4>2. agent[r] = "ended"
        BY <4>1 DEF KillInv, KilledIsDead
      <4>. QED BY <4>2
    <3>4. \/ status \in BlockingStatuses \/ status = "CANCELLED" \/ pop[p].flow = "denied"
          \/ pop[p].then \in {"mark_failed", "begin_termination"} /\ pop[p].flow \in {"fail", "complete"}
      BY <1>1 DEF UpdateCall, BlockingStatuses, ActiveStatuses
    <3>. QED BY <3>1, <3>2, <3>3, <3>4
  <2>5. LiveAgentTakesSlot'
    <3>1. ASSUME NEW s \in Runs, agent[s] = "alive" PROVE runs'[s].status \in BlockingStatuses
      <4>1. runs[s].status \in BlockingStatuses
        BY <3>1 DEF SlotInv, LiveAgentTakesSlot, Alive, Blocking
      <4>. QED BY <2>1, <2>4, <3>1, <4>1
    <3>. QED BY <1>0, <3>1 DEF LiveAgentTakesSlot, Alive, Blocking
  <2>6. pop'[p].at = pop[p].then /\ pop'[p].then = "idle" /\ pop'[p].run = r
    BY <1>0, <1>3, UpdatedFields
  <2>7. pop[p].then \in {"check", "confirm_spawning", "quarantine", "write_status",
                         "mark_failed", "kill", "begin_termination"}
    BY <1>0, <1>1 DEF UpdateCall
  <2>8. NotesPass(p)
    BY <1>0, <1>3, <2>6, <2>7, UpdatedFields, CallsPass DEF Wanting
  <2>9. pop[p].then = "confirm_spawning" => r \in Blocking'
    <3>1. pop[p].then = "confirm_spawning" => status = "SPAWNING"
      BY <1>1 DEF UpdateCall
    <3>. QED BY <1>1, <2>1, <3>1 DEF Blocking, BlockingStatuses, ActiveStatuses
  <2>10. Promises(p)'
    BY <2>6, <2>7, <2>9 DEF Promises, Starting, Updating
  <2>. QED BY <1>0, <2>3, <2>5, <2>8, <2>10, SlotKept
<1>. QED BY <1>0, <1>2, <1>3, Zenon DEF UpdateWrite

\* save: the run takes the slot that was counted for it.
LEMMA SavingSlots ==
  ASSUME \A x, y \in Procs : x = y, PollInv, TypeOK', ClaimInv, SlotInv, NEW p \in Procs,
         SaveRun(p)
  PROVE  SlotInv'
<1>0. /\ TypeOK /\ NotesOK(pop[p]) /\ pop[p] \in Operation
      /\ Slotted(p) /\ pop[p].at = "save" /\ UNCHANGED agent
  BY OwnFacts DEF SlotInv, SaveRun
<1> DEFINE r == pop[p].run
           t == pop[p].task
<1>1. r \in Runs /\ r # None /\ pop[p].flow = "spawn" /\ runs[r] = NoRun
  <2>1. r \in Runs /\ pop[p].flow = "spawn"
    BY <1>0 DEF NotesOK, Runless, Asking, Launching
  <2>2. runs[r] = NoRun
    BY <1>0 DEF PollInv, SaveIsFirst
  <2>. QED BY <2>1, <2>2, NoneIsNoRun
<1>2. Wanting(pop[p]) /\ Choosing(pop[p]) /\ pop[p].snap = EmptyTable
  BY <1>0, <1>1 DEF Wanting, Choosing, Slotted
<1>3. \A s \in Runs : s # r => runs'[s] = runs[s]
  <2>1. ASSUME NEW s \in Runs PROVE ~(runs[s].task = t /\ runs[s].status \in IndexedStatuses)
    BY <1>0, <1>2 DEF Slotted, Blocking, BlockingStatuses, ActiveStatuses, IndexedStatuses
  <2>. QED BY <2>1 DEF SaveRun
<1>4. runs'[r].status = "QUEUED" /\ runs'[r].task = t
  BY <1>1 DEF SaveRun, NoRun
<1>5. r \notin Blocking /\ Blocking' = Blocking \cup {r}
  BY <1>1, <1>3, <1>4 DEF Blocking, NoRun, BlockingStatuses, ActiveStatuses
<1>6. /\ Cardinality(Blocking') = Cardinality(Blocking) + 1
      /\ Cardinality(Blocking) \in Nat /\ MaxConcurrent \in Nat /\ pop[p].avail \in Nat
  BY <1>0, <1>5, CountSlots, FS_AddElement
<1>7. /\ pop'[p].at = "start" /\ pop'[p].run = r /\ pop'[p].flow = "spawn"
      /\ pop'[p].task = t /\ pop'[p].snap = EmptyTable
      /\ pop'[p].cand = pop[p].cand /\ pop'[p].avail = pop[p].avail
  BY <1>0, <1>1, <1>2, GoFields DEF SaveRun
<1>8. Wants(pop[p]) = 1 /\ Wants(pop'[p]) = 0 /\ ~Wanting(pop'[p])
  BY <1>2, <1>7 DEF Wants, Wanting
<1>9. Slotted(p)'
  <2>1. Cardinality(Blocking) + (pop[p].avail + Wants(pop[p])) <= MaxConcurrent
    BY <1>0 DEF Slotted
  <2>2. Cardinality(Blocking') + (pop'[p].avail + Wants(pop'[p])) <= MaxConcurrent
    BY <1>6, <1>7, <1>8, <2>1
  <2>3. \A s \in Blocking' : runs'[s].task \notin pop'[p].cand
    <3>1. t \notin pop[p].cand
      BY <1>1 DEF ClaimInv, PickedIsFree
    <3>2. Blocking \subseteq Runs
      BY DEF Blocking
    <3>. QED BY <1>0, <1>3, <1>4, <1>5, <1>7, <3>1, <3>2 DEF Slotted
  <2>4. \A s \in Runs : pop'[p].snap[s] = NoRun
    BY <1>7 DEF EmptyTable
  <2>. QED BY <1>1, <1>7, <1>8, <2>2, <2>3, <2>4 DEF Slotted
<1>10. Promises(p)'
  BY <1>5, <1>7 DEF Promises, Starting, Updating
<1>11. Cardinality(Blocking') <= MaxConcurrent
  <2>1. Cardinality(Blocking) + (pop[p].avail + 1) <= MaxConcurrent
    BY <1>0, <1>8 DEF Slotted
  <2>. QED BY <1>6, <2>1
<1>12. LiveAgentTakesSlot'
  BY <1>0, <1>5 DEF SlotInv, LiveAgentTakesSlot, Alive
<1>. QED BY <1>9, <1>10, <1>11, <1>12 DEF SlotInv

\* A run that is suppressed takes no slot; one whose metadata is recorded keeps its.
LEMMA RecordingSlots ==
  ASSUME \A x, y \in Procs : x = y, PollInv, TypeOK', SlotInv, NEW p \in Procs,
         RecordMetadata(p) \/ \E r \in Runs : Suppress(p, r)
  PROVE  SlotInv'
<1>0. /\ TypeOK /\ NotesOK(pop[p]) /\ PhaseOK(pop[p]) /\ pop[p] \in Operation /\ Slotted(p)
      /\ pop[p].flow = "spawn" /\ UNCHANGED agent
  BY OwnFacts DEF SlotInv, RecordMetadata, Suppress, NotesOK, Asking, Launching
<1>1. Choosing(pop[p]) /\ \A s \in Runs : pop[p].snap[s] = NoRun
  BY <1>0 DEF Choosing, Slotted, EmptyTable
<1>2. ASSUME NotesPass(p), Promises(p)',
             Blocking' = Blocking, \A s \in Blocking : runs'[s].task = runs[s].task
      PROVE  SlotInv'
  <2>1. RowsPass(p)
    BY <1>1, <1>2 DEF RowsPass
  <2>2. LiveAgentTakesSlot'
    BY <1>0, <1>2 DEF SlotInv, LiveAgentTakesSlot, Alive
  <2>. QED BY <1>0, <1>2, <2>1, <2>2, SlotKept
<1>3. CASE RecordMetadata(p)
  <2> DEFINE r == pop[p].run
  <2>1. pop[p].at = "record" /\ r \in Runs /\ runs[r] # NoRun
    BY <1>0, <1>3 DEF RecordMetadata, NotesOK, Runless, Asking, PhaseOK
  <2>2. /\ \A s \in Runs : s # r => runs'[s] = runs[s]
        /\ runs'[r].status = runs[r].status /\ runs'[r].task = runs[r].task
    <3>1. runs[r] \in PollRun
      BY <1>0, <2>1, RowsOfTable DEF TypeOK
    <3>2. runs' = [runs EXCEPT ![r] = [runs[r] EXCEPT !.handle = TRUE]]
      BY <1>0, <1>3, <2>1 DEF RecordMetadata, TypeOK, Table
    <3>3. /\ [runs[r] EXCEPT !.handle = TRUE].status = runs[r].status
          /\ [runs[r] EXCEPT !.handle = TRUE].task = runs[r].task
      BY <3>1 DEF PollRun
    <3>. QED BY <1>0, <2>1, <3>2, <3>3 DEF TypeOK, Table
  <2>3. Blocking' = Blocking /\ \A s \in Blocking : runs'[s].task = runs[s].task
    BY <2>2 DEF Blocking
  <2>4. NotesPass(p)
    BY <1>0, <1>3, GoFields, CallsPass DEF RecordMetadata, Wanting
  <2>5. pop'[p].at = "confirm_active"
    BY <1>0, <1>3, GoFields DEF RecordMetadata
  <2>6. Promises(p)'
    BY <2>5, NothingPromised
  <2>. QED BY <1>2, <2>3, <2>4, <2>6
<1>4. ASSUME NEW r \in Runs, Suppress(p, r) PROVE SlotInv'
  <2>1. /\ \A s \in Runs : s # r => runs'[s] = runs[s]
        /\ runs'[r].status = "CANCELLED" /\ runs[r] = NoRun
    BY <1>0, <1>4 DEF Suppress, TypeOK, Table, NoRun, Fresh
  <2>2. r \notin Blocking /\ Blocking' = Blocking
    BY <2>1 DEF Blocking, NoRun, BlockingStatuses, ActiveStatuses
  <2>3. \A s \in Blocking : runs'[s].task = runs[s].task
    BY <2>1, <2>2 DEF Blocking
  <2>4. NotesPass(p) /\ Promises(p)'
    BY <1>0, <1>1, <1>4, ReturnsPass DEF Suppress
  <2>. QED BY <1>2, <2>2, <2>3, <2>4
<1>. QED BY <1>3, <1>4

\* An agent is spawned for a run that has its slot.
LEMMA SpawnAgentSlots ==
  ASSUME \A x, y \in Procs : x = y, PollInv, TypeOK', SlotInv, NEW p \in Procs, SpawnAgent(p)
  PROVE  SlotInv'
<1>0. /\ TypeOK /\ NotesOK(pop[p]) /\ Slotted(p) /\ Promises(p)
      /\ pop[p].at = "spawn" /\ UNCHANGED runs
  BY OwnFacts DEF SlotInv, SpawnAgent
<1>1. pop[p].run \in Blocking
  BY <1>0 DEF Promises, Starting
<1>2. RowsPass(p) /\ Blocking' = Blocking
  BY <1>0 DEF RowsPass, Blocking
<1>3. LiveAgentTakesSlot'
  <2>1. \A s \in Runs : agent'[s] = agent[s] \/ s = pop[p].run
    BY <1>0 DEF SpawnAgent, TypeOK
  <2>. QED BY <1>1, <1>2, <2>1 DEF SlotInv, LiveAgentTakesSlot, Alive
<1>4. CASE UpdateStatus(p, "QUARANTINED", "quarantine")
  <2>1. NotesPass(p)
    BY <1>0, <1>4, UpdateStatusFields, CallsPass DEF Wanting
  <2>2. pop'[p].at = "update" /\ pop'[p].target = "QUARANTINED" /\ pop'[p].then = "quarantine"
    BY <1>0, <1>4, UpdateStatusFields
  <2>3. Promises(p)'
    BY <2>2, NothingPromised
  <2>. QED BY <1>0, <1>2, <1>3, <2>1, <2>3, SlotKept
<1>5. CASE Go(p, "record")
  <2>1. NotesPass(p)
    BY <1>0, <1>5, GoFields, CallsPass DEF Wanting
  <2>2. pop'[p].at = "record"
    BY <1>0, <1>5, GoFields
  <2>3. Promises(p)'
    BY <2>2, NothingPromised
  <2>. QED BY <1>0, <1>2, <1>3, <2>1, <2>3, SlotKept
<1>. QED BY <1>4, <1>5 DEF SpawnAgent

LEMMA SlotStep ==
  ASSUME \A x, y \in Procs : x = y, Cancellers = {},
         PollInv, PollInv', KillInv, ClaimInv, SlotInv, Next
  PROVE  SlotInv'
<1>0. TypeOK /\ TypeOK' /\ PollNotes
  BY DEF PollInv
<1>1. ASSUME NEW p \in Procs, Step(p) PROVE SlotInv'
  <2>1. CASE \/ PollOnce(p) \/ PollApproved(p) \/ PollFilter(p) \/ PollDone(p)
             \/ (\E r \in Runs : Reconcile(p, r)) \/ (\E t \in Tasks : PickTask(p, t))
    BY <1>0, <2>1, ChoosingSlots
  <2>2. CASE PollList(p) \/ CheckRuns(p) \/ CheckDone(p)
    BY <1>0, <2>2, ListingSlots
  <2>3. ASSUME NEW r \in Runs, \/ CheckTimesOut(p, r) \/ CheckLeaves(p, r)
                               \/ CheckFails(p, r) \/ CheckCompletes(p, r)
        PROVE  SlotInv'
    BY <1>0, <2>3, CheckingSlots
  <2>4. CASE UpdateRead(p) \/ Ending(p)
    BY <1>0, <2>4, EndingSlots
  <2>5. CASE UpdateWrite(p)
    BY <1>0, <2>5, WritingSlots
  <2>6. CASE Spawning(p)
    <3>1. CASE \/ RequestFind(p) \/ RequestLost(p) \/ StartTask(p) \/ ConfirmSpawning(p)
               \/ QuarantineSpawn(p) \/ ConfirmActive(p) \/ WriteStatus(p)
               \/ \E r \in Runs : RequestClaim(p, r)
      BY <1>0, <3>1, SpawningSlots
    <3>2. CASE SaveRun(p)
      BY <1>0, <3>2, SavingSlots
    <3>3. CASE RecordMetadata(p) \/ \E r \in Runs : Suppress(p, r)
      BY <1>0, <3>3, RecordingSlots
    <3>4. CASE SpawnAgent(p)
      BY <1>0, <3>4, SpawnAgentSlots
    <3>. QED BY <2>6, <3>1, <3>2, <3>3, <3>4 DEF Spawning
  <2>. QED BY <1>1, <2>1, <2>2, <2>3, <2>4, <2>5, <2>6 DEF Step
<1>2. ASSUME NEW p \in Procs, Crash(p) PROVE SlotInv'
  BY <1>0, <1>2, ListingSlots
<1>3. ASSUME UNCHANGED pop, SlotsStay PROVE SlotInv'
  <2>1. \A p \in Procs : NotesPass(p) /\ Slotted(p)' /\ Promises(p)'
    <3> SUFFICES ASSUME NEW p \in Procs PROVE NotesPass(p) /\ Slotted(p)' /\ Promises(p)'
      OBVIOUS
    <3>1. Slotted(p) /\ Promises(p) /\ NotesOK(pop[p])
      BY <1>0 DEF SlotInv, PollNotes
    <3>2. pop[p].avail + Wants(pop[p]) \in Nat
      BY <1>0, CountSlots
    <3>3. NotesPass(p)
      BY <1>3, <3>1, <3>2 DEF NotesPass, Slotted, Wants, Wanting, Choosing
    <3>4. Slotted(p)'
      BY <1>0, <1>3, <3>1, <3>3, SlotsPass, SlotsStayFacts
    <3>5. runs' = runs /\ Blocking' = Blocking
          /\ \A r \in Runs : agent[r] = "ended" => agent'[r] = "ended"
      BY <1>3, SlotsStayFacts DEF SlotsStay
    <3>6. pop[p].at \in {"fail", "terminate"} \cup Updating => pop[p].run \in Runs
      BY <3>1 DEF NotesOK, Runless, Asking, Updating
    <3>7. Promises(p)'
      BY <1>3, <3>1, <3>5, <3>6 DEF Promises, Starting, Updating
    <3>. QED BY <3>3, <3>4, <3>7
  <2>2. LiveAgentTakesSlot' /\ Cardinality(Blocking') <= MaxConcurrent
    BY <1>3 DEF SlotsStay, AgentsEndOnly, SlotInv, LiveAgentTakesSlot, Alive, Blocking
  <2>. QED BY <2>1, <2>2 DEF SlotInv
<1>4. ASSUME NEW r \in Runs, LeaseExpires(r) PROVE SlotInv'
  BY <1>3, <1>4 DEF LeaseExpires, SlotsStay, AgentsEndOnly
<1>5. ASSUME NEW r \in Runs, NEW outcome \in AgentOutcomes, AgentEnds(r, outcome)
      PROVE  SlotInv'
  <2>1. UNCHANGED pop /\ SlotsStay
    BY <1>0, <1>5 DEF AgentEnds, SlotsStay, AgentsEndOnly, TypeOK
  <2>. QED BY <1>3, <2>1
<1>6. ASSUME NEW p \in Procs, NEW r \in Runs, CancelRun(p, r) PROVE SlotInv'
  BY <1>6 DEF CancelRun
<1>. QED BY <1>1, <1>2, <1>4, <1>5, <1>6 DEF Next

LEMMA SlotInvariant ==
  ASSUME \A x, y \in Pollers : x = y, Cancellers = {}, ~KillFails
  PROVE  Spec => []SlotInv
<1>0. \A x, y \in Procs : x = y
  BY DEF Procs
<1>1. Init => SlotInv
  <2> SUFFICES ASSUME Init PROVE SlotInv
    OBVIOUS
  <2>1. Blocking = {} /\ Alive = {}
    BY DEF Init, Blocking, Alive, EmptyTable, NoRun, BlockingStatuses, ActiveStatuses
  <2>2. Cardinality(Blocking) = 0 /\ MaxConcurrent \in Nat
    BY <2>1, FS_EmptySet, PollAssumption
  <2>3. ASSUME NEW p \in Procs PROVE Slotted(p) /\ Promises(p)
    <3>1. pop[p] = Idle
      BY DEF Init
    <3>2. /\ Idle.at = "idle" /\ Idle.flow = "none" /\ Idle.run = None /\ Idle.snap = EmptyTable
          /\ Idle.avail = 0
      BY DEF Idle
    <3>3. Wants(pop[p]) = 0 /\ ~Wanting(pop[p])
      BY <3>1, <3>2 DEF Wants, Wanting
    <3>4. Slotted(p)
      BY <2>1, <2>2, <3>1, <3>2, <3>3 DEF Slotted, EmptyTable
    <3>5. Promises(p)
      BY <3>1, <3>2 DEF Promises, Starting, Updating
    <3>. QED BY <3>4, <3>5
  <2>. QED BY <2>1, <2>2, <2>3 DEF SlotInv, LiveAgentTakesSlot
<1>2. PollInv /\ PollInv' /\ KillInv /\ ClaimInv /\ SlotInv /\ Next => SlotInv'
  BY <1>0, SlotStep
<1>3. SlotInv /\ UNCHANGED vars => SlotInv'
  BY DEF SlotInv, LiveAgentTakesSlot, Alive, Blocking, Slotted, Promises, Starting, Updating,
         Choosing, Wanting, Wants, vars
<1>4. PollInv /\ PollInv' /\ KillInv /\ ClaimInv /\ SlotInv /\ [Next]_vars => SlotInv'
  BY <1>2, <1>3
<1>. QED BY <1>1, <1>4, PollInvariant, KillInvariant, ClaimInvariant, PTL DEF Spec

\* A run leaves the statuses that take a slot only when its agent is dead, or
\* never was: a refused start, a kill that came first, or a run that was QUEUED
\* or QUARANTINED when its agent had ended.  So with one poller, restarts
\* included, and no cancel command no agent is alive beside the runs that
\* poll_once counts.
THEOREM LiveAgentsTakeSlots ==
  ASSUME \A x, y \in Pollers : x = y, Cancellers = {}, ~KillFails
  PROVE  Spec => []LiveAgentTakesSlot
<1>1. SlotInv => LiveAgentTakesSlot
  BY DEF SlotInv
<1>. QED BY <1>1, SlotInvariant, PTL

\* Nor are there more live agents than max_concurrent: the slots poll_once
\* counts once are handed out one by one, and what the poller has in hand, the
\* slots left and the run it is about to save, never exceeds what is free.
THEOREM AgentsFitTheCap ==
  ASSUME \A x, y \in Pollers : x = y, Cancellers = {}, ~KillFails
  PROVE  Spec => []AgentsWithinCap
<1>1. TypeOK /\ SlotInv => AgentsWithinCap
  <2> SUFFICES ASSUME TypeOK, SlotInv PROVE AgentsWithinCap
    OBVIOUS
  <2>1. IsFiniteSet(Blocking) /\ Cardinality(Blocking) \in Nat /\ Cardinality(Alive) \in Nat
    BY CountRuns DEF Blocking, Alive
  <2>2. Cardinality(Alive) <= Cardinality(Blocking)
    BY <2>1, FS_Subset DEF SlotInv, LiveAgentTakesSlot
  <2>3. Cardinality(Blocking) <= MaxConcurrent /\ MaxConcurrent \in Nat
    BY PollAssumption DEF SlotInv
  <2>. QED BY <2>1, <2>2, <2>3 DEF AgentsWithinCap
<1>2. PollInv => TypeOK
  BY DEF PollInv
<1>. QED BY <1>1, <1>2, PollInvariant, SlotInvariant, PTL

-----------------------------------------------------------------------------
(*****************************************************************************)
(* The slots of the tasks.  Polling implements LaunchSlots, through          *)
(* RunSlots.                                                                 *)
(*****************************************************************************)

\* A launch that holds its slot.
InFlight(r) == reg[r].status \in LaunchInFlight

\* A step that claims nothing and moves at most launch g on.
LEMMA MovedLaunch ==
  ASSUME TypeOK, NEW g \in Runs,
         \A r \in Runs :
           /\ reg'[r].key = reg[r].key
           /\ reg'[r].status = "ABSENT" <=> reg[r].status = "ABSENT"
           /\ InFlight(r)' => InFlight(r)
           /\ r # g => (InFlight(r) => InFlight(r)')
  PROVE  [RunSlots!Next]_(RunSlots!slotVars)
<1> DEFINE heldBar == [t \in Tasks |-> InFlightOf(t)]
<1>1. /\ \A t : InFlightOf(t) = {r \in Runs : reg[r].key = t /\ InFlight(r)}
      /\ \A t : InFlightOf(t)' = {r \in Runs : reg'[r].key = t /\ InFlight(r)'}
  BY DEF InFlightOf, InFlight
<1>2. {r \in Runs : reg[r].status # "ABSENT"}' = {r \in Runs : reg[r].status # "ABSENT"}
  OBVIOUS
<1>3. ASSUME InFlight(g), ~InFlight(g)', reg[g].key \in Tasks
      PROVE  RunSlots!Next
  <2>1. PICK k \in Tasks : k = reg[g].key
    BY <1>3
  <2>2. g \in InFlightOf(k)
    BY <1>1, <1>3, <2>1
  <2>3. \A t \in Tasks : InFlightOf(t)' = IF t = k THEN InFlightOf(k) \ {g} ELSE InFlightOf(t)
    BY <1>1, <1>3, <2>1
  <2>4. heldBar' = [heldBar EXCEPT ![k] = heldBar[k] \ {g}]
    BY <2>3
  <2>5. RunSlots!Release(k, g)
    BY <1>2, <2>2, <2>4 DEF RunSlots!Release
  <2>. QED BY <2>5 DEF RunSlots!Next
<1>4. CASE ~(InFlight(g) /\ ~InFlight(g)' /\ reg[g].key \in Tasks)
  <2>1. \A r \in Runs : reg[r].key \in Tasks => (InFlight(r)' <=> InFlight(r))
    BY <1>4
  <2>2. \A t \in Tasks : InFlightOf(t)' = InFlightOf(t)
    BY <1>1, <2>1
  <2>3. heldBar' = heldBar
    BY <2>2
  <2>. QED BY <1>2, <2>3 DEF RunSlots!slotVars
<1>. QED BY <1>3, <1>4

\* A compare-and-set on one launch moves it on, or takes it out of flight.
LEMMA MoveTakesNothing ==
  ASSUME TypeOK, NEW l \in Runs, NEW from \in SUBSET LaunchBlocking,
         NEW to \in LaunchBlocking \cup {"TERMINATED", "FAILED"},
         to \in LaunchInFlight => from \subseteq LaunchInFlight,
         MoveLaunch(l, from, to)
  PROVE  [RunSlots!Next]_(RunSlots!slotVars)
<1>1. /\ \A r \in Runs : r # l => reg'[r] = reg[r]
      /\ reg'[l].key = reg[l].key
      /\ reg'[l].status = IF reg[l].status \in from THEN to ELSE reg[l].status
  BY MoveLaunchFacts
<1>2. "ABSENT" \notin from /\ to # "ABSENT"
  BY DEF LaunchBlocking, LaunchInFlight
<1>3. \A r \in Runs :
        /\ reg'[r].key = reg[r].key
        /\ reg'[r].status = "ABSENT" <=> reg[r].status = "ABSENT"
        /\ InFlight(r)' => InFlight(r)
        /\ r # l => (InFlight(r) => InFlight(r)')
  BY <1>1, <1>2 DEF InFlight
<1>. QED BY <1>3, MovedLaunch

\* request_launch takes a slot that is free.
LEMMA ClaimTakes ==
  ASSUME TypeOK, PollNotes, NEW p \in Procs, NEW r \in Runs, RequestClaim(p, r)
  PROVE  RunSlots!Next
<1> DEFINE heldBar == [t \in Tasks |-> InFlightOf(t)]
<1>1. PICK k \in Tasks : k = pop[p].task
  BY DEF RequestClaim, PollNotes, NotesOK, Asking
<1>2. /\ reg[r] = NoLaunch
      /\ \A s \in Runs : reg[s].key = k => reg[s].status \notin LaunchInFlight
  BY <1>1 DEF RequestClaim, Fresh, Claimable
<1>3. /\ reg'[r].status = "RESERVED" /\ reg'[r].key = k
      /\ \A s \in Runs \ {r} : reg'[s] = reg[s]
  BY <1>1 DEF RequestClaim, TypeOK
<1>4. InFlightOf(k) = {}
  BY <1>2 DEF InFlightOf
<1>5. reg[r].status = "ABSENT" /\ reg[r].status \notin LaunchInFlight
      /\ "RESERVED" \in LaunchInFlight
  BY <1>2 DEF NoLaunch, LaunchInFlight
<1>6. \A t \in Tasks : InFlightOf(t)' = IF t = k THEN {r} ELSE InFlightOf(t)
  <2>1. \A t \in Tasks : \A s \in Runs \ {r} : s \in InFlightOf(t)' <=> s \in InFlightOf(t)
    BY <1>3 DEF InFlightOf
  <2>2. \A t \in Tasks : r \in InFlightOf(t)' <=> t = k
    BY <1>3, <1>5 DEF InFlightOf
  <2>3. \A t \in Tasks : r \notin InFlightOf(t)
    BY <1>5 DEF InFlightOf
  <2>4. \A t \in Tasks : InFlightOf(t) \subseteq Runs /\ InFlightOf(t)' \subseteq Runs
    BY DEF InFlightOf
  <2>. QED BY <1>4, <2>1, <2>2, <2>3, <2>4
<1>7. heldBar' = [heldBar EXCEPT ![k] = {r}]
  BY <1>6
<1>8. {s \in Runs : reg[s].status # "ABSENT"}' = {s \in Runs : reg[s].status # "ABSENT"} \cup {r}
  BY <1>3
<1>9. RunSlots!Acquire(k, r)
  BY <1>4, <1>5, <1>7, <1>8 DEF RunSlots!Acquire
<1>. QED BY <1>9 DEF RunSlots!Next

\* Every step of Polling takes a slot, gives one back, or leaves them alone.
LEMMA NextMovesSlots ==
  ASSUME TypeOK, PollNotes, Next
  PROVE  [RunSlots!Next]_(RunSlots!slotVars)
<1>0. ASSUME UNCHANGED reg PROVE [RunSlots!Next]_(RunSlots!slotVars)
  BY <1>0 DEF RunSlots!slotVars, InFlightOf
<1>s. /\ {"RESERVED"} \in SUBSET LaunchBlocking /\ {"RESERVED", "SPAWNING"} \in SUBSET LaunchBlocking
      /\ {"RESERVED", "SPAWNING", "ACTIVE"} \in SUBSET LaunchBlocking
      /\ {"ACTIVE"} \in SUBSET LaunchBlocking /\ {"TERMINATING"} \in SUBSET LaunchBlocking
      /\ "SPAWNING" \in LaunchBlocking /\ "QUARANTINED" \in LaunchBlocking
      /\ "TERMINATING" \in LaunchBlocking /\ LaunchBlocking \in SUBSET LaunchBlocking
      /\ {"RESERVED"} \subseteq LaunchInFlight /\ {"ACTIVE"} \subseteq LaunchInFlight
      /\ "QUARANTINED" \notin LaunchInFlight
      /\ "TERMINATED" \notin LaunchInFlight /\ "FAILED" \notin LaunchInFlight
  BY DEF LaunchBlocking, LaunchInFlight
<1>r. \A p \in Procs : pop[p].at \notin Runless \cup Asking => pop[p].run \in Runs
  BY DEF PollNotes, NotesOK
<1>1. ASSUME NEW p \in Procs, Spawning(p)
      PROVE  [RunSlots!Next]_(RunSlots!slotVars)
  <2>1. CASE RequestFind(p)
    <3>1. \/ UNCHANGED reg
          \/ \E l \in Runs : MoveLaunch(l, {"RESERVED", "SPAWNING"}, "QUARANTINED")
      BY <2>1 DEF RequestFind, FindActive
    <3>. QED BY <1>0, <1>s, <3>1, MoveTakesNothing
  <2>2. ASSUME NEW r \in Runs, RequestClaim(p, r)
        PROVE  RunSlots!Next
    BY <2>2, ClaimTakes
  <2>3. CASE ConfirmSpawning(p)
    <3>1. pop[p].run \in Runs
      BY <1>r, <2>3 DEF ConfirmSpawning, Runless, Asking
    <3>. QED BY <1>s, <2>3, <3>1, MoveTakesNothing DEF ConfirmSpawning
  <2>4. CASE QuarantineSpawn(p)
    <3>1. pop[p].run \in Runs
      BY <1>r, <2>4 DEF QuarantineSpawn, Runless, Asking
    <3>. QED BY <1>s, <2>4, <3>1, MoveTakesNothing DEF QuarantineSpawn, QuarantineLaunch
  <2>5. CASE ConfirmActive(p)
    <3>1. PICK l \in Runs : l = pop[p].run
      BY <1>r, <2>5 DEF ConfirmActive, Runless, Asking
    <3>2. CASE reg[l].status = "SPAWNING"
      <4>1. reg[l] \in Launch
        BY <3>2 DEF TypeOK, NoLaunch
      <4>2. reg' = [reg EXCEPT ![l] = [reg[l] EXCEPT !.status = "ACTIVE", !.lease = "none"]]
        BY <2>5, <3>1, <3>2 DEF ConfirmActive, TypeOK
      <4>3. /\ [reg[l] EXCEPT !.status = "ACTIVE", !.lease = "none"].status = "ACTIVE"
            /\ [reg[l] EXCEPT !.status = "ACTIVE", !.lease = "none"].key = reg[l].key
        BY <4>1 DEF Launch
      <4>4. /\ reg'[l].status = "ACTIVE" /\ reg'[l].key = reg[l].key
            /\ \A r \in Runs : r # l => reg'[r] = reg[r]
        BY <4>2, <4>3 DEF TypeOK
      <4>5. \A r \in Runs :
              /\ reg'[r].key = reg[r].key
              /\ reg'[r].status = "ABSENT" <=> reg[r].status = "ABSENT"
              /\ InFlight(r)' => InFlight(r)
              /\ r # l => (InFlight(r) => InFlight(r)')
        BY <3>2, <4>4 DEF InFlight, LaunchInFlight
      <4>. QED BY <4>5, MovedLaunch
    <3>3. CASE reg[l].status # "SPAWNING"
      BY <1>0, <2>5, <3>1, <3>3 DEF ConfirmActive
    <3>. QED BY <3>2, <3>3
  <2>6. CASE RequestLost(p) \/ SaveRun(p) \/ StartTask(p) \/ SpawnAgent(p)
             \/ RecordMetadata(p) \/ WriteStatus(p) \/ \E r \in Runs : Suppress(p, r)
    BY <1>0, <2>6
    DEF RequestLost, SaveRun, StartTask, SpawnAgent, RecordMetadata, WriteStatus, Suppress
  <2>. QED BY <1>1, <2>1, <2>2, <2>3, <2>4, <2>5, <2>6 DEF Spawning
<1>2. ASSUME NEW p \in Procs, Ending(p)
      PROVE  [RunSlots!Next]_(RunSlots!slotVars)
  <2>1. CASE BeginTermination(p)
    <3>1. pop[p].run \in Runs
      BY <1>r, <2>1 DEF BeginTermination, Runless, Asking
    <3>2. UNCHANGED reg \/ MoveLaunch(pop[p].run, {"ACTIVE"}, "TERMINATING")
      BY <2>1 DEF BeginTermination
    <3>. QED BY <1>0, <1>s, <3>1, <3>2, MoveTakesNothing
  <2>2. CASE ConfirmTerminated(p)
    <3>1. pop[p].run \in Runs
      BY <1>r, <2>2 DEF ConfirmTerminated, Runless, Asking
    <3>. QED BY <1>s, <2>2, <3>1, MoveTakesNothing DEF ConfirmTerminated
  <2>3. CASE MarkFailed(p)
    <3>1. pop[p].run \in Runs
      BY <1>r, <2>3 DEF MarkFailed, Runless, Asking
    <3>2. UNCHANGED reg \/ MoveLaunch(pop[p].run, LaunchBlocking, "FAILED")
      BY <2>3 DEF MarkFailed, FailLaunch
    <3>. QED BY <1>0, <1>s, <3>1, <3>2, MoveTakesNothing
  <2>4. CASE Terminate(p) \/ KillAgent(p) \/ CompleteTask(p) \/ FailRun(p) \/ Retry(p)
    BY <1>0, <2>4 DEF Terminate, KillAgent, CompleteTask, FailRun, Retry
  <2>. QED BY <1>2, <2>1, <2>2, <2>3, <2>4 DEF Ending
<1>3. ASSUME NEW p \in Procs, NEW r \in Runs, Reconcile(p, r)
      PROVE  [RunSlots!Next]_(RunSlots!slotVars)
  BY <1>s, <1>3, MoveTakesNothing DEF Reconcile, QuarantineLaunch
<1>4. ASSUME NEW p \in Procs, Step(p)
      PROVE  [RunSlots!Next]_(RunSlots!slotVars)
  <2>1. ASSUME NEW r \in Runs,
               CheckTimesOut(p, r) \/ CheckLeaves(p, r) \/ CheckFails(p, r) \/ CheckCompletes(p, r)
        PROVE  UNCHANGED reg
    BY <2>1 DEF CheckTimesOut, CheckLeaves, CheckFails, CheckCompletes
  <2>2. CASE \/ UpdateRead(p) \/ UpdateWrite(p)
             \/ PollOnce(p) \/ PollList(p) \/ PollApproved(p) \/ PollFilter(p) \/ PollDone(p)
             \/ \E t \in Tasks : PickTask(p, t)
             \/ CheckRuns(p) \/ CheckDone(p)
    BY <1>0, <2>2 DEF UpdateRead, UpdateWrite, PollOnce, PollList, PollApproved, PollFilter,
                      PollDone, PickTask, CheckRuns, CheckDone
  <2>. QED BY <1>0, <1>1, <1>2, <1>3, <1>4, <2>1, <2>2 DEF Step
<1>5. ASSUME NEW p \in Procs, Crash(p) \/ \E r \in Runs : CancelRun(p, r)
      PROVE  [RunSlots!Next]_(RunSlots!slotVars)
  BY <1>0, <1>5 DEF Crash, CancelRun
<1>6. ASSUME NEW r \in Runs, LeaseExpires(r)
      PROVE  [RunSlots!Next]_(RunSlots!slotVars)
  <2>1. reg[r] \in Launch
    BY <1>6 DEF LeaseExpires, TypeOK, NoLaunch
  <2>2. reg' = [reg EXCEPT ![r] = [reg[r] EXCEPT !.lease = "expired"]]
    BY <1>6 DEF LeaseExpires, TypeOK
  <2>3. /\ [reg[r] EXCEPT !.lease = "expired"].status = reg[r].status
        /\ [reg[r] EXCEPT !.lease = "expired"].key = reg[r].key
    BY <2>1 DEF Launch
  <2>4. \A s \in Runs : reg'[s].status = reg[s].status /\ reg'[s].key = reg[s].key
    BY <2>2, <2>3 DEF TypeOK
  <2>. QED BY <2>4, MovedLaunch DEF InFlight
<1>7. ASSUME NEW r \in Runs, NEW outcome \in AgentOutcomes, AgentEnds(r, outcome)
      PROVE  [RunSlots!Next]_(RunSlots!slotVars)
  BY <1>0, <1>7 DEF AgentEnds
<1>. QED BY <1>4, <1>5, <1>6, <1>7 DEF Next

\* At the start every slot is free.
LEMMA PollingStartsWithFreeSlots == Init => RunSlots!Init
<1> SUFFICES ASSUME Init PROVE RunSlots!Init
  OBVIOUS
<1>1. \A r \in Runs : reg[r].status = "ABSENT"
  BY DEF Init, NoLaunch
<1>2. \A t \in Tasks : InFlightOf(t) = {}
  BY <1>1 DEF InFlightOf, LaunchInFlight
<1>3. {r \in Runs : reg[r].status # "ABSENT"} = {}
  BY <1>1
<1>. QED BY <1>2, <1>3 DEF RunSlots!Init

\* What pollers and cancel commands do to the registry, wherever they die, is
\* what LaunchSlots promises: a launch takes the free slot of its task, holds it
\* alone, gives it back once and never comes back.
THEOREM RunsRefineSlots == Spec => RunsTakeSlots
<1>1. PollInv => TypeOK /\ PollNotes
  BY DEF PollInv
<1>2. TypeOK /\ PollNotes /\ [Next]_vars => [RunSlots!Next]_(RunSlots!slotVars)
  <2>1. ASSUME UNCHANGED vars PROVE [RunSlots!Next]_(RunSlots!slotVars)
    BY <2>1 DEF vars, RunSlots!slotVars, InFlightOf
  <2>. QED BY <2>1, NextMovesSlots
<1>. QED BY <1>1, <1>2, PollInvariant, PollingStartsWithFreeSlots, PTL
     DEF Spec, RunsTakeSlots, RunSlots!Spec

=============================================================================
