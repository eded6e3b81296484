# Formal model of fork_agent

TLA+ specifications of `fork_agent`: of the parts several processes share, and of
the smaller services around them. TLC checks small instances of every module;
TLAPS proves the invariants of nearly all of them for every number of processes,
tasks, launches, chunks, messages and whatever else the constants count.

`fork_agent` is a Python program (about 39 000 lines under `src/src`) with four
front ends (a CLI, a FastAPI server, an MCP server, a TUI) over one SQLite
database, a directory of run files, git and tmux. Every CLI invocation, every
poller, the API server and every workflow run is a process of its own. Each
repository call opens one transaction, so a service operation that makes several
calls is not atomic: between two of its calls any other process may act. That is
the source of most of what is hard to test here, and it is what the models keep: a
repository call, a git or tmux command, a file written is one step, an operation is
as many steps as it has calls, and a process may die between any two of them.

## Inventory

| Component, module | State | Operations | What is hard | What makes it correct |
|---|---|---|---|---|
| Launch registry, `LaunchRegistry` | rows of `agent_launch_registry`: status, canonical key, lease, parent, pane | request, confirm spawning / active / terminated, mark failed, begin termination, quarantine, reconcile leases, reconcile panes | check then claim, read then compare-and-set, ancestors read one by one, leases, death between calls, tmux queried after the list or failing | one launch in flight per key; leases follow statuses; legal moves only; reservations end |
| FPEL authorization, `Fpel` | frozen proposals, checker reports, seals, failures | freeze, mark_fail, seal, check_sealed, snapshot_legacy | `seal` makes seven calls, `check_sealed` four, in separate transactions | one active proposal; seals rest on evidence; a failure is final; an allowing answer is backed |
| Task board, `TaskBoard` | tasks: status, plan, text | create, update, submit, approve, reject, start, complete, retry, delete | whole rows are written back under a guard on the status alone | plan and status agree; an approved plan is fixed; legal moves only |
| Gated start, `GatedTasks` | the two above | start asks `check_sealed` for the hash of the row it read | hash, question and save are three transactions | a task that runs was sealed with the content it has |
| Autonomous polling, `Polling`, `PollingFallback` | poll runs, `status.json`, `events.jsonl`, tasks, launches, agents | poll_once, check_runs, cancel_run | one protocol over five stores without a transaction | never two agents on a task; a live agent holds its launch; the cap; runs do not hang |
| Memory, `Memory` | observations, mutation journal | save, save_event, update, delete, merge of projects, cleanup, by four front ends | the row and its journal entry are two transactions; the hybrid dispatcher repeats what it had no answer for | the last entry has the row's content and topic |
| Incremental sync, `Sync` | watermark, chunk files, clone and remote, the other machine's rows | push, pull, export, import | every step between chunk and watermark may fail; two pushers | the watermark stays behind what was delivered; replicas converge in what the payloads have |
| Agent manager and API sessions, `Agents` | registry, tmux sessions, `_agents`, session store and files | spawn, terminate, cleanup; create, delete, restore, collect | registry, tmux, memory and disk disagree after a failed kill, a registry call that raises or a restart | no two live agents of a name; a sweep spares what is held |
| Workflow executor, workflow state, workspaces, `Workflow` | plan, execute and verify files, launches and agents, branches and worktrees | outline, execute, verify, ship; create, remove, merge | three files replaced one by one; a registry call that raises after the start; git commands after stale tests | one agent per task; commits are not lost without `--force` |
| Agent messaging, `Messaging` | messages, read marks, files, pane options | send, broadcast, receive, cleanup | cap, expiry and deletion after reading in transactions of their own | nothing leaves unread |
| Database, `Schema` | `_migrations`, executed statements | run_migrations | scripts commit statement by statement | what is recorded was executed |
| Telemetry, `Telemetry` | buffers, events, summaries | track, flush, start_session, expire | a service per call; a process that ends before it flushes | events that were flushed are stored |
| Sessions, `Sessions` | work sessions | start, end, merge | end and create are two calls | one active session per project |
| Promise contracts, `Contracts` | contracts | verify, ship | a contract per verification, two servers | a plan ships under one contract |
| Scheduler, `Schedule` | scheduled tasks | add, cancel, mark | stale reads | marks follow the due time |
| tmux resilience, `Resilience` | breaker, queue and its file, retries | can_execute, record, persist, load | two locks; persist drains before it writes | the circuit follows the failures |
| Rate limiters, `Limits` | windows of stamps | is_allowed, capture | boundaries of the window | what a window let in fits it |
| Hooks, `Dispatch` | rules of `hooks.json` | dispatch | one failing action among several | critical hooks abort |
| Templates and teams, `Templates` | files, rows, teams | discover, save, enable, disable, delete | files and rows drift apart | what a user disabled stays so |
| Bug hunt, `Hunts` | agents, findings, reports | bug-hunt | agents that outlive the wait | "no bugs found" means that all looked |
| Import and export, `Vault` | notes of two machines, files | export, import | topics share paths; rows are found by topic; files passed over | what was exported is imported or listed |
| Diff, `Diff` | a table | diff by time, session, id | keys with several rows | a diff patches |
| Output caps, `Caps` | a list and a budget | cap_response | escapes, markers, a cut that has to be verified | the answer fits |
| Redaction, retrieval, front ends | none that is shared | text, ranking, display | | see Not modelled |

The components call each other downwards only: front ends call services, services
call repositories. Polling calls the task board, which calls FPEL; polling, the
agent manager, the API and the executor call the launch registry; sync reads the
journal the memory writes, and applies what it imports with the memory's
operators. What they share is the database, the file system, git and tmux; there
are no callbacks between them.

## Modules

`LaunchSlots` is the abstract specification of the registry (one slot per key,
taken and released), which `LaunchRegistry` implements, and so does what `Agents`,
`Workflow` and `Polling` do to the registry. `Delivery` is the abstract specification
of sync (a log delivered at least once, whose watermark does not run ahead), which
`Sync` implements. `GatedTasks` composes `TaskBoard` and `Fpel` by INSTANCE on
shared processes; `Sync` extends `Memory`. `PollingFallback` extends `Polling` with the
second spawn of `POLL_ALLOW_SUBPROCESS_FALLBACK`. `Nothing` declares `None`, the value all
modules share. The `MC` modules are instances, parts and symmetries for TLC. A
`...Proofs` module holds the proofs about the module it is named after;
`StoresProofs` those about the stores (`Memory` and `Sync`, `Vault`, `Diff`, `Schema`,
`Messaging`, `Telemetry`), `ServicesProofs` those about the other services (`Agents` and
`Workflow`, the clients of the registry, `Contracts`, `Resilience`, `Caps`, `Limits`,
`Schedule`, `Hunts`, `Sessions`, `Dispatch`, `Templates`), and `MCServicesProofs` brings
all of them to `MCServices`. The others are in
the table above, one per component that has an effect on state.

An operation that makes several calls is a chain of actions. One variable of each module
(`op`, `fop`, `top`, `pop`, `mop`, `push`, `shell`, `call`, `starter`, `shipping`, ...)
records for each process which call comes next and what it has read so far: that is
where stale values live. `request_launch`, for example, is `RequestFind`,
`RequestReread`, `Cas`, one `RequestWalk` for each ancestor, `RequestClaim` (or
`RequestLost`, `RequestRejectParent`); `seal` is `SealRead` to `SealSave`; `sync push`
goes from reading the watermark over git add, commit and push to
`commit_export_watermark`. Early returns go back to idle. An `Abort`, `Crash`, `...Dies`
action stands for a process that dies and for an exception of the database between two
calls.

Abstractions that matter:

- Ids are fresh model values, as uuid4s are. A content hash is the content.
- `LaunchRegistry` has a clock in ticks. `Polling`, `Agents` and `Workflow` leave
  time open instead: a lease may run out at any moment it is held. `started_at`
  NULL counts as 0 in the code, so a QUEUED run is always too old (`Elapsed`).
- `Polling`, `Agents` and `Workflow` each keep of the registry what their client
  can see of it; what happens inside its calls is the business of `LaunchRegistry`.
- `LaunchRegistry`: tmux answers `list-panes` or fails, and failing passes for a server
  without panes. `unlisted` remembers the panes that were alive when it failed.
- In `Polling` an agent is alive or ended, and writes its result at once; a spawn
  answers a handle, nothing, or nothing although the agent runs. The fallback, which
  is off unless the environment asks for it, adds an agent nobody knows of to a spawn
  (`PollingFallback`). The branch for metadata that could not be saved is missing:
  `RowOutlivesSpawn` shows that the row is there.
- `Memory` keeps content, title, topic, project and idempotency key of an observation;
  content stands for type and metadata too, and empty metadata for none. The payload
  of a mutation has no title. Timestamps, `revision_count` and `session_id`
  are left out. Search changes nothing.
- `Sync`: a chunk is the interval of the journal it holds, its number stands for
  the time in its name. git add, commit, push and pull are external and may fail;
  the other machine imports and writes nothing itself.
- `Agents`: a session that `terminate` could not kill is `unkilled`. Creating, deleting
  and sweeping of the API have the registry calls that raise, too (`RegistryRaises`).
- `Workflow`: the agent of a launch was started, or is `stray` (`launch_agent` answered
  False, the agent may run), or `unconfirmed` (`confirm_active` raised); a start that
  failed is no start. An agent works in the repository's root; what is committed in a
  worktree is committed by whoever works there, at any moment.
- `Messaging`: message m is the m-th created; ages are two marks that move up.
- `Limits`, `Sessions`, `Schedule`: a clock of a few ticks. `Caps`: lengths for
  texts. `Diff`, `Caps`: Init chooses any table, any list.
- `Vault`: the heading of a file is the title, or else the topic, or else the start of the
  id, and becomes the title of what is imported; content loses the blanks around it; a
  binary or irregular file is passed over and is in no list. A title is one line;
  metadata is not kept. Ids differ in their first eight characters. `Diff`: the key of
  a row without topic is that prefix, and rows may share it.
- Nothing in the repository sets `blocked_by`, so every task has none.
  Owner, requester, timestamps and `fpel_status` (only NOT_EVALUATED) are left out.

`PROJECT.json` maps every definition that models code to its lines.

## Runs

| Run | Instance | Properties |
|---|---|---|
| `launch_safety` | 2 processes, 1 key, 4 launches, lease 1, clock 0..2, depth limit 3, `list-panes` that fails, within `Bounded` | `OneInFlightPerKey`; `LeaseDiscipline`; `PaneLostIsTrue`; `LineageBounded`; `ImplementsSlots` (refinement of `LaunchSlots`) |
| `launch_liveness` | 2 processes, 2 launches, with fairness | `ReservationsResolve` |
| `fpel_seals` | 2 processes, 1 target, 2 proposals, 2 hashes, 2 checkers | `OneActivePerTarget`; `SealsAreEarned`; `FailIsFinal`; `DecisionIsBacked`; `SealHeedsRejection` |
| `gated_tasks` | 2 processes, 1 task, 2 plans, 1 proposal, 1 checker | `StartedUnderSeal` |
| `poll_agents` | 2 pollers, 1 task, 2 runs, 1 death | `OneAgentPerTask`; `LiveAgentHoldsLaunch`; `RowOutlivesSpawn` |
| `poll_cap` | 1 poller, 2 tasks, 3 runs, cap 1, 3 deaths | `AgentsWithinCap`; `LiveAgentTakesSlot` |
| `poll_cancels` | 1 poller and 1 cancel command, 1 task, 2 runs, 1 death, refused starts | `OneAgentPerTask` |
| `poll_resolves` | 1 poller, 2 tasks, 2 runs, 1 death, agents that end in any way, kills that fail, with fairness | `UnresolvedRunsEnd`: no run stays QUEUED or SPAWNING while `check_runs` is not stuck |
| `services` | one part at a time, see below | 18 properties, see below |

Why the bounds are enough for the cases that matter. A race of this program is between
one operation that has read and another that writes, so two processes and one key,
target or task bring out all of them. Three launches let a key be quarantined, claimed
again and claimed a third time; the clock lets the lease of a launch run out and a new
one be taken. `Bounded` (an ACTION_CONSTRAINT) keeps to three kinds of behaviour of the
registry: two processes race over three launches that nobody delegates and that run
outside tmux (`Race`); two processes delegate and fail launches before the clock moves
(`Trees`); one process at a time confirms in panes that die, and asks a tmux that may
fail (`Panes`). `LineageBounded` needs one launch more than the depth limit, so `Trees`
has four, and the limit 3 stands for `MAX_LINEAGE_DEPTH` = 16. The run has 555,849
states. Two proposals let one replace the other. In `Polling`, two runs are two launches
of a task; `IdsLeft` keeps pollers from picking a task when no id would be left. Other
bounds in guards are `MaxNow`, `MaxCrashes` and the `Max...` constants of the services.
Every process may stop for good, so instances that use up their ids end: `CHECK_DEADLOCK
FALSE` where that happens.

### The services run

The modules of the services share no state, so `MCServices` puts them into one
state machine whose behaviours each look at one part of one module (`part`):

| Part | Behaviours | Property, and what it says |
|---|---|---|
| `tasks` | 2 processes, 1 task, 2 plans | `PlanMatchesStatus`: a plan exactly in the statuses that need one; `ApprovedPlanFixed`: no step changes the plan of an approved task |
| `store` | one writer uses every front end, 2 ids, 2 projects | `JournalKnowsRows`: between operations the last mutation of an observation has its content and its topic |
| `push`, `race` | saves, updates and deletions, pushed and pulled; two pushers on one clone | `WatermarkIsDelivered`: the watermark never passes a mutation the remote does not have; `MutationsAreDelivered`: refinement of `Delivery`; `ReplicaConverges`: once all is delivered and imported in the order it was written, the other machine has the same contents and topics (and no titles, projects and keys), unless a topic went from one observation to another by updates |
| `file` | as `push`, with export and import of files | the three above |
| `exec` | execute by 2 shells, leases that run out, agents that end | `OneStartedAgent`: no two agents started for one task, unless one was quarantined or its `confirm_active` raised |
| `ship`, `trees` | outline to ship; ship, remove and merge by 2 shells over a worktree | `CommitsOutliveRemoval`: commits disappear only in a forced step |
| `agents`, `api` | 2 managers; the server, its restarts and its collector | `OneManagedAgent`: no two live sessions of a name, unless quarantined or left by a kill that failed; `SweepSparesHeld`: cleanup kills nothing its manager has registered |
| `inbox`, `panes` | 2 processes on one inbox, cap 2, fetch limit 1; files, panes, hybrid sends | `UnreadIsKept`: a message leaves unread only by expiry or the cap |
| `starts`, `upgrade` | 2 processes, 3 scripts, deaths, rows that break a unique index | `RecordedIsApplied`: a recorded migration has been executed to its end |
| `promises` | 2 servers, 2 plans, 3 contracts | `ShippedUnderOne`: a plan ships only under its first contract |
| `breaker` | 2 threads, threshold 2, 1 trial | `CircuitFollowsFailures`: closed exactly while there are fewer failures than the threshold |
| `vault` | 2 notes, blank content and content to strip, notes without a title, topics that share a path, 2 machines | `ImportKeepsNotes`: what was exported under a topic of its own is found after the import, with its topic, project, stripped content and heading, or its file was skipped, passed over or failed |
| `diffs` | every table of 2 rows, keys that coincide | `DiffPatches`: the listed changes turn the reference into the target |
| `caps` | budgets of up to 5 tokens, every list of up to 2 observations with 2 sizes, 5 lengths of content and 3 costs of a character | `CapWithinBudget`: the JSON answered fits the budget |
| all, and `events`, `work`, `turns`, `schedule`, `letters`, `retries`, `limits`, `captures`, `templates`, `hooks`, `hunts` | the smaller services | `ServicesTypeOK`: the type invariant of each module; their own properties are under Divergences |

Three migrations have the shapes of 001 (may be run again), 008 (adds a column,
then a unique index on rows that may break it) and 012. Three messages go past a cap
of two, and a fetch limit of one leaves some behind. Two chunks may overlap, be
delivered twice and be applied after later ones. In `agents` no sweep
goes on beside the last attempt; in `api` the last one is left out. The `services` run
has 657,204 states and takes about two and a half minutes; each part alone a few
seconds to a minute.

### Violated promises

Three runs show that a promise of a docstring or a test does not hold:

- `poll_two_agents` (`OneAgentPerTask`). With two pollers and a cancel command
  two agents can work on one task. The run of the first is cancelled after its
  agent was spawned and before its handle was recorded, so nothing is killed and
  the task is APPROVED again; a second poller that had passed the filter earlier
  and requests after the first lease ran out quarantines that launch and claims.
  With one poller (`poll_cancels`, and proved), or with two and no cancel
  (`poll_agents`), it holds. Three pollers need no cancel command: one retries a
  task from a failure a second has retried before it, the task is APPROVED while
  its new run is SPAWNING, and when that run's lease runs out a third poller with an
  old list of candidates starts another agent.
- `api_gc_restored` (`RestoredSessionsSurvive`). The startup sweep of the API
  server asks the `AgentManager` of a new process, which knows no agent, and kills
  every live session just restored from disk.
- `migrations_race` (`ConcurrentStartsSucceed`). Two processes find a migration
  missing; the second one's `ALTER TABLE` raises.

### Fairness

`launch_liveness`: the clock advances; a process in the middle of an operation
goes on or dies (weak fairness); `reconcile_expired_leases`, called first in
every polling cycle, is called again and again and does not die at the same call
for ever (strong fairness of its three steps). Nothing is assumed of the
spawners: each may die after its claim.

`poll_resolves` and the temporal divergences below: the polling
loop catches what a cycle raises and sleeps, so each process keeps taking steps (weak
fairness of `Step`); leases run out; and a run that is listed over and over is in the
end found older than `QUEUED_TIMEOUT_S` (strong fairness of `CheckTimesOut`). Agents
need not end, and no process need die.

The services have no loop that the code runs by itself, except the API's collector,
whose periodic sweep kills nothing; no liveness is claimed of them.

## Proofs

For all values of the constants that satisfy the named assumptions (`None` is
not one of the ids; the lease and the threshold are positive):

| Theorem | States |
|---|---|
| `TypeCorrect`, `LaunchSafety`, `LaunchLeases`, `LaunchMoves` | types; one launch in flight per key; leases follow statuses; legal moves |
| `LostPanesAreLost`, `LineagesAreBounded` | `pane_lost` only of panes that are gone, or were alive when `list-panes` failed; parents form short acyclic chains, though each ancestor is read in a step of its own |
| `LaunchRefinesSlots` | `LaunchRegistry` implements `LaunchSlots` |
| `FpelTypeCorrect`, `FpelActive`, `FpelSafety` | types; one active proposal; a verdict is on the content its proposal froze, and one that is no legacy snapshot on a proposal some checker passed |
| `FpelDecisions`, `FpelBacking`, `FpelRejections` | no call that begins after a failure seals or allows; an allowing answer is backed; while a proposal stays active it is not sealed over a FAIL on record when the call began |
| `TaskTypeCorrect`, `TaskPlanSafety`, `TaskPlanFixed`, `TaskMoves` | types; plan and status; fixed plans; legal moves |
| `GatedTypeCorrect`, `GatedStart` | types; a running or completed task has been sealed with its content |
| `PollTypeCorrect`, `RecordFindsRow` | types; the row is there when the handle is recorded. Any pollers and cancel commands |
| `AgentsHoldLaunches` | a live agent's launch blocks its task. Any pollers and cancel commands, kills that work |
| `OnePollerOneAgent` | one agent per task. One poller, any cancel commands, kills that work |
| `LiveAgentsTakeSlots`, `AgentsFitTheCap` | a live agent takes a slot; the cap. One poller, no cancel command, kills that work |
| `ClaimsRefineSlots`, `ExecutionsRefineSlots`, `RunsRefineSlots` | the clients' steps on the registry (`Agents`, `Workflow`, `Polling`) implement `LaunchSlots` |
| `ManagedAgentsAreOne`, `SweepsSpareHeld` | one live session of a name unless quarantined or left by a failed kill; cleanup spares what its manager holds |
| `WorkflowTypeCorrect`, `StartedAgentsAreOne`, `RemovalsKeepCommits` | types; one started agent per task unless quarantined or `confirm_active` raised; unforced steps lose no commits |
| `SyncTypeCorrect`, `JournalFollowsRows` | types; the last entry of an observation has its content and topic. The second for one writer |
| `SyncRefinesDelivery` | `Sync` implements `Delivery`. Any writers and pushers |
| `WatermarksAreDelivered` | the watermark stays behind what was delivered. Any writers and pushers |
| `ReplicasConverge` | the other machine gets the same contents and topics. One writer, any pushers, any size of chunk |
| `MessagingTypeCorrect`, `UnreadMessagesAreKept` | types and the cap; a message leaves unread only by expiry or the cap |
| `RecordedVersionsAreApplied` | a recorded migration has been executed, for any scripts and processes |
| `PlansShipUnderOneContract` | a plan ships under the first of its contracts |
| `CircuitsFollowFailures` | the circuit is closed exactly below the threshold |
| `VaultTypeCorrect`, `ExportedNotesAreImported` | types; what was exported is imported, stripped and with its heading for a title, or listed or passed over, for any notes, titles and topics |
| `DiffsPatch`, `AnswersFitTheBudget` | a diff patches, for any table, window and sessions; an answer fits, for any list and budget |
| `OnlyTheLastIsCut`, `CapsTypeCorrect` | at most the last observation answered is cut, and none that would fit is skipped; types |
| `WindowsHold`, `LimitsTypeCorrect` | no window lets in more than its limit, at any clock; types |
| `BufferedIsKept`, `TelemetryTypeCorrect` | an event leaves its buffer only for the table or at the end of its retention; types |
| `CompleteFindingsCounted`, `HuntsTypeCorrect` | "no bugs found" has counted every complete agent; types |
| `MarksComeDue`, `ScheduleTypeCorrect` | only a task that was due is marked; types |
| `TemplatesTypeCorrect` | types, and one row to an id |
| `TurnsKeepOne` | one active work session of a project while processes take turns, whatever they die in the middle of |
| `ServicesTypeCorrect` | `ServicesTypeOK`: the types of all services of `MCServices` |

The assumptions on processes are those the code needs: with kills that fail, with two
pollers and a cancel command, with three pollers, and for the cap with two pollers,
TLC finds the properties violated.

The argument is the same each time: an invariant says what a process still
knows from what it has read, in a form no other process can falsify.

- Registry: `OpOK` says a pending compare-and-set is along an edge of the
  transition map from the status it will compare with. So a stale one fails, and
  one that succeeds is legal. No transition enters the statuses of the unique
  index, only the insertion does, and the index guards that. The refinement maps
  a key's slot to its launches in flight. A pane that has gone does not come back,
  so one found missing is still missing at the compare-and-set; one missing because tmux
  failed is in `unlisted`. No row is removed and no parent changes, so what a walk has
  read of the chain still holds at the insertion, which leaves the other chains alone.
- Fpel: `FopOK` carries what the reads of `seal` and `check_sealed` established.
  It survives other processes because the tables only grow (`TablesGrow`):
  proposals do not come back to ACTIVE, reports, seals and failures are never
  removed.
- Board: `OpOK` says a row about to be saved is consistent in itself and reached
  by a legal edge, and that a row read while approved still has the plan of the
  table unless the task was deleted. That last part is what makes the status
  guard enough: no path leads from an approved status back to one in which the
  plan may change.
- Composition: `GateInv` is both invariants and three facts that tie them:
  `StartedUnderSeal` itself, `SavesAreBacked` (a row about to be saved as running
  is backed by a seal), `GateAsksOwnRow` (the question asked is about the row
  start holds). `SameBoard` and `SameEvidence` transport the component lemmas.
- Polling: `PollNotes` says which method, call and notes go together, `PhaseOK`
  what the five stores look like from there. A run belongs to the process that
  claimed it until its handle is recorded (`Own`). `KillInv`: a launch is released
  only after the kill, which has a handle by then. `ClaimInv`: what one poller has
  picked is still free. `SlotInv`: one poller's snapshot of the rows stays true, and
  the slots it has left to hand out are never more than are free.
- Agents: a started session is safe while its launch is in use, or a launch of its
  key was quarantined by its lease, which nobody undoes, or it is `unkilled`. Workflow: a
  task has at most one launch in use, the launch of a started agent is in use or quarantined
  unless it is `unconfirmed`, and
  a branch deleted without force is merged into the root's.
- Slots: a key's slot holds its launches in use. `request` takes a key that has none
  in use, a compare-and-set moves one launch on, no launch comes back, and the launches
  seen so far are the ones spent.
- Memory: `JournalInv` says that the mutation a pending record carries has the content
  and the topic of the row its transaction left, so the journal lags behind by that one entry.
- Sync: chunks only go forward, from file to index to commit to remote
  (`InPlace` says how far a push in progress has brought its own), and `CoverInv`
  says that every mutation up to the watermark, or up to what a push in progress
  will make the watermark, is in a chunk that is on its way or delivered.
- Delivery: an entry is delivered when a chunk that holds it is at the remote, dropped
  when its chunk was lost without an error, received when its chunk was imported. Since
  chunks only go forward each set only grows; a mark moves the watermark to where its
  export ended (`MarksInv`), and `CoverInv` says that all before is delivered or dropped.
- Convergence: two pushes of one clone export the same entries twice, so the other
  machine applies old mutations over newer rows. The chunks of one export move
  together, and the last of them reaches as far as any chunk before it (`Together`),
  so a pull has all of an export or none (`PullInv`) and what an overlap undid is done
  again by the end of it. The copy is `Abreast` of an entry k: each of its rows is as
  the journal made it at k or later. Applying again an entry up to k + 1 keeps that.
  `CopyInv`: no chunk that was imported holds entry k + 1, unless the next one
  begins with it. So once all is imported k is the end of the journal, and `JournalInv`
  says that its last entries are the rows. It takes that inserts come first
  (`FreshInv`: ids are uuid4, and one process records an insert before it does more)
  and that topics stay.
- Messaging: a pending mark or deletion is of a message that was handed out. Vault: a
  note exported is settled, or its file is still to come. Caps: what has been
  answered and what remains never exceed the budget;
  what follows a cut has nothing left to spend.
- Limits: `Tracks` says that the stamps kept of a client are those of its recent
  requests. `Recent` keeps the end of an ordered list, and the cleanup does not reach
  into a window because its age is at least as long (an assumption on the constants).
- Telemetry: what a flush cleared from a buffer is stored (`ClearedIsStored`). Hunts: a
  verdict counts the roles that were selected (`RolesSelected`). Schedule: what is about
  to be marked was seen due, and due times do not change (`PlannedWasSeen`).
- Schema: `ScriptHasCome` says how much of its script a process has behind it;
  it survives because `done` only grows. That the smallest pending version exists
  is well-foundedness of the numbers.
- Contracts: `IsFirst` says that the contract a request has read is still the
  first of its plan, because contracts are appended and keep their plan.
- Resilience: the property is inductive with the types of the state and the count.
- Diff: `EntriesPatch` is about two functions and the entries made of them; the
  invariant says that the last answer was made of the sides it names.

- Types of the other machine: `ContentInv` says that a mutation that is not a deletion
  has a content, so what a pull or an import makes of it is an observation. Templates: a
  uuid is a number not given out yet and a discovery has an id of its own kind, so saving
  never makes a second row of one id (`RowsOK`).
- Sessions: while processes take turns, what a start has seen is still so (`StartsKnow`):
  the session to end is the only active one, and before the new one is created there is
  none. A process that dies in between leaves none, or the old one.
- All services: a step of a part of `MCServices` is a step of its module and leaves the
  state of the others alone (`PartsStep`), so a behaviour of `MCServices` is one of each
  module (`ServicesBehave`), and the theorems about the modules hold of what the
  `services` run checks.

Recursive functions over numbers or sequences are in reach as long as what is
claimed of them can be put as "there is no smallest counterexample" (`WFMin`): the
chains of parents, the walk of `cap_response`, the stamps a window keeps.

Only model-checked: liveness (`ReservationsResolve`, `UnresolvedRunsEnd`), which TLAPS
does not reach; `PollingFallback`; the properties listed under divergences, which are
violated. Every other invariant and action property that a passing run checks is proved,
with those assumptions on processes.

What the proved properties do not say: `SealsAreEarned` promises one passing
checker, not all, because reports may arrive after the reports were read.
`StartedUnderSeal` promises that a seal of that content exists, not that the
proposal was still unfailed at the moment of the save: `mark_fail` between the
answer and the save is not noticed by the code. `ShippedUnderOne` does not promise
that a plan ships once.

## Further divergences

Met while modelling. Each has a property that TLC violates, in a configuration run
by hand (`tlc -config X.cfg MCModule`), or in one of the runs' configurations with
its property list replaced by this property and what is named in brackets.

| Configuration | Property | The code |
|---|---|---|
| `launch_active_lease` | `ActiveNeverLeaseQuarantined` | `_quarantine_expired` compare-and-sets from whatever status it re-reads, so a launch confirmed in between is quarantined for its lease; the comment at `agent_launch_lifecycle_service.py:109` excludes it |
| the same | `QuarantineBlocksRelaunch` | a launch quarantined before it was ACTIVE keeps its lease, and stops blocking when that runs out; `quarantine` "blocks relaunch until manual recovery" (:299) |
| `launch_safety` | `LostPanesAreGone` | `_get_alive_tmux_panes` answers the empty set for every error of `list-panes`: launches over live panes are quarantined as `pane_lost`. The comment says "tmux server not running — no panes exist anywhere" (`agent_launch_lifecycle_service.py:465`) |
| `fpel_seals` | `LegacyNeverOverFail` | a proposal frozen and failed after `snapshot_legacy`'s test is superseded and the target sealed; the docstring raises (`fpel_authorization_service.py:414`) |
| `poll_cap_two` | `AgentsWithinCap` | two pollers that count at the same time spawn up to the cap each (`agent_polling_service.py:111`) |
| the same | `RecordedAgentKeepsRow` | INSERT OR REPLACE deletes the RUNNING row the unique index protects, and with it the handle of a live agent (:36) |
| `poll_lost_result` | `EndedRunsResolve` | `status.json` is set to RUNNING after the spawn: a result written before is lost and the run stays RUNNING (:158) |
| the same [`AgentOutcomes = {"crash"}`] | `EndedRunsResolve` | a crash is inferred from a missing `status.json`, which exists by then (:159) |
| `poll_resolves` | `ReportedSpawnsEnd` | SPAWNING -> TERMINATING is illegal: a run left SPAWNING by a dead poller, whose agent then reports, makes every `check_runs` raise before the runs listed after it are handled; `check_runs` is to "detect completion, failure" (`agent_polling_service.py:158`) |
| `poll_fallback` (`PollingFallback`) | `AmbiguousSpawnIsAlone` | the fallback after a tmux command that timed out with its pane made starts a second agent of the run (:505); "failed/ambiguous spawns got retried instead of quarantined" is a cause of the swarm (`test_swarm_regression.py:11`) |
| `poll_cancel_repick` | `ApprovedTasksRun` | `cancel_run` resets the task "so it can be re-picked" (:251) and leaves its launch blocking |
| the same | `CancelledAgentsEnd` | a run cancelled before its handle is recorded leaves its agent running |
| `poll_cancels` | `DeniedStartIsRecorded` | a refused start asks for QUEUED -> FAILED, which is illegal (:334): the run stays QUEUED, its launch RESERVED; `test_agent_polling_service.py:467` "records a FAILED run" over a mock |
| `services` [`tasks`] | `UpdateRetainsPlan` | `update` writes back the plan it read over one resubmitted since; "omitted fields retain their current value" (`task_board_service.py:107`) |
| `services` [`tasks`] | `ApproveFromPlanning` | `approve` pulls a running task back to APPROVED, the map has that edge for `retry`; "Transition PLANNING -> APPROVED" (:156) |
| `services` [`store`, `MaxMutations = 3`] | `UpsertStaysInProject` | a save without a project finds another project's row (`observation_repository.py:534`) |
| `services` [`push`] | `MutationsAreFull` | the payload of a mutation has no title: the other machine inserts observations without one, and an update removes one there (`sync_service.py:770`); "full observation data" (:584) |
| `services` [`exec`] | `AmbiguousIsQuarantined` | `confirm_active` raises after the start, the launch is marked FAILED (`executor.py:266`), and the next execute starts a second agent; the test module as above |
| `services` [`agents`] | `TerminatedIsGone` | nobody looks at what `tmux kill-session` answered (`agent_manager.py:258`): the launch is TERMINATED "after cleanup verification" (`agent_launch_lifecycle_service.py:285`) and the session lives |
| `services` [`file`, `MaxMutations = 3`, `MaxExports = 2`] | `DeletedNotExported` | an upsert's key is its topic, a delete's the id: an incremental export brings back what was deleted (`sync_service.py:221`) |
| `services` [`ship`, `MaxExecutions = 3`] | `ShipFollowsItsVerify` | `ship` takes the verification of an earlier execution |
| `services` [`events`] | `FlushPersistsEvents` | the service a command flushes is not the one its memory service tracks on (`save.py:180`) |
| `services` [`work`] | `OneActiveSession` | overlapping starts leave two active sessions of a project; processes that take turns do not (`TurnsKeepOneSession` [`turns`] holds, and is proved) |
| `services` [`promises`] | `ShippedOnce` | two servers ship one contract twice |
| `services` [`breaker`] | `OpenRefuses` | a thread gets its half-open slot although the circuit has opened since it looked |
| `services` [`letters`] | `PersistedIsKept` | `persist` overwrites the file with what is in the queue now |
| `services` [`limits`] | `RetryAfterSuffices` | `int()` cuts a fraction off: the client that comes back in time is refused once more |
| `services` [`templates`] | `DiscoverKeepsDisabled`, `TeamIsThere` | discovering outside the project enables a disabled USER template again when a project has one of that name; `delete_team` leaves the team's name with its members |
| `services` [`hooks`] | `CriticalAborts` | the failure of a critical hook is swallowed |
| `services` [`hunts`] | `NoBugsMeansAllLooked` | "PASS - no bugs found" is said of hunts whose agents failed, were too slow or were killed |
| `services` [`caps`] | `ListWithinBudget` | brackets and separators of the list are not counted |
| `services` [`vault`] | `RoundTrip` | a note without a topic gets one, and rows of one topic in a project and in none become one |

The passing runs say what holds all the same: `PaneLostIsTrue` exempts panes that were
alive when tmux failed, `UnresolvedRunsEnd` assumes that no run makes `check_runs` raise
for ever, `LiveAgentHoldsLaunch` holds with the fallback, too, of the agent the poller has a
handle of (`poll_fallback`), `ReplicaConverges` expects no titles, `OneStartedAgent` exempts
a launch whose `confirm_active` raised and `OneManagedAgent` a session that was not killed.
The last two also exempt a launch in quarantine, whose lease ran out before it was
confirmed: `docs/adr/ADR-002-skill-repo-boundary.md:156` wants its key to be free, so two
agents may run then.

These hold, are proved, and are listed in no run: `MovesFollowTransitionMap`,
`TaskMovesLegal`, the type invariants with a theorem, `MarkedWasDue`, `WindowHolds`,
`TrackedIsKept`, `CompleteFindingsCount`, `CutIsLast`, and `ClaimsTakeSlots`,
`JobsTakeSlots` and `RunsTakeSlots` (the clients' refinements of `LaunchSlots`).

What the modules show on the way, by component, without a property of its own:

- Launch registry, FPEL, board: `begin_termination`'s docstring allows statuses the
  map refuses; `complete`'s "also resolves any blockers" only reads;
  `snapshot_legacy`'s advice to run `fpel fail` first leads nowhere, because a failed
  proposal stays active; `TERMINAL_FAIL` is compared with and never written.
- Polling: a QUEUED run has no `started_at` and is quarantined by the next
  `check_runs` of another poller; `kill-pane` that times out leaves an agent beside
  the retried task; `PollRunRepository.remove` has no caller.
- Memory: a save under a topic without a project fails when only a project has the
  topic; `update` loses a concurrent update; merges of projects and `memory cleanup`
  are not journalled, so replicas keep the rows; the hybrid dispatcher writes twice
  what the server did and did not answer; some fallbacks raise a TypeError.
- Sync: the watermark of a full export skips mutations made meanwhile; an export of
  one project moves it for all; export and push share it; git add and commit fail
  unnoticed; two pushers write chunks out of order, and one that was delivered late
  is applied over later ones; a puller that dies leaves chunks that are never
  imported; two rows of one topic collide at the replica. A chunk applied a second
  time is harmless unless updates took a topic from one observation to another: the
  row that had it first finds it taken and keeps what the first time left
  (save x, save y, update x to topic q, y to t, y to u, x to t, y to v, save z with u,
  all pushed twice: x ends with q).
- Workflow: `ship` after a failed merge removes the worktree by force and deletes the
  branch with `-D`; a conflict in the root is not aborted; `merge_workspace` always
  fails at deleting the branch; a second execute of an ACTIVE plan is suppressed and
  overwrites `execute-state.json`; `TASK_COMPLETED` is said when an agent starts;
  `plan.phase` stays OUTLINED; updated tasks lose `depends_on`.
- Agents: the API's semaphore does not limit live sessions; deleting a session whose
  attempt was superseded terminates the other's launch; launches of sessions the
  collector killed stay ACTIVE, so the next request answers 409; a manager that
  restarts leaves its keys blocked; agents of the executor and of the poller are
  orphans to `cleanup_orphans`; the periodic sweep takes every session for new.
- Messaging: `send-to-pane` is not stored, whatever its docstring says; nothing can
  be stored for `*`; messages are delivered newest first, so a limit starves the
  old ones; expired ones are delivered until they are purged; the MCP tool marks
  before it answers; two receivers of one inbox both get a message; a hybrid
  broadcast is always sent twice.
- Schema: a process that dies between `ALTER TABLE` and its row of `_migrations` makes
  every later start raise; a swallowed IntegrityError lets later migrations go on.
- Sessions, contracts, schedule: the automatic end overwrites a summary; every verify
  of the API stores made-up evidence as a new contract, and the oldest one ships;
  cancel overwrites any status; nothing executes what is due.
- Resilience, limits: half-open slots are not given back by a caller that records
  nothing (`agent_manager.py:452`), so a circuit may stay half open; `HookPolicy.OFF`
  is never looked at; a stamp is taken before the save that fails.
- Templates, hooks: `memory template save` always raises; deleting a PROJECT template
  raises; `get_by_name` answers the oldest of several rows; a saved template with an
  empty description is a file discover skips; rows of vanished files stay; a broken
  `hooks.json` disables all hooks silently.
- Bug hunt: it does not use the launch registry, though
  `test_swarm_regression.py:699` counts it among those that do; kill-all ends the
  agents of other hunts.
- Import, diff, caps: a second export leaves stale files that are imported last; a
  diff by time never shows "modified" of a row and shows unchanged rows as removed;
  `memory_get` over its budget may answer `{}`.

## Not modelled

- Text: redaction, retrieval and ranking, text normalisation, rendering of
  templates, the wording of prompts. Functions without state; no decision of a
  modelled component rests on them.
- Front ends beyond what they do to state: parsing, formatting, the TUI, tmux
  control, the process routes, which forward to pm2, and the webhook routes, which keep
  a list in memory that nothing reads to decide.
- Code without a caller in the repository: the asynchronous message broker,
  `cleanup_worktree` and `cleanup_all_worktrees`, workspace hooks (`hooks_dir` is never
  set), `rollback_migration`, `end_session` of the telemetry, most `track_...`
  wrappers, `cleanup_old_entries`, `detect_cycle` (no task has blockers).
- Reads: search, lists, metrics and exports of telemetry.
- The health thread of the agent manager: it changes a status that is displayed.

## Plan

`Agents`, `Workflow` and `Polling` over one `LaunchRegistry` by INSTANCE. Today each has
what it sees of the registry, shown to implement the same `LaunchSlots`.
