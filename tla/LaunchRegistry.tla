--------------------------- MODULE LaunchRegistry ---------------------------
(***************************************************************************)
(* The agent launch registry and the lifecycle service that owns it:       *)
(* the SQLite table agent_launch_registry, its partial unique index, and   *)
(* every operation of AgentLaunchLifecycleService.                         *)
(*                                                                         *)
(* Every process that imports the service (a CLI invocation, a poller, the *)
(* API server, a workflow run) shares the table.  A repository call is one *)
(* transaction and so one atomic step; an operation that makes several     *)
(* calls is several steps, between which any other process may run.        *)
(* Callers are unconstrained: any process may call any operation on any    *)
(* launch at any time, which is what the fork launch commands expose.      *)
(***************************************************************************)
EXTENDS Naturals

CONSTANTS
  Procs,             \* processes that call the service
  Keys,              \* canonical keys
  Launches,          \* launch ids (uuid4, never reused)
  None,              \* SQL NULL / Python None
  LeaseDuration,     \* lease_duration_ms, in ticks
  MaxNow,            \* bound on the clock
  ParentChoices,     \* the values callers pass as parent_launch_id
  PaneChoices,       \* whether callers confirm with a tmux_pane_id
  MaxLineageDepth    \* MAX_LINEAGE_DEPTH

ASSUME NoneAssumption ==
  /\ None \notin Keys
  /\ None \notin Launches
  /\ None \notin Nat
  /\ None \notin {"lease_expired", "pane_lost", "requested"}
ASSUME TimeAssumption ==
  /\ LeaseDuration \in Nat \ {0}
  /\ MaxNow \in Nat
ASSUME LineageAssumption ==
  /\ ParentChoices \subseteq Launches \cup {None}
  /\ MaxLineageDepth \in Nat /\ MaxLineageDepth >= 2
ASSUME PaneAssumption == PaneChoices \subseteq BOOLEAN

VARIABLES
  now,     \* wall clock, read by every caller
  reg,     \* the table: one row per launch id, NoRow until it is claimed
  alive,   \* tmux panes that exist, named by the launch that runs in them
  op,      \* what each process is in the middle of
  unlisted \* history: launches that ran in a pane when a list-panes failed,
           \* which is read as a server without panes

vars == <<now, reg, alive, op, unlisted>>

-----------------------------------------------------------------------------
(* Statuses *)

LaunchStatus ==
  {"RESERVED", "SPAWNING", "ACTIVE", "TERMINATING",
   "TERMINATED", "FAILED", "SUPPRESSED_DUPLICATE", "QUARANTINED"}

TERMINAL_STATUSES == {"TERMINATED", "FAILED", "SUPPRESSED_DUPLICATE"}

\* The statuses find_active_by_canonical_key selects.
BLOCKING_STATUSES ==
  {"RESERVED", "SPAWNING", "ACTIVE", "TERMINATING", "QUARANTINED"}

\* Mutant: an index that forgets launches being torn down.
IndexWithoutTerminating == {"RESERVED", "SPAWNING", "ACTIVE"}

\* The statuses of the partial unique index idx_one_active_launch_per_key.
IndexStatuses == {"RESERVED", "SPAWNING", "ACTIVE", "TERMINATING"}

\* The statuses that list_active_launches reports as in flight.
InFlight == {"RESERVED", "SPAWNING", "ACTIVE", "TERMINATING"}

\* Launches that have a lease but no confirmed process yet.
Unconfirmed == {"RESERVED", "SPAWNING"}

ValidTransitions ==
  ({"RESERVED"}    \X {"SPAWNING", "FAILED", "QUARANTINED"})    \cup
  ({"SPAWNING"}    \X {"ACTIVE", "FAILED", "QUARANTINED"})      \cup
  ({"ACTIVE"}      \X {"TERMINATING", "FAILED", "QUARANTINED"}) \cup
  ({"TERMINATING"} \X {"TERMINATED", "FAILED"})                 \cup
  ({"QUARANTINED"} \X {"FAILED", "TERMINATED"})

can_transition_to(from, to) == <<from, to>> \in ValidTransitions

-----------------------------------------------------------------------------
(* Rows and what a process remembers *)

QuarantineReasons == {"lease_expired", "pane_lost", "requested"}

AgentLaunch ==
  [status  : LaunchStatus,
   key     : Keys,
   created : Nat,
   lease   : Nat \cup {None},
   parent  : Launches \cup {None},
   pane    : BOOLEAN,
   reason  : QuarantineReasons \cup {None}]

NoRow ==
  [status |-> "ABSENT", key |-> None, created |-> 0, lease |-> None,
   parent |-> None, pane |-> FALSE, reason |-> None]

\* "idle": between operations;
\* "read": request_launch is about to re-read the expired launch it found;
\* "walk": it is about to read an ancestor of the launch it was asked for;
\* "claim": request_launch is about to insert;
\* "cas": a row was read, the compare-and-set on what it read is next;
\* "panes": ACTIVE launches are listed, tmux has not been asked yet;
\* "sweep": a reconciler holds a list of launches still to be quarantined.
Steps == {"idle", "read", "walk", "claim", "cas", "panes", "sweep"}

Operation ==
  [at     : Steps,
   key    : Keys \cup {None},
   parent : Launches \cup {None},
   launch : Launches \cup {None},
   depth  : 0..MaxLineageDepth,
   seen   : LaunchStatus \cup {None},
   target : LaunchStatus \cup {None},
   reason : QuarantineReasons \cup {None},
   todo   : SUBSET Launches]

Idle ==
  [at |-> "idle", key |-> None, parent |-> None, launch |-> None, depth |-> 0,
   seen |-> None, target |-> None, reason |-> None, todo |-> {}]

\* The type invariant.
TypeOK ==
  /\ now \in 0..MaxNow
  /\ reg \in [Launches -> AgentLaunch \cup {NoRow}]
  /\ alive \in SUBSET Launches
  /\ op \in [Procs -> Operation]
  /\ unlisted \in SUBSET Launches

Init ==
  /\ now = 0
  /\ reg = [l \in Launches |-> NoRow]
  /\ alive = {}
  /\ op = [p \in Procs |-> Idle]
  /\ unlisted = {}

-----------------------------------------------------------------------------
(* Queries *)

Exists(l) == reg[l].status # "ABSENT"

lease_is_valid(l) == reg[l].lease = None \/ now < reg[l].lease

Blocking(k) == {l \in Launches : reg[l].key = k /\ reg[l].status \in BLOCKING_STATUSES}

\* The row find_active_by_canonical_key may return: the newest one, and any
\* of them when created_at ties.
find_active(k) ==
  {l \in Blocking(k) : \A m \in Blocking(k) : reg[m].created <= reg[l].created}

\* Mutant: only rows that have not begun to spawn are reconciled.
ExpiredReservedOnly ==
  {l \in Launches : /\ reg[l].status = "RESERVED"
                    /\ reg[l].lease # None
                    /\ reg[l].lease <= now}

list_expired_leases ==
  {l \in Launches : /\ reg[l].status \in Unconfirmed
                    /\ reg[l].lease # None
                    /\ reg[l].lease <= now}

IndexFree(k) == \A l \in Launches : reg[l].key = k => reg[l].status \notin IndexStatuses

-----------------------------------------------------------------------------
(* cas_update_status: UPDATE ... WHERE launch_id = ? AND status = ?.  The    *)
(* index is not consulted: no transition moves a row into IndexStatuses.   *)

\* COALESCE(?, quarantine_reason): a NULL argument keeps the old reason.
SetStatus(row, new, reason) ==
  [row EXCEPT !.status = new,
              !.reason = IF reason = None THEN row.reason ELSE reason]

\* Mutant: UPDATE ... WHERE launch_id = ? alone.
UpdateUnguarded(l, expected, new, reason) ==
  [reg EXCEPT ![l] = SetStatus(reg[l], new, reason)]

CasRow(l, expected, new, reason) ==
  IF reg[l].status = expected
  THEN [reg EXCEPT ![l] = SetStatus(reg[l], new, reason)]
  ELSE reg

\* request_launch after its look at the key: a parent is validated first.
ToClaim(k, par) ==
  [Idle EXCEPT !.key = k, !.parent = par, !.launch = par,
               !.at = IF par = None THEN "claim" ELSE "walk",
               !.depth = IF par = None THEN 0 ELSE 1]

\* What a process does after a quarantine() call made on behalf of
\* request_launch (go on to claim) or of a reconciler (next in its list).
Proceed(o) ==
  IF o.key # None
  THEN ToClaim(o.key, o.parent)
  ELSE IF o.todo # {}
  THEN [Idle EXCEPT !.at = "sweep", !.reason = o.reason, !.todo = o.todo]
  ELSE Idle

\* The read half of mark_failed, begin_termination and quarantine: o is the
\* calling operation, which goes on at once if the transition is not allowed.
ReadThenCas(o, l, target, reason) ==
  IF can_transition_to(reg[l].status, target)
  THEN [o EXCEPT !.at = "cas", !.launch = l, !.seen = reg[l].status,
                 !.target = target, !.reason = reason]
  ELSE Proceed(o)

-----------------------------------------------------------------------------
(* request_launch *)

\* The fast path: look for a blocking launch.
RequestFind(p, k, par) ==
  /\ op[p].at = "idle"
  /\ LET claim == ToClaim(k, par)
     IN  \/ /\ find_active(k) = {}
            /\ op' = [op EXCEPT ![p] = claim]
         \/ \E l \in find_active(k) :
              op' = [op EXCEPT ![p] =
                       IF lease_is_valid(l) THEN Idle
                       ELSE IF reg[l].status \in Unconfirmed
                       THEN [Idle EXCEPT !.at = "read", !.key = k, !.parent = par,
                                          !.launch = l]
                       ELSE claim]
  /\ UNCHANGED <<now, reg, alive, unlisted>>

\* _quarantine_expired re-reads the launch and goes by the status it has now.
RequestReread(p) ==
  /\ op[p].at = "read"
  /\ op' = [op EXCEPT ![p] =
              ReadThenCas(op[p], op[p].launch, "QUARANTINED", "lease_expired")]
  /\ UNCHANGED <<now, reg, alive, unlisted>>

\* Where the walk goes from the ancestor in hand; "idle" is an error answer.
\* A cycle also reaches MaxLineageDepth, so one test stands for both errors.
Walked(o, max) ==
  LET next == reg[o.launch].parent
  IN  IF ~Exists(o.launch) /\ o.depth = 1 THEN Idle
      ELSE IF ~Exists(o.launch) \/ next = None
      THEN [Idle EXCEPT !.at = "claim", !.key = o.key, !.parent = o.parent]
      ELSE IF o.depth + 1 >= max THEN Idle
      ELSE [o EXCEPT !.launch = next, !.depth = o.depth + 1]

\* Mutant: the limit is compared before the depth is counted up.
WalkOneTooFar(p) ==
  /\ op[p].at = "walk"
  /\ op' = [op EXCEPT ![p] = Walked(op[p], MaxLineageDepth + 1)]
  /\ UNCHANGED <<now, reg, alive, unlisted>>

\* _validate_parent_launch_id: one ancestor is read per transaction.
RequestWalk(p) ==
  /\ op[p].at = "walk"
  /\ op' = [op EXCEPT ![p] = Walked(op[p], MaxLineageDepth)]
  /\ UNCHANGED <<now, reg, alive, unlisted>>

\* The INSERT succeeds.  The row is then read back in a second transaction,
\* whose failure is answered "error" although the claim is committed.
RequestClaim(p, l) ==
  /\ op[p].at = "claim"
  /\ IndexFree(op[p].key)
  /\ ~Exists(l)
  /\ now + LeaseDuration <= MaxNow
  /\ reg' = [reg EXCEPT ![l] =
               [NoRow EXCEPT !.status = "RESERVED", !.key = op[p].key,
                             !.created = now, !.lease = now + LeaseDuration,
                             !.parent = op[p].parent]]
  /\ op' = [op EXCEPT ![p] = Idle]
  /\ UNCHANGED <<now, alive, unlisted>>

\* The INSERT violates the index: another request won the race.
RequestLost(p) ==
  /\ op[p].at = "claim"
  /\ ~IndexFree(op[p].key)
  /\ op' = [op EXCEPT ![p] = Idle]
  /\ UNCHANGED <<now, reg, alive, unlisted>>

-----------------------------------------------------------------------------
(* The operations on one launch.  The confirm_ ones are a single CAS.      *)

confirm_spawning(l) ==
  /\ reg[l].status = "RESERVED"
  /\ reg' = CasRow(l, "RESERVED", "SPAWNING", None)
  /\ UNCHANGED <<now, alive, op, unlisted>>

\* Mutant: confirmed without clear_lease.
ActiveRowKeepsLease(row, pane) == [row EXCEPT !.status = "ACTIVE", !.pane = pane]

\* clear_lease: a confirmed launch no longer expires.
ActiveRow(row, pane) == [row EXCEPT !.status = "ACTIVE", !.lease = None, !.pane = pane]

confirm_active(l, pane) ==
  /\ reg[l].status = "SPAWNING"
  /\ reg' = [reg EXCEPT ![l] = ActiveRow(reg[l], pane)]
  /\ alive' = IF pane THEN alive \cup {l} ELSE alive
  /\ UNCHANGED <<now, op, unlisted>>

confirm_terminated(l) ==
  /\ reg[l].status = "TERMINATING"
  /\ reg' = CasRow(l, "TERMINATING", "TERMINATED", None)
  /\ UNCHANGED <<now, alive, op, unlisted>>

\* mark_failed, begin_termination and quarantine read the row first; when the
\* transition is not allowed they return False and nothing happens.
ReadFor(p, l, target, reason) ==
  /\ op[p].at = "idle"
  /\ can_transition_to(reg[l].status, target)
  /\ op' = [op EXCEPT ![p] = ReadThenCas(Idle, l, target, reason)]
  /\ UNCHANGED <<now, reg, alive, unlisted>>

mark_failed(p, l)       == ReadFor(p, l, "FAILED", None)
begin_termination(p, l) == ReadFor(p, l, "TERMINATING", None)
quarantine(p, l)        == ReadFor(p, l, "QUARANTINED", "requested")

\* The compare-and-set half; a CAS that finds another status does nothing.
Cas(p) ==
  /\ op[p].at = "cas"
  /\ LET o == op[p]
     IN  /\ reg' = CasRow(o.launch, o.seen, o.target, o.reason)
         /\ op' = [op EXCEPT ![p] = Proceed(o)]
  /\ UNCHANGED <<now, alive, unlisted>>

-----------------------------------------------------------------------------
(* The reconcilers *)

reconcile_expired_leases(p) ==
  /\ op[p].at = "idle"
  /\ list_expired_leases # {}
  /\ op' = [op EXCEPT ![p] =
              [Idle EXCEPT !.at = "sweep", !.reason = "lease_expired",
                                 !.todo = list_expired_leases]]
  /\ UNCHANGED <<now, reg, alive, unlisted>>

reconcile_lost_panes(p) ==
  /\ op[p].at = "idle"
  /\ LET candidates == {l \in Launches : reg[l].status = "ACTIVE" /\ reg[l].pane}
     IN  /\ candidates # {}
         /\ op' = [op EXCEPT ![p] =
                     [Idle EXCEPT !.at = "panes", !.todo = candidates]]
  /\ UNCHANGED <<now, reg, alive, unlisted>>

\* Mutant: the answer of tmux is not subtracted from the candidates.
QueryPanesIgnoresTmux(p) ==
  /\ op[p].at = "panes"
  /\ op' = [op EXCEPT ![p] = Proceed([Idle EXCEPT !.reason = "pane_lost",
                                                  !.todo = op[p].todo])]
  /\ UNCHANGED <<now, reg, alive, unlisted>>

\* tmux list-panes.  Without tmux, or when it does not answer in time, the
\* reconciler gives up; when it fails, every pane counts as lost.
QueryPanes(p) ==
  /\ op[p].at = "panes"
  /\ \E lost \in {op[p].todo \ alive, op[p].todo, {}} :
       /\ op' = [op EXCEPT ![p] = Proceed([Idle EXCEPT !.reason = "pane_lost",
                                                       !.todo = lost])]
       /\ unlisted' = unlisted \cup (lost \cap alive)
  /\ UNCHANGED <<now, reg, alive>>

\* The next launch of the list: quarantine() reads it again.
Sweep(p, l) ==
  /\ op[p].at = "sweep"
  /\ l \in op[p].todo
  /\ op' = [op EXCEPT ![p] =
              ReadThenCas([op[p] EXCEPT !.todo = op[p].todo \ {l}],
                          l, "QUARANTINED", op[p].reason)]
  /\ UNCHANGED <<now, reg, alive, unlisted>>

-----------------------------------------------------------------------------
(* The environment *)

Tick ==
  /\ now < MaxNow
  /\ now' = now + 1
  /\ UNCHANGED <<reg, alive, op, unlisted>>

PaneDies(l) ==
  /\ l \in alive
  /\ alive' = alive \ {l}
  /\ UNCHANGED <<now, reg, op, unlisted>>

\* A crash, or a sqlite3.Error raised by the next repository call: the rest
\* of the operation is lost (request_launch answers "error").
Abort(p) ==
  /\ op[p].at # "idle"
  /\ op' = [op EXCEPT ![p] = Idle]
  /\ UNCHANGED <<now, reg, alive, unlisted>>

-----------------------------------------------------------------------------

Request(p) ==
  \/ \E k \in Keys, par \in ParentChoices : RequestFind(p, k, par)
  \/ RequestReread(p)
  \/ RequestWalk(p)
  \/ \E l \in Launches : RequestClaim(p, l)
  \/ RequestLost(p)

Reconcile(p) ==
  \/ reconcile_expired_leases(p)
  \/ reconcile_lost_panes(p)
  \/ QueryPanes(p)
  \/ \E l \in Launches : Sweep(p, l)

Manage(p) ==
  \/ \E l \in Launches : mark_failed(p, l) \/ begin_termination(p, l) \/ quarantine(p, l)
  \/ Cas(p)
  \/ Abort(p)

Confirm(l) ==
  \/ confirm_spawning(l)
  \/ \E pane \in PaneChoices : confirm_active(l, pane)
  \/ confirm_terminated(l)
  \/ PaneDies(l)

Next ==
  \/ \E p \in Procs : Request(p) \/ Reconcile(p) \/ Manage(p)
  \/ \E l \in Launches : Confirm(l)
  \/ Tick

Spec == Init /\ [][Next]_vars

\* A process in the middle of an operation goes on with it or dies.
Continue(p) ==
  \/ RequestReread(p)
  \/ RequestWalk(p)
  \/ \E l \in Launches : RequestClaim(p, l) \/ Sweep(p, l)
  \/ RequestLost(p)
  \/ QueryPanes(p)
  \/ Cas(p)
  \/ Abort(p)

\* The clock advances, operations end, and pollers call
\* reconcile_expired_leases on every cycle without crashing at the same call
\* for ever: hence strong fairness of the reconciler's steps.
Fairness ==
  /\ WF_vars(Tick)
  /\ \A p \in Procs :
       /\ WF_vars(Continue(p))
       /\ SF_vars(reconcile_expired_leases(p))
       /\ SF_vars(\E l \in Launches : Sweep(p, l))
       /\ SF_vars(Cas(p))

FairSpec == Spec /\ Fairness

-----------------------------------------------------------------------------
(* Properties *)

\* At most one launch per canonical key is in flight, whatever the callers
\* do and however stale what they read is: request_launch's promise that a
\* work item is never launched twice at once.
OneInFlightPerKey ==
  \A l, m \in Launches :
    /\ reg[l].status \in InFlight
    /\ reg[m].status \in InFlight
    /\ reg[l].key = reg[m].key
    => l = m

\* The lease goes with the status: a launch can expire exactly until its
\* process is confirmed.  So a crashed spawner never blocks a key for good,
\* and a confirmed launch is never found expired.
LeaseDiscipline ==
  \A l \in Launches :
    /\ reg[l].status \in Unconfirmed => reg[l].lease # None
    /\ reg[l].status \in {"ACTIVE", "TERMINATING", "TERMINATED"} => reg[l].lease = None

LegalMoves ==
  {<<"RESERVED", "SPAWNING">>, <<"SPAWNING", "ACTIVE">>,
   <<"ACTIVE", "TERMINATING">>, <<"TERMINATING", "TERMINATED">>,
   <<"RESERVED", "QUARANTINED">>, <<"SPAWNING", "QUARANTINED">>,
   <<"ACTIVE", "QUARANTINED">>, <<"QUARANTINED", "FAILED">>,
   <<"RESERVED", "FAILED">>, <<"SPAWNING", "FAILED">>,
   <<"ACTIVE", "FAILED">>, <<"TERMINATING", "FAILED">>}

\* However many processes act on stale reads, a row moves only along
\* _VALID_TRANSITIONS: terminal launches stay terminal, a quarantined launch
\* never runs again, and ids are never reused.
MovesFollowTransitionMap ==
  [][\A l \in Launches :
       \/ reg'[l].status = reg[l].status
       \/ reg[l].status = "ABSENT" /\ reg'[l].status = "RESERVED"
       \/ <<reg[l].status, reg'[l].status>> \in LegalMoves]_vars

\* A launch is quarantined as pane_lost only if it was confirmed in a pane
\* that is really gone, or that ran when a list-panes of reconcile_lost_panes
\* failed: listing, asking tmux and every compare-and-set are separate steps,
\* and no pane made, confirmed or closed in between is taken for lost.
PaneLostIsTrue ==
  \A l \in Launches :
    reg[l].reason = "pane_lost" => reg[l].pane /\ (l \notin alive \/ l \in unlisted)

\* _get_alive_tmux_panes, on a list-panes that failed: "tmux server not
\* running - no panes exist anywhere".  So no pane of a launch quarantined as
\* lost would be alive.
LostPanesAreGone ==
  \A l \in Launches : reg[l].reason = "pane_lost" => l \notin alive

\* Ancestor(par)[n] is the n-th ancestor of a launch with parent par.
Ancestor(par) ==
  LET anc[n \in 1..MaxLineageDepth] ==
        IF n = 1 THEN par
        ELSE IF anc[n - 1] = None THEN None
        ELSE reg[anc[n - 1]].parent
  IN  anc

\* No delegation chain is cyclic or reaches MAX_LINEAGE_DEPTH ancestors,
\* although other processes claim and fail launches while one walks.
LineageBounded ==
  \A l \in Launches : Exists(l) => Ancestor(reg[l].parent)[MaxLineageDepth] = None

\* Every reservation is resolved: confirmed, failed or quarantined.  A
\* spawner that dies, or whose claim was answered with an error, does not
\* hold its key for ever.
ReservationsResolve ==
  \A l \in Launches :
    reg[l].status \in Unconfirmed ~> reg[l].status \notin Unconfirmed

\* request_launch, on the branch that quarantines: "ACTIVE launches are
\* managed explicitly and should never be quarantined based on lease expiry."
ActiveNeverLeaseQuarantined ==
  [][\A l \in Launches :
       reg[l].status = "ACTIVE" /\ reg'[l].status = "QUARANTINED"
         => reg'[l].reason # "lease_expired"]_vars

\* quarantine(): "blocks relaunch until manual recovery".  Launches whose
\* lease ran out are quarantined to free their key, so they are excepted.
QuarantineBlocksRelaunch ==
  [][\A l \in Launches :
       ~Exists(l) /\ reg'[l].status = "RESERVED"
         => \A m \in Launches :
              reg[m].key = reg'[l].key /\ reg[m].status = "QUARANTINED"
                => reg[m].reason = "lease_expired"]_vars

-----------------------------------------------------------------------------
(* Refinement: the slot of a key is held by its launch in flight.            *)

InFlightOf(k) == {l \in Launches : reg[l].key = k /\ reg[l].status \in InFlight}

Slots == INSTANCE LaunchSlots WITH
           held  <- [k \in Keys |-> InFlightOf(k)],
           spent <- {l \in Launches : Exists(l)}

\* The registry implements one slot per key: every step of every operation
\* acquires a free slot, releases a held one, or leaves the slots alone.
ImplementsSlots == Slots!Spec

=============================================================================
