-------------------------------- MODULE Agents --------------------------------
(***************************************************************************)
(* AgentManager.spawn_agent, terminate_agent and cleanup_orphans, the API  *)
(* server's agent sessions (create, delete, restore at startup) and its    *)
(* garbage collector, over the launch registry and the tmux server.        *)
(*                                                                         *)
(* Attempt a is the a-th launch claimed, with the tmux session and the API *)
(* session made for it.  Every tmux command, registry call and file is a   *)
(* step; an operation of a manager holds that manager's lock, and a        *)
(* request of the server runs on its event loop to the end.  The sweep of  *)
(* the periodic collector kills nothing: it asks tmux for the age of each  *)
(* session with an option list-sessions does not have, and takes 0.        *)
(***************************************************************************)
EXTENDS Nothing, Naturals, FiniteSets

CONSTANTS
  Managers,     \* processes with an AgentManager
  Server,       \* the API's process: its AgentManager spawns nothing
  AgentNames,   \* names of managed agents
  ApiTasks,     \* agent type and task of API sessions
  MaxAttempts   \* bound: launches claimed

ASSUME AgentsAssumption ==
  /\ MaxAttempts \in Nat
  /\ Server \notin Managers
  /\ AgentNames \cap ApiTasks = {}
  /\ None \notin AgentNames \cup ApiTasks

VARIABLES
  claim,      \* agent_launch_registry
  session,    \* the tmux session of each attempt
  held,       \* _agents of each manager: the attempts
  orphans,    \* what a running cleanup_orphans has still to kill
  server,     \* the API's process
  store,      \* _sessions, the server's memory
  disk,       \* .claude/api-sessions
  call        \* the operation each process is in

sessionVars == <<server, store, disk>>
agentVars == <<claim, session, held, orphans, sessionVars, call>>

-----------------------------------------------------------------------------

Attempts == 1..MaxAttempts
AgentProcs == Managers \cup {Server}
AgentKeys == AgentNames \cup ApiTasks

\* "stray": the session exists, but spawn or launch_agent did not report it;
\* "unkilled": terminate_agent was told of no error, and the agent lives on.
SessionStates == {"none", "stray", "started", "unkilled"}

ClaimStatus ==
  {"ABSENT", "RESERVED", "SPAWNING", "ACTIVE", "TERMINATING", "TERMINATED", "FAILED",
   "QUARANTINED"}

CallSteps ==
  {"idle", "spawning", "session", "wait", "active", "mark_failed",
   "begin", "terminate", "confirm",
   "api_session", "api_launch", "api_active", "api_store", "api_kill", "api_forget"}

Call == [at : CallSteps, attempt : 0..MaxAttempts]
NoCall == [at |-> "idle", attempt |-> 0]

\* The type invariant.
AgentsTypeOK ==
  /\ claim \in [Attempts -> [status : ClaimStatus, key : AgentKeys \cup {None}]]
  /\ session \in [Attempts -> SessionStates]
  /\ held \in [Managers -> SUBSET Attempts]
  /\ orphans \in [AgentProcs -> SUBSET Attempts]
  /\ server \in {"down", "sweeping", "up"}
  /\ store \subseteq Attempts /\ disk \subseteq Attempts
  /\ call \in [AgentProcs -> Call]

AgentsInit ==
  /\ claim = [a \in Attempts |-> [status |-> "ABSENT", key |-> None]]
  /\ session = [a \in Attempts |-> "none"]
  /\ held = [m \in Managers |-> {}]
  /\ orphans = [q \in AgentProcs |-> {}]
  /\ server = "down" /\ store = {} /\ disk = {}
  /\ call = [q \in AgentProcs |-> NoCall]

At(q, step) == call[q].at = step

Goto(q, step) == call' = [call EXCEPT ![q].at = step]

Return(q) == call' = [call EXCEPT ![q] = NoCall]

-----------------------------------------------------------------------------
(* The launch registry, as these callers see it *)

InUse(k) ==
  \E a \in Attempts : /\ claim[a].key = k
                      /\ claim[a].status \in {"RESERVED", "SPAWNING", "ACTIVE", "TERMINATING"}

\* Mutant: a registry that cannot be read lets the launch through.
ClaimUnguarded(q, k) ==
  \E a \in Attempts :
    /\ claim[a].status = "ABSENT" /\ \A b \in 1..(a - 1) : claim[b].status # "ABSENT"
    /\ claim' = [claim EXCEPT ![a] = [status |-> "RESERVED", key |-> k]]
    /\ call' = [call EXCEPT ![q] = [at |-> "spawning", attempt |-> a]]

\* request_launch; "suppressed" and "error" end the caller's operation.
Claim(q, k) ==
  \E a \in Attempts :
    /\ ~InUse(k)
    /\ claim[a].status = "ABSENT" /\ \A b \in 1..(a - 1) : claim[b].status # "ABSENT"
    /\ claim' = [claim EXCEPT ![a] = [status |-> "RESERVED", key |-> k]]
    /\ call' = [call EXCEPT ![q] = [at |-> "spawning", attempt |-> a]]

\* get_active_launch: the newest launch of the key that is not over, 0 for
\* none; a quarantined launch counts, and so does another caller's.
get_active_launch(k) ==
  LET open == {a \in Attempts : /\ claim[a].key = k
                                /\ claim[a].status \notin {"ABSENT", "TERMINATED", "FAILED"}}
  IN IF open = {} THEN 0 ELSE CHOOSE a \in open : \A b \in open : b <= a

\* A compare-and-set whose failure is only logged.
Cas(a, from, to) ==
  claim' = IF a # 0 /\ claim[a].status \in from THEN [claim EXCEPT ![a].status = to] ELSE claim

\* A lease runs out before the launch is confirmed, and is reconciled.
ClaimExpires(a) ==
  /\ claim[a].status \in {"RESERVED", "SPAWNING"}
  /\ claim' = [claim EXCEPT ![a].status = "QUARANTINED"]
  /\ UNCHANGED <<session, held, orphans, sessionVars, call>>

-----------------------------------------------------------------------------
(* AgentManager *)

\* The lock is free: no spawn, terminate or reconcile of this manager runs.
Unlocked(q) == At(q, "idle")

spawn_agent(m, n) ==
  /\ Unlocked(m)
  /\ \A a \in held[m] : claim[a].key # n
  /\ Claim(m, n)
  /\ UNCHANGED <<session, held, orphans, sessionVars>>

SpawnConfirmed(q) ==
  /\ At(q, "spawning")
  /\ Cas(call[q].attempt, {"RESERVED"}, "SPAWNING")
  /\ Goto(q, IF q = Server THEN "api_session" ELSE "session")
  /\ UNCHANGED <<session, held, orphans, sessionVars>>

\* tmux new-session; a time-out may leave a session.
SpawnSession(m) ==
  /\ At(m, "session")
  /\ \/ session' = [session EXCEPT ![call[m].attempt] = "stray"] /\ Goto(m, "wait")
     \/ /\ \E left \in {"none", "stray"} : session' = [session EXCEPT ![call[m].attempt] = left]
        /\ Goto(m, "mark_failed")
  /\ UNCHANGED <<claim, held, orphans, sessionVars>>

\* _wait_for_session: a session that is not there in time is killed, an
\* exception of has-session leaves it where it is.
SpawnWait(m) ==
  /\ At(m, "wait")
  /\ LET a == call[m].attempt
     IN \/ /\ session[a] # "none"
           /\ session' = [session EXCEPT ![a] = "started"]
           /\ held' = [held EXCEPT ![m] = @ \cup {a}]
           /\ Goto(m, "active")
        \/ /\ \E left \in {"none", session[a]} : session' = [session EXCEPT ![a] = left]
           /\ Goto(m, "mark_failed") /\ UNCHANGED held
  /\ UNCHANGED <<claim, orphans, sessionVars>>

SpawnActive(m) ==
  /\ At(m, "active")
  /\ Cas(call[m].attempt, {"SPAWNING"}, "ACTIVE")
  /\ Return(m)
  /\ UNCHANGED <<session, held, orphans, sessionVars>>

SpawnFailed(q) ==
  /\ At(q, "mark_failed")
  /\ Cas(call[q].attempt, {"RESERVED", "SPAWNING", "ACTIVE", "QUARANTINED"}, "FAILED")
  /\ IF q = Server THEN Goto(q, "api_store") ELSE Return(q)
  /\ UNCHANGED <<session, held, orphans, sessionVars>>

terminate_agent(m, a) ==
  /\ Unlocked(m)
  /\ a \in held[m]
  /\ call' = [call EXCEPT ![m] = [at |-> "begin", attempt |-> a]]
  /\ UNCHANGED <<claim, session, held, orphans, sessionVars>>

\* begin_termination of whatever launch of the key is open.
TerminationBegins(q) ==
  /\ At(q, "begin")
  /\ Cas(get_active_launch(claim[call[q].attempt].key), {"ACTIVE"}, "TERMINATING")
  /\ Goto(q, IF q = Server THEN "confirm" ELSE "terminate")
  /\ UNCHANGED <<session, held, orphans, sessionVars>>

\* kill-session, whose return code is not looked at; when it timed out the
\* agent stays registered, its launch TERMINATING.
Terminate(m) ==
  /\ At(m, "terminate")
  /\ LET a == call[m].attempt
     IN \/ session' = [session EXCEPT ![a] = "none"] /\ Goto(m, "confirm")
        \/ /\ session' = [session EXCEPT ![a] = IF @ = "started" THEN "unkilled" ELSE @]
           /\ Goto(m, "confirm")
        \/ Return(m) /\ UNCHANGED session
  /\ UNCHANGED <<claim, held, orphans, sessionVars>>

TerminationConfirmed(q) ==
  /\ At(q, "confirm")
  /\ Cas(get_active_launch(claim[call[q].attempt].key), {"TERMINATING"}, "TERMINATED")
  /\ IF q = Server
     THEN Goto(q, "api_forget") /\ UNCHANGED held
     ELSE Return(q) /\ held' = [held EXCEPT ![q] = @ \ {call[q].attempt}]
  /\ UNCHANGED <<session, orphans, sessionVars>>

\* A call on the registry raises.  A manager's operation ends there, what is
\* registered stays; so does a request of the server, but one that terminates
\* goes on (and one that launched, see ApiActive).
RegistryRaises(q) ==
  /\ IF q = Server
     THEN \/ (At(q, "spawning") \/ At(q, "mark_failed")) /\ Return(q)
          \/ (At(q, "begin") \/ At(q, "confirm")) /\ Goto(q, "api_forget")
     ELSE /\ \E step \in {"spawning", "active", "mark_failed", "begin", "confirm"} : At(q, step)
          /\ Return(q)
  /\ UNCHANGED <<claim, session, held, orphans, sessionVars>>

Registered(q) == IF q = Server THEN {} ELSE held[q]

\* Mutant: the sessions are compared without the lock.
ReconcileUnlocked(q) ==
  /\ orphans[q] = {}
  /\ orphans' = [orphans EXCEPT ![q] = {a \in Attempts : session[a] # "none"} \ Registered(q)]
  /\ UNCHANGED <<claim, session, held, sessionVars, call>>

\* reconcile_sessions, under the lock: every session named fork- or agent-
\* that this process did not spawn is an orphan.
reconcile_sessions(q) ==
  /\ Unlocked(q) /\ orphans[q] = {}
  /\ orphans' = [orphans EXCEPT ![q] = {a \in Attempts : session[a] # "none"} \ Registered(q)]
  /\ UNCHANGED <<claim, session, held, sessionVars, call>>

\* cleanup_orphans kills them one by one, without the lock.
cleanup_orphan(q, a) ==
  /\ a \in orphans[q]
  /\ orphans' = [orphans EXCEPT ![q] = @ \ {a}]
  /\ session' = [session EXCEPT ![a] = "none"] \/ UNCHANGED session
  /\ UNCHANGED <<claim, held, sessionVars, call>>

ManagerDies(m) ==
  /\ held' = [held EXCEPT ![m] = {}]
  /\ orphans' = [orphans EXCEPT ![m] = {}]
  /\ Return(m)
  /\ UNCHANGED <<claim, session, sessionVars>>

\* A session's last process exits.
SessionEnds(a) ==
  /\ session[a] # "none"
  /\ session' = [session EXCEPT ![a] = "none"]
  /\ UNCHANGED <<claim, held, orphans, sessionVars, call>>

-----------------------------------------------------------------------------
(* The API server *)

restore_sessions == store' = store \cup disk

\* lifespan: the sessions on disk are restored, then everything that the
\* server's AgentManager does not know is swept.
startup ==
  /\ server = "down"
  /\ server' = "sweeping"
  /\ restore_sessions
  /\ orphans' = [orphans EXCEPT ![Server] = {a \in Attempts : session[a] # "none"}]
  /\ UNCHANGED <<claim, session, held, disk, call>>

StartupDone ==
  /\ server = "sweeping" /\ orphans[Server] = {}
  /\ server' = "up"
  /\ UNCHANGED <<claim, session, held, orphans, store, disk, call>>

ServerDies ==
  /\ server # "down"
  /\ server' = "down" /\ store' = {}
  /\ orphans' = [orphans EXCEPT ![Server] = {}]
  /\ Return(Server)
  /\ UNCHANGED <<claim, session, held, disk>>

\* The semaphore of five is given back when the request ends, so it never
\* refuses one.
create_session(t) ==
  /\ server = "up" /\ At(Server, "idle")
  /\ Claim(Server, t)
  /\ UNCHANGED <<session, held, orphans, sessionVars>>

\* With tmux, what create_session returns is not looked at; without a task
\* nothing is launched and the launch stays SPAWNING.  Without tmux the
\* launch is ACTIVE at once, or the request ends with confirm_active's error.
ApiSession ==
  /\ At(Server, "api_session")
  /\ LET a == call[Server].attempt
     IN \/ /\ \E left \in {"none", "stray"} : session' = [session EXCEPT ![a] = left]
           /\ Goto(Server, "api_launch") \/ Goto(Server, "api_store")
           /\ UNCHANGED claim
        \/ /\ Goto(Server, "mark_failed")
           /\ UNCHANGED <<claim, session>>
        \/ /\ Cas(a, {"SPAWNING"}, "ACTIVE") /\ Goto(Server, "api_store")
           /\ UNCHANGED session
        \/ Return(Server) /\ UNCHANGED <<claim, session>>
  /\ UNCHANGED <<held, orphans, sessionVars>>

ApiLaunch ==
  /\ At(Server, "api_launch")
  /\ LET a == call[Server].attempt
     IN \/ /\ session[a] # "none"
           /\ session' = [session EXCEPT ![a] = "started"]
           /\ Goto(Server, "api_active")
        \/ Goto(Server, "mark_failed") /\ UNCHANGED session
  /\ UNCHANGED <<claim, held, orphans, sessionVars>>

\* An exception of confirm_active is taken for one of tmux: the launch is marked
\* failed and the agent runs on.
ApiActive ==
  /\ At(Server, "api_active")
  /\ \/ Cas(call[Server].attempt, {"SPAWNING"}, "ACTIVE") /\ Goto(Server, "api_store")
     \/ Goto(Server, "mark_failed") /\ UNCHANGED claim
  /\ UNCHANGED <<session, held, orphans, sessionVars>>

\* SessionStore.set: a file that cannot be written is logged.
ApiStore ==
  /\ At(Server, "api_store")
  /\ store' = store \cup {call[Server].attempt}
  /\ disk' \in {disk, disk \cup {call[Server].attempt}}
  /\ Return(Server)
  /\ UNCHANGED <<claim, session, held, orphans, server>>

\* SessionStore.get falls back to the disk.
delete_session(a) ==
  /\ server = "up" /\ At(Server, "idle")
  /\ a \in store \cup disk
  /\ call' = [call EXCEPT ![Server] = [at |-> "api_kill", attempt |-> a]]
  /\ UNCHANGED <<claim, session, held, orphans, sessionVars>>

\* A kill that failed is not looked at; the launch is terminated all the same.
ApiKill ==
  /\ At(Server, "api_kill")
  /\ session' = [session EXCEPT ![call[Server].attempt] = "none"] \/ UNCHANGED session
  /\ Goto(Server, "begin")
  /\ UNCHANGED <<claim, held, orphans, sessionVars>>

\* SessionStore.delete: a file that cannot be removed is logged.
ApiForget ==
  /\ At(Server, "api_forget")
  /\ store' = store \ {call[Server].attempt}
  /\ disk' \in {disk, disk \ {call[Server].attempt}}
  /\ Return(Server)
  /\ UNCHANGED <<claim, session, held, orphans, server>>

-----------------------------------------------------------------------------

Managing(m) ==
  \/ \E n \in AgentNames : spawn_agent(m, n)
  \/ \E a \in Attempts : terminate_agent(m, a)
  \/ SpawnSession(m) \/ SpawnWait(m) \/ SpawnActive(m) \/ Terminate(m)
  \/ reconcile_sessions(m) \/ ManagerDies(m)

Shared(q) ==
  \/ SpawnConfirmed(q) \/ SpawnFailed(q) \/ TerminationBegins(q) \/ TerminationConfirmed(q)
  \/ RegistryRaises(q)
  \/ \E a \in Attempts : cleanup_orphan(q, a)

Serving ==
  \/ startup \/ StartupDone \/ ServerDies
  \/ \E t \in ApiTasks : create_session(t)
  \/ ApiSession \/ ApiLaunch \/ ApiActive \/ ApiStore
  \/ \E a \in Attempts : delete_session(a)
  \/ ApiKill \/ ApiForget

AgentsNext ==
  \/ \E m \in Managers : Managing(m)
  \/ \E q \in AgentProcs : Shared(q)
  \/ Serving
  \/ \E a \in Attempts : ClaimExpires(a) \/ SessionEnds(a)

AgentsSpec == AgentsInit /\ [][AgentsNext]_agentVars

-----------------------------------------------------------------------------
(* Properties *)

Twins(a, b) ==
  /\ a # b /\ claim[a].key = claim[b].key /\ claim[a].key \in AgentNames
  /\ {session[a], session[b]} \subseteq {"started", "unkilled"}

\* spawn_agent's duplicate check is per process; across processes the
\* registry has to keep one agent per name.  Two sessions that spawn reported
\* for one name are never both alive, through registry calls that raise,
\* terminations that stop half way and managers that die, with two exceptions:
\* the lease of a launch of that name ran out before it was confirmed
\* ("quarantined launches don't block new ones",
\* docs/adr/ADR-002-skill-repo-boundary.md), or terminate_agent left one alive.
OneManagedAgent ==
  \A a, b \in Attempts :
    Twins(a, b) =>
      \/ "unkilled" \in {session[a], session[b]}
      \/ \E c \in Attempts : claim[c].key = claim[a].key /\ claim[c].status = "QUARANTINED"

\* confirm_terminated: "Transition from TERMINATING to TERMINATED after cleanup
\* verification".  A managed agent whose launch is TERMINATED is gone, even if
\* tmux could not kill its session.
TerminatedIsGone ==
  \A a \in Attempts :
    claim[a].status = "TERMINATED" /\ claim[a].key \in AgentNames => session[a] = "none"

\* cleanup_orphans: "Clean up orphaned tmux sessions".  A sweep never kills a
\* session that the same manager has registered by then, although it kills
\* after it gave the lock back and spawns go on meanwhile.
SweepSparesHeld ==
  \A m \in Managers : orphans[m] \cap held[m] = {}

\* _restore_sessions_from_disk: "Called before any GC to ensure sessions
\* persisted to disk are not incorrectly marked as orphans".  The startup
\* sweep does not mark a live session that was just restored.
RestoredSessionsSurvive ==
  server = "sweeping" => orphans[Server] \cap store = {}

-----------------------------------------------------------------------------
(* Refinement: the slot of a key is held by its launch in use.               *)

InUseOf(k) ==
  {a \in Attempts : /\ claim[a].key = k
                    /\ claim[a].status \in {"RESERVED", "SPAWNING", "ACTIVE", "TERMINATING"}}

ClaimSlots == INSTANCE LaunchSlots WITH
                Keys     <- AgentKeys,
                Launches <- Attempts,
                held     <- [k \in AgentKeys |-> InUseOf(k)],
                spent    <- {a \in Attempts : claim[a].status # "ABSENT"}

\* However the compare-and-sets of managers, server and collector interleave,
\* the registry gives its callers what LaunchSlots promises.
ClaimsTakeSlots == ClaimSlots!Spec

=============================================================================
