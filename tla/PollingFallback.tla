--------------------------- MODULE PollingFallback ---------------------------
(***************************************************************************)
(* Polling with POLL_ALLOW_SUBPROCESS_FALLBACK set: a spawn whose tmux     *)
(* command gives no pane id is followed by a background subprocess.  When  *)
(* the command only timed out its pane may be there with an agent in it,   *)
(* which nobody has a handle of.  A fallback after a tmux command that     *)
(* made no pane, or one that cannot start its process either, is one of    *)
(* the outcomes of Polling's SpawnAgent.                                   *)
(***************************************************************************)
EXTENDS Polling

VARIABLE pane  \* runs with an agent in the pane of a tmux command that timed out

fallbackVars == <<vars, pane>>

FallbackInit == Init /\ pane = {}

\* _spawn_agent: tmux times out with the pane made, and the subprocess starts.
SpawnTwice(p) ==
  /\ pop[p].at = "spawn"
  /\ LET r == pop[p].run
     IN  /\ runs[r] # NoRun
         /\ agent' = [agent EXCEPT ![r] = "alive"]
         /\ pane' = pane \cup {r}
  /\ Go(p, "record")
  /\ UNCHANGED <<tasks, runs, reg, file, event, crashes>>

\* The agent in the pane has the same prompt and status.json as the other.
PaneEnds(r, outcome) ==
  /\ r \in pane
  /\ pane' = pane \ {r}
  /\ file' = IF outcome = "crash" THEN file ELSE [file EXCEPT ![r] = outcome]
  /\ UNCHANGED <<tasks, runs, reg, event, agent, pop, crashes>>

FallbackNext ==
  \/ Next /\ UNCHANGED pane
  \/ \E p \in Procs : SpawnTwice(p)
  \/ \E r \in Runs, outcome \in AgentOutcomes : PaneEnds(r, outcome)

FallbackSpec == FallbackInit /\ [][FallbackNext]_fallbackVars

-----------------------------------------------------------------------------
(* What the repository says and the code does not do with the fallback       *)

\* A spawn whose outcome is unknown is quarantined and not tried again (a cause
\* of the swarm is "Failed/ambiguous spawns got retried instead of
\* quarantined"): the agent in a pane works on its task alone.
AmbiguousSpawnIsAlone ==
  \A s \in pane : \A r \in Alive : reg[r].key # reg[s].key

=============================================================================
