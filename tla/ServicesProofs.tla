--------------------------- MODULE ServicesProofs ---------------------------
(***************************************************************************)
(* What holds of the services that share no state with the others: the     *)
(* clients of the launch registry (Agents, Workflow), the promise          *)
(* contracts, the resilience, the caps of the MCP answers, the rate        *)
(* limiters, the scheduler, the bug hunts, the work sessions, the dispatch *)
(* to hooks, and the templates.                                            *)
(***************************************************************************)
EXTENDS Agents, Workflow, Contracts, Resilience, Caps, Limits, Schedule, Hunts,
        Sessions, Dispatch, Templates,
        FiniteSetTheorems, SequenceTheorems, WellFoundedInduction, TLAPS

-----------------------------------------------------------------------------
(*****************************************************************************)
(* Agents.  Two sessions that spawn_agent reported for one name are never    *)
(* both alive, and a sweep never kills a session that its own manager has    *)
(* registered, for every number of managers, names, API tasks and launches.  *)
(*                                                                           *)
(* Neither is inductive.  A started session is safe from a second spawn      *)
(* while its launch is in use; terminate_agent takes whatever launch of the  *)
(* name is open, so what has to be shown is that it takes its own, or that a *)
(* launch of the name was quarantined by an expired lease and stays so:      *)
(* nobody is left who would mark it failed.  A session that outlived its     *)
(* kill is no longer a started one, and the invariant says nothing of it.    *)
(*****************************************************************************)

-----------------------------------------------------------------------------
(* The inductive invariant *)

UsedStatuses == {"RESERVED", "SPAWNING", "ACTIVE", "TERMINATING"}

Used(a) == claim[a].status \in UsedStatuses

Claimed(a) == claim[a].status # "ABSENT"

\* The steps from the claim to the answer of tmux, and to mark_failed.
SpawnSteps ==
  {"spawning", "session", "wait", "mark_failed", "api_session", "api_launch", "api_active"}

Spawns(q, a) == call[q].at \in SpawnSteps /\ call[q].attempt = a

\* The steps of a manager from the answer of tmux on.
OwnSteps == {"active", "begin", "terminate", "confirm"}

Ends(q, a) == call[q].at \in OwnSteps /\ call[q].attempt = a

\* Nobody will mark launch a failed any more.
Settled(a) == \A q \in AgentProcs : ~Spawns(q, a)

\* A launch of key k is quarantined for good.
InDoubt(k) == \E c \in Attempts : claim[c].key = k /\ claim[c].status = "QUARANTINED" /\ Settled(c)

\* A launch holds its key, or the key is in doubt.
Covered(a) == Settled(a) /\ (Used(a) \/ InDoubt(claim[a].key))

OwnKeys(q) == IF q = Server THEN ApiTasks ELSE AgentNames

\* What an operation works on is claimed under a key of its process.
Calls ==
  \A q \in AgentProcs : call[q].at # "idle" =>
    call[q].attempt \in Attempts /\ claim[call[q].attempt].key \in OwnKeys(q)

\* The launch that is being spawned has one spawner, which no sweep of its
\* own will kill.
Spawners ==
  \A q \in AgentProcs, a \in Attempts : Spawns(q, a) =>
    /\ claim[a].status \in {"RESERVED", "SPAWNING", "QUARANTINED"}
    /\ \A r \in AgentProcs : Spawns(r, a) => r = q
    /\ q # Server => a \notin orphans[q]

\* Sessions, and the lists of them, are of launches that were claimed.
Known ==
  /\ \A a \in Attempts : claim[a].status = "ABSENT" <=> claim[a].key = None
  /\ \A a \in Attempts : session[a] # "none" => Claimed(a)
  /\ \A q \in AgentProcs : \A a \in orphans[q] : Claimed(a)
  /\ \A m \in Managers : \A a \in held[m] : claim[a].key \in AgentNames
  /\ \A a \in store \cup disk : claim[a].key \in ApiTasks

OneUsePerKey ==
  \A a, b \in Attempts : Used(a) /\ Used(b) /\ claim[a].key = claim[b].key => a = b

\* A manager has launch a registered, or is confirming it or taking it down.
Owns(m, a) == a \in held[m] \/ Ends(m, a)

Owners ==
  \A m \in Managers, a \in Attempts : Owns(m, a) =>
    Covered(a) /\ \A n \in Managers : Owns(n, a) => n = m

Started ==
  \A a \in Attempts : session[a] = "started" /\ claim[a].key \in AgentNames => Covered(a)

\* terminate_agent confirms after it has killed.
KilledFirst ==
  \A m \in Managers : call[m].at = "confirm" => session[call[m].attempt] # "started"

AgentsInv ==
  /\ AgentsTypeOK
  /\ Calls /\ Spawners /\ Known
  /\ OneUsePerKey /\ Owners /\ Started /\ KilledFirst
  /\ SweepSparesHeld

-----------------------------------------------------------------------------
(* What every step but a claim does *)

\* The end of a spawn: a is registered, or its session reported.
Comes(q, a) == Spawns(q, a) /\ ~Spawns(q, a)' /\ claim'[a] = claim[a]

\* An operation goes on with its attempt, ends, or begins.
CallsStep ==
  \A q \in AgentProcs :
    \/ call'[q] = call[q]
    \/ call'[q].at = "idle"
    \/ /\ call[q].at # "idle" /\ call'[q].attempt = call[q].attempt
       /\ call'[q].at \in SpawnSteps => call[q].at \in SpawnSteps
       /\ q # Server /\ call'[q].at \in OwnSteps =>
            call[q].at \in OwnSteps \/ call[q].attempt \in held'[q]
       /\ q # Server /\ call'[q].at = "confirm" => session'[call[q].attempt] # "started"
    \/ q # Server /\ call'[q].at = "begin" /\ call'[q].attempt \in held[q]
    \/ q = Server /\ call'[q].at = "api_kill" /\ call'[q].attempt \in store \cup disk

HeldStep ==
  \A m \in Managers : \A a \in held'[m] : a \in held[m] \/ (a \in Attempts /\ Comes(m, a))

SessionStep ==
  \A a \in Attempts :
    /\ session'[a] = "started" /\ claim[a].key \in AgentNames =>
         session[a] = "started" \/ \E q \in AgentProcs : Comes(q, a)
    /\ session'[a] # "none" => session[a] # "none" \/ Claimed(a)

SweepStep ==
  \A q \in AgentProcs : \A a \in orphans'[q] :
    \/ a \in orphans[q]
    \/ session[a] # "none" /\ (q # Server => call'[q].at = "idle" /\ a \notin held'[q])

StoreStep ==
  \A a \in store' \cup disk' :
    a \in store \cup disk \/ (call[Server].at # "idle" /\ a = call[Server].attempt)

\* No launch is claimed, and one that covers a started or a registered
\* session stays in use, is quarantined, or is not the only cover.
ClaimsStep ==
  \A a \in Attempts :
    /\ claim'[a].key = claim[a].key
    /\ claim'[a].status = "ABSENT" <=> claim[a].status = "ABSENT"
    /\ Used(a)' => Used(a)
    /\ Settled(a) /\ claim[a].status = "QUARANTINED" => claim'[a].status = "QUARANTINED"
    /\ (\E q \in AgentProcs : Spawns(q, a) /\ Spawns(q, a)') =>
         claim'[a].status \in {"RESERVED", "SPAWNING", "QUARANTINED"}
    /\ /\ Settled(a) /\ Used(a)
       /\ \/ session'[a] = "started" /\ claim[a].key \in AgentNames
          \/ \E m \in Managers : Owns(m, a)'
       => Used(a)' \/ claim'[a].status = "QUARANTINED" \/ InDoubt(claim[a].key)

LEMMA SpawnsBackward ==
  ASSUME CallsStep, NEW q \in AgentProcs, NEW a, Spawns(q, a)'
  PROVE  Spawns(q, a)
<1>1. call'[q].at \in SpawnSteps /\ call'[q].attempt = a
  BY DEF Spawns
<1>2. call'[q].at \notin {"idle", "begin", "api_kill"}
  BY <1>1 DEF SpawnSteps
<1>. QED BY <1>1, <1>2 DEF CallsStep, Spawns

LEMMA SettledStays ==
  ASSUME CallsStep, NEW a, Settled(a)
  PROVE  Settled(a)'
<1>1. \A q \in AgentProcs : ~Spawns(q, a)'
  BY SpawnsBackward DEF Settled
<1>. QED BY <1>1 DEF Settled

LEMMA DoubtStays ==
  ASSUME CallsStep, ClaimsStep, NEW k, InDoubt(k)
  PROVE  InDoubt(k)'
<1>1. PICK c \in Attempts : claim[c].key = k /\ claim[c].status = "QUARANTINED" /\ Settled(c)
  BY DEF InDoubt
<1>2. claim'[c].key = k /\ claim'[c].status = "QUARANTINED" /\ Settled(c)'
  BY <1>1, SettledStays DEF ClaimsStep
<1>. QED BY <1>2 DEF InDoubt

LEMMA CoveredStays ==
  ASSUME CallsStep, ClaimsStep, NEW a \in Attempts, Covered(a),
         \/ session'[a] = "started" /\ claim[a].key \in AgentNames
         \/ \E m \in Managers : Owns(m, a)'
  PROVE  Covered(a)'
<1>1. Settled(a) /\ Settled(a)' /\ claim'[a].key = claim[a].key
  BY SettledStays DEF Covered, ClaimsStep
<1>2. CASE InDoubt(claim[a].key)
  <2>1. \A k : InDoubt(k) => InDoubt(k)'
    BY DoubtStays
  <2>. QED BY <1>1, <1>2, <2>1 DEF Covered, InDoubt
<1>3. CASE Used(a) /\ ~InDoubt(claim[a].key)
  <2>1. Used(a)' \/ claim'[a].status = "QUARANTINED"
    BY <1>1, <1>3 DEF ClaimsStep
  <2>. QED BY <1>1, <2>1 DEF Covered, InDoubt
<1>. QED BY <1>2, <1>3 DEF Covered

\* A launch whose spawn has just come to its end.
LEMMA ComesCovered ==
  ASSUME AgentsInv, CallsStep, NEW q \in AgentProcs, NEW a \in Attempts, Comes(q, a)
  PROVE  Covered(a)'
<1>1. \A r \in AgentProcs : Spawns(r, a)' => Spawns(r, a)
  BY SpawnsBackward
<1>2. \A r \in AgentProcs : ~Spawns(r, a)'
  BY <1>1 DEF Comes, AgentsInv, Spawners
<1>3. claim'[a].status \in {"RESERVED", "SPAWNING", "QUARANTINED"}
  BY DEF Comes, AgentsInv, Spawners
<1>. QED BY <1>2, <1>3 DEF Covered, Settled, Used, UsedStatuses, InDoubt

LEMMA OwnsBackward ==
  ASSUME AgentsInv, CallsStep, HeldStep, NEW m \in Managers, NEW a \in Attempts, Owns(m, a)'
  PROVE  Owns(m, a) \/ Comes(m, a)
<1>1. m \in AgentProcs /\ m # Server
  BY AgentsAssumption DEF AgentProcs
<1>2. CASE a \in held'[m]
  BY <1>2 DEF HeldStep, Owns
<1>3. CASE Ends(m, a)' /\ a \notin held'[m]
  BY <1>1, <1>3 DEF CallsStep, Owns, Ends, OwnSteps
<1>. QED BY <1>2, <1>3 DEF Owns, Ends

LEMMA StepKeeps ==
  ASSUME AgentsInv, AgentsTypeOK', CallsStep, HeldStep, SessionStep, SweepStep, StoreStep,
         ClaimsStep
  PROVE  AgentsInv'
<1>1. Managers \subseteq AgentProcs /\ Server \in AgentProcs /\ Server \notin Managers
  BY AgentsAssumption DEF AgentProcs
<1>2. Calls'
  <2> SUFFICES ASSUME NEW q \in AgentProcs, call'[q].at # "idle"
               PROVE  call'[q].attempt \in Attempts /\ claim'[call'[q].attempt].key \in OwnKeys(q)
    BY DEF Calls, OwnKeys
  <2>1. CASE call[q].at # "idle" /\ call'[q].attempt = call[q].attempt
    BY <2>1 DEF AgentsInv, Calls, ClaimsStep
  <2>2. CASE q # Server /\ call'[q].attempt \in held[q]
    <3>1. q \in Managers /\ held[q] \subseteq Attempts
      BY <2>2 DEF AgentProcs, AgentsInv, AgentsTypeOK
    <3>. QED BY <2>2, <3>1 DEF AgentsInv, Known, OwnKeys, ClaimsStep
  <2>3. CASE q = Server /\ call'[q].attempt \in store \cup disk
    BY <2>3 DEF AgentsInv, AgentsTypeOK, Known, OwnKeys, ClaimsStep
  <2>. QED BY <2>1, <2>2, <2>3 DEF CallsStep
<1>3. Spawners'
  <2> SUFFICES ASSUME NEW q \in AgentProcs, NEW a \in Attempts, Spawns(q, a)'
               PROVE  /\ claim'[a].status \in {"RESERVED", "SPAWNING", "QUARANTINED"}
                      /\ \A r \in AgentProcs : Spawns(r, a)' => r = q
                      /\ q # Server => a \notin orphans'[q]
    BY DEF Spawners
  <2>1. Spawns(q, a) /\ \A r \in AgentProcs : Spawns(r, a)' => Spawns(r, a)
    BY SpawnsBackward
  <2>2. claim'[a].status \in {"RESERVED", "SPAWNING", "QUARANTINED"}
    BY <2>1 DEF ClaimsStep
  <2>3. call'[q].at # "idle"
    BY DEF Spawns, SpawnSteps
  <2>. QED BY <2>1, <2>2, <2>3 DEF AgentsInv, Spawners, SweepStep
<1>4. Known'
  <2>1. \A a \in Attempts : claim'[a].status = "ABSENT" <=> claim'[a].key = None
    BY DEF AgentsInv, Known, ClaimsStep
  <2>2. \A a \in Attempts : session'[a] # "none" => Claimed(a)'
    BY DEF AgentsInv, Known, ClaimsStep, SessionStep, Claimed
  <2>3. \A q \in AgentProcs : \A a \in orphans'[q] : Claimed(a)'
    <3>1. \A q \in AgentProcs : orphans'[q] \subseteq Attempts
      BY DEF AgentsTypeOK
    <3>. QED BY <3>1 DEF AgentsInv, Known, ClaimsStep, SweepStep, Claimed
  <2>4. \A m \in Managers : \A a \in held'[m] : claim'[a].key \in AgentNames
    <3> SUFFICES ASSUME NEW m \in Managers, NEW a \in held'[m]
                 PROVE  claim'[a].key \in AgentNames
      OBVIOUS
    <3>1. a \in Attempts
      BY DEF AgentsTypeOK
    <3>2. CASE a \in held[m]
      BY <3>1, <3>2 DEF AgentsInv, Known, ClaimsStep
    <3>3. CASE Spawns(m, a)
      <4>1. call[m].at # "idle" /\ call[m].attempt = a
        BY <3>3 DEF Spawns, SpawnSteps
      <4>. QED BY <1>1, <3>1, <4>1 DEF AgentsInv, Calls, OwnKeys, ClaimsStep
    <3>. QED BY <3>2, <3>3 DEF HeldStep, Comes
  <2>5. \A a \in store' \cup disk' : claim'[a].key \in ApiTasks
    <3>1. store' \cup disk' \subseteq Attempts
      BY DEF AgentsTypeOK
    <3>. QED BY <1>1, <3>1 DEF AgentsInv, Known, Calls, OwnKeys, ClaimsStep, StoreStep
  <2>. QED BY <2>1, <2>2, <2>3, <2>4, <2>5 DEF Known
<1>5. OneUsePerKey'
  BY DEF AgentsInv, OneUsePerKey, ClaimsStep
<1>6. Owners'
  <2> SUFFICES ASSUME NEW m \in Managers, NEW a \in Attempts, Owns(m, a)'
               PROVE  Covered(a)' /\ \A n \in Managers : Owns(n, a)' => n = m
    BY DEF Owners
  <2>1. \A n \in Managers : Owns(n, a)' => Owns(n, a) \/ Comes(n, a)
    BY OwnsBackward
  <2>2. \A n \in Managers : Owns(n, a) => Covered(a)
    BY DEF AgentsInv, Owners
  <2>3. Covered(a)'
    <3>1. CASE Owns(m, a)
      BY <2>2, <3>1, CoveredStays
    <3>2. CASE Comes(m, a)
      BY <1>1, <3>2, ComesCovered
    <3>. QED BY <2>1, <3>1, <3>2
  <2>4. ASSUME NEW n \in Managers, Owns(n, a)'
        PROVE  n = m
    <3>1. Owns(m, a) /\ Owns(n, a) => n = m
      BY DEF AgentsInv, Owners
    <3>2. Comes(m, a) /\ Comes(n, a) => n = m
      BY <1>1 DEF Comes, AgentsInv, Spawners
    <3>3. /\ ~(Owns(m, a) /\ Comes(n, a))
          /\ ~(Comes(m, a) /\ Owns(n, a))
      BY <1>1, <2>2 DEF Comes, Covered, Settled
    <3>4. Owns(m, a) \/ Comes(m, a)
      BY <2>1
    <3>5. Owns(n, a) \/ Comes(n, a)
      BY <2>1, <2>4
    <3>. QED BY <3>1, <3>2, <3>3, <3>4, <3>5
  <2>. QED BY <2>3, <2>4
<1>7. Started'
  <2> SUFFICES ASSUME NEW a \in Attempts, session'[a] = "started", claim'[a].key \in AgentNames
               PROVE  Covered(a)'
    BY DEF Started
  <2>1. CASE session[a] = "started"
    BY <2>1, CoveredStays DEF AgentsInv, Started, ClaimsStep
  <2>2. CASE \E q \in AgentProcs : Comes(q, a)
    BY <2>2, ComesCovered
  <2>3. claim[a].key \in AgentNames
    BY DEF ClaimsStep
  <2>. QED BY <2>1, <2>2, <2>3 DEF SessionStep
<1>8. KilledFirst'
  <2> SUFFICES ASSUME NEW m \in Managers, call'[m].at = "confirm"
               PROVE  session'[call'[m].attempt] # "started"
    BY DEF KilledFirst
  <2>1. CASE call'[m] = call[m]
    <3> DEFINE a == call[m].attempt
    <3>1. /\ a \in Attempts /\ session[a] # "started" /\ Ends(m, a)
          /\ claim[a].key \in AgentNames
      BY <1>1, <2>1 DEF AgentsInv, Calls, KilledFirst, Ends, OwnSteps, OwnKeys
    <3>2. Settled(a)
      BY <3>1 DEF AgentsInv, Owners, Owns, Covered
    <3>. QED BY <2>1, <3>1, <3>2 DEF SessionStep, Comes, Settled
  <2>2. CASE call'[m] # call[m]
    BY <1>1, <2>2 DEF CallsStep
  <2>. QED BY <2>1, <2>2
<1>9. SweepSparesHeld'
  <2> SUFFICES ASSUME NEW m \in Managers, NEW a \in orphans'[m], a \in held'[m]
               PROVE  FALSE
    BY DEF SweepSparesHeld
  <2>1. a \in orphans[m]
    BY <1>1 DEF SweepStep
  <2>2. a \notin held[m]
    BY <2>1 DEF AgentsInv, SweepSparesHeld
  <2>. QED BY <1>1, <2>1, <2>2 DEF HeldStep, Comes, AgentsInv, Spawners
<1>. QED BY <1>2, <1>3, <1>4, <1>5, <1>6, <1>7, <1>8, <1>9 DEF AgentsInv

-----------------------------------------------------------------------------
(* A claim *)

LEMMA ClaimKeeps ==
  ASSUME AgentsInv, NEW q \in AgentProcs, NEW k \in OwnKeys(q), At(q, "idle"), Claim(q, k),
         UNCHANGED <<session, held, orphans, sessionVars>>
  PROVE  AgentsInv'
<1>1. PICK a \in Attempts :
        /\ ~InUse(k)
        /\ claim[a].status = "ABSENT"
        /\ claim' = [claim EXCEPT ![a] = [status |-> "RESERVED", key |-> k]]
        /\ call' = [call EXCEPT ![q] = [at |-> "spawning", attempt |-> a]]
  BY DEF Claim
<1>2. k \in AgentKeys /\ k # None
  BY AgentsAssumption DEF OwnKeys, AgentKeys
<1>3. /\ claim'[a].status = "RESERVED" /\ claim'[a].key = k
      /\ \A b \in Attempts \ {a} : claim'[b] = claim[b]
      /\ call'[q].at = "spawning" /\ call'[q].attempt = a
      /\ \A r \in AgentProcs \ {q} : call'[r] = call[r]
      /\ session' = session /\ held' = held /\ orphans' = orphans
      /\ store' = store /\ disk' = disk /\ server' = server
  BY <1>1 DEF AgentsInv, AgentsTypeOK, sessionVars
<1>4. AgentsTypeOK'
  <2>1. [at |-> "spawning", attempt |-> a] \in Call
    BY DEF Call, CallSteps, Attempts
  <2>2. [status |-> "RESERVED", key |-> k] \in [status : ClaimStatus, key : AgentKeys \cup {None}]
    BY <1>2 DEF ClaimStatus
  <2>. QED BY <1>1, <1>3, <2>1, <2>2 DEF AgentsInv, AgentsTypeOK
<1>5. /\ call[q].at = "idle" /\ call[q].at \notin SpawnSteps
      /\ call[q].at \notin OwnSteps
      /\ "spawning" \in SpawnSteps /\ "spawning" \notin {"idle", "confirm"} \cup OwnSteps
  BY DEF At, SpawnSteps, OwnSteps
<1>6. \A b \in Attempts : /\ claim[a].key = None /\ session[a] = "none"
                          /\ \A r \in AgentProcs : a \notin orphans[r]
                          /\ \A m \in Managers : a \notin held[m]
                          /\ a \notin store \cup disk
  BY <1>1, AgentsAssumption DEF AgentsInv, AgentsTypeOK, Known, Claimed
<1>7. \A r \in AgentProcs, b \in Attempts :
        /\ Spawns(r, b)' <=> Spawns(r, b) \/ (r = q /\ b = a)
        /\ Ends(r, b)' <=> Ends(r, b)
  BY <1>3, <1>5 DEF Spawns, Ends
<1>8. \A r \in AgentProcs : ~Spawns(r, a) /\ ~Ends(r, a)
  <2>1. \A r \in AgentProcs : call[r].at # "idle" => call[r].attempt # a
    BY <1>6, AgentsAssumption DEF AgentsInv, Calls, OwnKeys
  <2>. QED BY <2>1 DEF Spawns, Ends, SpawnSteps, OwnSteps
<1>9. \A b \in Attempts \ {a} : Settled(b) <=> Settled(b)'
  BY <1>7 DEF Settled
<1>10. \A b \in Attempts : Used(b)' <=> Used(b) \/ b = a
  BY <1>3 DEF Used, UsedStatuses
<1>12. ASSUME NEW b \in Attempts \ {a}, Covered(b)
       PROVE  Covered(b)'
  <2>1. claim'[b] = claim[b] /\ Settled(b)'
    BY <1>3, <1>9, <1>12 DEF Covered
  <2>2. InDoubt(claim[b].key) => InDoubt(claim[b].key)'
    <3>1. InDoubt(claim[b].key) => \E d \in Attempts :
            claim[d].key = claim[b].key /\ claim[d].status = "QUARANTINED" /\ Settled(d)
      BY DEF InDoubt
    <3>2. \A d \in Attempts : claim[d].status = "QUARANTINED" => d # a /\ claim'[d] = claim[d]
      BY <1>1, <1>3
    <3>. QED BY <1>9, <2>1, <3>1, <3>2 DEF InDoubt
  <2>. QED BY <1>10, <1>12, <2>1, <2>2 DEF Covered
<1>13. Calls'
  BY <1>2, <1>3, <1>6, AgentsAssumption DEF AgentsInv, Calls, OwnKeys
<1>14. Spawners'
  BY <1>1, <1>3, <1>6, <1>7, <1>8 DEF AgentsInv, Spawners
<1>15. Known'
  <2>1. \A b \in Attempts : claim'[b].status = "ABSENT" <=> claim'[b].key = None
    BY <1>2, <1>3 DEF AgentsInv, Known
  <2>2. \A b \in Attempts : Claimed(b) => Claimed(b)' /\ claim'[b] = claim[b]
    BY <1>1, <1>3 DEF Claimed
  <2>3. /\ \A b \in Attempts : session'[b] # "none" => Claimed(b)'
        /\ \A r \in AgentProcs : \A b \in orphans'[r] : Claimed(b)'
    BY <1>3, <2>2 DEF AgentsInv, Known, AgentsTypeOK
  <2>4. /\ \A m \in Managers : \A b \in held'[m] : claim'[b].key \in AgentNames
        /\ \A b \in store' \cup disk' : claim'[b].key \in ApiTasks
    BY <1>3, <1>6 DEF AgentsInv, Known, AgentsTypeOK
  <2>. QED BY <2>1, <2>3, <2>4 DEF Known
<1>16. OneUsePerKey'
  <2>1. \A b \in Attempts : Used(b) => claim[b].key # k
    BY <1>1 DEF InUse, Used, UsedStatuses
  <2>. QED BY <1>3, <1>10, <2>1 DEF AgentsInv, OneUsePerKey
<1>17. Owners'
  <2>1. \A m \in Managers, b \in Attempts : Owns(m, b)' <=> Owns(m, b)
    BY <1>3, <1>7 DEF Owns, AgentProcs
  <2>2. \A m \in Managers : ~Owns(m, a)
    BY <1>6, <1>8 DEF Owns, AgentProcs
  <2>. QED BY <1>12, <2>1, <2>2 DEF AgentsInv, Owners
<1>18. Started'
  BY <1>3, <1>6, <1>12 DEF AgentsInv, Started
<1>19. KilledFirst' /\ SweepSparesHeld'
  BY <1>3, <1>5 DEF AgentsInv, KilledFirst, SweepSparesHeld, AgentProcs
<1>. QED
  BY <1>4, <1>13, <1>14, <1>15, <1>16, <1>17, <1>18, <1>19 DEF AgentsInv

-----------------------------------------------------------------------------
(* The parts of a step *)

LEMMA CallMoves ==
  ASSUME AgentsInv, NEW q \in AgentProcs, NEW c \in Call, call' = [call EXCEPT ![q] = c],
         \/ c.at = "idle"
         \/ /\ call[q].at # "idle" /\ c.attempt = call[q].attempt
            /\ c.at \in SpawnSteps => call[q].at \in SpawnSteps
            /\ q # Server /\ c.at \in OwnSteps =>
                 call[q].at \in OwnSteps \/ call[q].attempt \in held'[q]
            /\ q # Server /\ c.at = "confirm" => session'[call[q].attempt] # "started"
         \/ q # Server /\ c.at = "begin" /\ c.attempt \in held[q]
         \/ q = Server /\ c.at = "api_kill" /\ c.attempt \in store \cup disk
  PROVE  call' \in [AgentProcs -> Call] /\ call'[q] = c /\ CallsStep
<1>1. /\ call' \in [AgentProcs -> Call] /\ call'[q] = c
      /\ \A r \in AgentProcs \ {q} : call'[r] = call[r]
  BY DEF AgentsInv, AgentsTypeOK
<1>2. ASSUME NEW r \in AgentProcs, r # q
      PROVE  call'[r] = call[r]
  BY <1>1, <1>2
<1>. QED BY <1>1, <1>2 DEF CallsStep

LEMMA GotoIsMove ==
  ASSUME AgentsInv, NEW q \in AgentProcs, NEW step \in CallSteps, Goto(q, step)
  PROVE  \E c \in Call : /\ c.at = step /\ c.attempt = call[q].attempt
                         /\ call' = [call EXCEPT ![q] = c]
<1> DEFINE c == [call[q] EXCEPT !.at = step]
<1>1. c \in Call /\ c.at = step /\ c.attempt = call[q].attempt
  BY DEF AgentsInv, AgentsTypeOK, Call
<1>2. call' = [call EXCEPT ![q] = c]
  BY DEF Goto
<1>. QED BY <1>1, <1>2

\* A step of a spawn, of an owner, or of the server goes on.
LEMMA GotoMoves ==
  ASSUME AgentsInv, NEW q \in AgentProcs, NEW step \in CallSteps, Goto(q, step),
         call[q].at # "idle",
         step \in SpawnSteps => call[q].at \in SpawnSteps,
         q # Server /\ step \in OwnSteps =>
           call[q].at \in OwnSteps \/ call[q].attempt \in held'[q],
         q # Server /\ step = "confirm" => session'[call[q].attempt] # "started"
  PROVE  /\ call' \in [AgentProcs -> Call] /\ CallsStep
         /\ call'[q].at = step
<1>1. PICK c \in Call : /\ c.at = step /\ c.attempt = call[q].attempt
                        /\ call' = [call EXCEPT ![q] = c]
  BY GotoIsMove
<1>. QED BY <1>1, CallMoves

LEMMA NoCallIsIdle == NoCall \in Call /\ NoCall.at = "idle"
BY AgentsAssumption DEF NoCall, Call, CallSteps

LEMMA ReturnMoves ==
  ASSUME AgentsInv, NEW q \in AgentProcs, Return(q)
  PROVE  /\ call' \in [AgentProcs -> Call] /\ CallsStep
         /\ call'[q].at = "idle"
<1>1. NoCall \in Call /\ NoCall.at = "idle" /\ call' = [call EXCEPT ![q] = NoCall]
  BY NoCallIsIdle DEF Return
<1>2. \A c \in Call : c.at = "idle" /\ call' = [call EXCEPT ![q] = c]
        => call' \in [AgentProcs -> Call] /\ call'[q] = c /\ CallsStep
  BY CallMoves
<1>. QED BY <1>1, <1>2

LEMMA CallsStay == AgentsInv /\ call' = call => CallsStep /\ call' \in [AgentProcs -> Call]
BY DEF CallsStep, AgentsInv, AgentsTypeOK

LEMMA ClaimsStay ==
  ASSUME AgentsInv, CallsStep, claim' = claim
  PROVE  ClaimsStep
<1>1. \A q \in AgentProcs, a \in Attempts : Spawns(q, a) =>
        claim[a].status \in {"RESERVED", "SPAWNING", "QUARANTINED"}
  BY DEF AgentsInv, Spawners
<1>2. \A a \in Attempts : Used(a)' <=> Used(a)
  BY DEF Used
<1>. QED BY <1>1, <1>2 DEF ClaimsStep

LEMMA SessionsStay ==
  ASSUME AgentsInv, \A a \in Attempts : session'[a] \in {session[a], "none"}
  PROVE  SessionStep
BY DEF SessionStep, AgentsInv, AgentsTypeOK

LEMMA HeldStays ==
  ASSUME AgentsInv, \A m \in Managers : held'[m] \subseteq held[m]
  PROVE  HeldStep
BY DEF HeldStep

LEMMA SweepsStay ==
  ASSUME AgentsInv, \A q \in AgentProcs : orphans'[q] \subseteq orphans[q]
  PROVE  SweepStep
BY DEF SweepStep

LEMMA StoresStay ==
  ASSUME store' \subseteq store \cup disk, disk' \subseteq store \cup disk
  PROVE  StoreStep
BY DEF StoreStep

LEMMA CasFacts ==
  ASSUME AgentsInv, NEW g \in 0..MaxAttempts, NEW from, NEW to \in ClaimStatus, Cas(g, from, to)
  PROVE  /\ claim' \in [Attempts -> [status : ClaimStatus, key : AgentKeys \cup {None}]]
         /\ \A a \in Attempts :
              /\ claim'[a].key = claim[a].key
              /\ claim'[a].status = IF a = g /\ claim[a].status \in from THEN to
                                    ELSE claim[a].status
<1>1. claim \in [Attempts -> [status : ClaimStatus, key : AgentKeys \cup {None}]]
  BY DEF AgentsInv, AgentsTypeOK
<1>2. CASE g # 0 /\ claim[g].status \in from
  <2> DEFINE row == [claim[g] EXCEPT !.status = to]
  <2>1. g \in Attempts
    BY <1>2, AgentsAssumption DEF Attempts
  <2>2. /\ row \in [status : ClaimStatus, key : AgentKeys \cup {None}]
        /\ row.status = to /\ row.key = claim[g].key
    BY <1>1, <2>1
  <2>3. claim' = [claim EXCEPT ![g] = row]
    BY <1>2 DEF Cas
  <2> HIDE DEF row
  <2>. QED BY <1>1, <1>2, <2>1, <2>2, <2>3
<1>3. CASE ~(g # 0 /\ claim[g].status \in from)
  <2>1. claim' = claim
    BY <1>3 DEF Cas
  <2>2. \A a \in Attempts : ~(a = g /\ claim[a].status \in from)
    BY <1>3 DEF Attempts
  <2>. QED BY <1>1, <2>1, <2>2
<1>. QED BY <1>2, <1>3

-----------------------------------------------------------------------------
(* The newest open launch *)

NatBelow == {ss \in Nat \X Nat : ss[1] < ss[2]}

\* A nonempty set of numbers has a smallest.
LEMMA LeastNumber ==
  ASSUME NEW S \in SUBSET Nat, S # {}
  PROVE  \E v \in S : \A w \in S : v <= w
<1>0. IsWellFoundedOn(NatBelow, Nat)
  BY NatLessThanWellFounded, Zenon DEF OpToRel, NatBelow
<1>1. PICK v \in S : \A w \in S : ~(<<w, v>> \in NatBelow)
  BY <1>0, WFMin
<1>2. ASSUME NEW w \in S
      PROVE  v <= w
  <2>1. v \in Nat /\ w \in Nat
    OBVIOUS
  <2>2. w < v => <<w, v>> \in NatBelow
    BY <2>1 DEF NatBelow
  <2>3. ~(w < v)
    BY <1>1, <2>2
  <2>. QED BY <2>1, <2>3
<1>. QED BY <1>2

\* A nonempty set of attempts has a largest.
LEMMA LargestAttempt ==
  ASSUME NEW S \in SUBSET Attempts, S # {}
  PROVE  \E v \in S : \A w \in S : w <= v
<1> DEFINE R == {n \in Nat : \E v \in S : n = MaxAttempts - v}
<1>1. IsWellFoundedOn(NatBelow, Nat)
  BY NatLessThanWellFounded, Zenon DEF OpToRel, NatBelow
<1>2. \A v \in S : v \in Nat /\ MaxAttempts - v \in Nat
  BY AgentsAssumption DEF Attempts
<1>3. R # {} /\ R \in SUBSET Nat
  BY <1>2
<1>4. PICK n \in R : \A m \in R : ~(<<m, n>> \in NatBelow)
  <2>. HIDE DEF R
  <2>. QED BY <1>1, <1>3, WFMin
<1>5. PICK v \in S : n = MaxAttempts - v
  BY <1>4
<1>6. ASSUME NEW w \in S
      PROVE  w <= v
  <2>1. MaxAttempts - w \in R /\ MaxAttempts - w \in Nat /\ n \in Nat
    BY <1>2
  <2>2. ~(MaxAttempts - w < n)
    <3>1. ~(<<MaxAttempts - w, n>> \in NatBelow)
      BY <1>4, <2>1
    <3>. HIDE DEF R
    <3>. QED BY <2>1, <3>1 DEF NatBelow
  <2>. QED BY <1>2, <1>5, <2>2, AgentsAssumption
<1>. QED BY <1>6

LEMMA ActiveIsOfKey ==
  ASSUME NEW k
  PROVE  /\ get_active_launch(k) \in 0..MaxAttempts
         /\ get_active_launch(k) # 0 => claim[get_active_launch(k)].key = k
<1> DEFINE open == {a \in Attempts : /\ claim[a].key = k
                                     /\ claim[a].status \notin {"ABSENT", "TERMINATED", "FAILED"}}
           g == CHOOSE a \in open : \A b \in open : b <= a
<1>1. CASE open = {}
  BY <1>1, AgentsAssumption DEF get_active_launch
<1>2. CASE open # {}
  <2>1. get_active_launch(k) = g
    BY <1>2 DEF get_active_launch
  <2>2. \E a \in open : \A b \in open : b <= a
    <3>1. open \in SUBSET Attempts
      OBVIOUS
    <3>. HIDE DEF open
    <3>. QED BY <1>2, <3>1, LargestAttempt
  <2>3. g \in open
    <3>. HIDE DEF open
    <3>. QED BY <2>2
  <2>. QED BY <2>1, <2>3, AgentsAssumption DEF Attempts
<1>. QED BY <1>1, <1>2

-----------------------------------------------------------------------------
(* The registry's steps *)

LEMMA Processes ==
  /\ Managers \subseteq AgentProcs /\ Server \in AgentProcs /\ Server \notin Managers
  /\ \A q \in AgentProcs : q # Server => q \in Managers
BY AgentsAssumption DEF AgentProcs

LEMMA AttemptOf ==
  ASSUME AgentsInv, NEW q \in AgentProcs, call[q].at # "idle"
  PROVE  /\ call[q].attempt \in Attempts /\ call[q].attempt \in 0..MaxAttempts
         /\ claim[call[q].attempt].key \in OwnKeys(q)
         /\ Claimed(call[q].attempt)
<1>1. call[q].attempt \in Attempts /\ claim[call[q].attempt].key \in OwnKeys(q)
  BY DEF AgentsInv, Calls
<1>2. claim[call[q].attempt].key # None
  BY <1>1, AgentsAssumption DEF OwnKeys
<1>. QED BY <1>1, <1>2 DEF AgentsInv, Known, Claimed, Attempts

LEMMA ConfirmedKeeps ==
  ASSUME AgentsInv, NEW q \in AgentProcs, SpawnConfirmed(q)
  PROVE  AgentsInv'
<1> DEFINE a == call[q].attempt
           step == IF q = Server THEN "api_session" ELSE "session"
<1>1. a \in Attempts /\ a \in 0..MaxAttempts /\ call[q].at = "spawning"
  BY AttemptOf DEF SpawnConfirmed, At
<1>2. step \in CallSteps /\ step \in SpawnSteps /\ step \notin OwnSteps /\ step # "confirm"
  BY DEF CallSteps, SpawnSteps, OwnSteps
<1>3. "spawning" \in SpawnSteps
  BY DEF SpawnSteps
<1>4. Cas(a, {"RESERVED"}, "SPAWNING") /\ Goto(q, step)
      /\ UNCHANGED <<session, held, orphans, sessionVars>>
  BY DEF SpawnConfirmed
<1>5. "SPAWNING" \in ClaimStatus
  BY DEF ClaimStatus
<1>. HIDE DEF step, a
<1>6. call' \in [AgentProcs -> Call] /\ CallsStep
  BY <1>1, <1>2, <1>3, <1>4, GotoMoves
<1>7. /\ claim' \in [Attempts -> [status : ClaimStatus, key : AgentKeys \cup {None}]]
      /\ \A b \in Attempts :
           /\ claim'[b].key = claim[b].key
           /\ claim'[b].status = IF b = a /\ claim[b].status \in {"RESERVED"} THEN "SPAWNING"
                                 ELSE claim[b].status
  BY <1>1, <1>4, <1>5, CasFacts
<1>8. \A b \in Attempts : Used(b)' <=> Used(b)
  BY <1>7 DEF Used, UsedStatuses
<1>9. ClaimsStep
  BY <1>7, <1>8 DEF ClaimsStep, AgentsInv, Spawners
<1>10. SessionStep /\ HeldStep /\ SweepStep /\ StoreStep /\ AgentsTypeOK'
  BY <1>4, <1>6, <1>7, SessionsStay, HeldStays, SweepsStay, StoresStay
  DEF AgentsInv, AgentsTypeOK, sessionVars
<1>. QED BY <1>6, <1>9, <1>10, StepKeeps

LEMMA ActiveKeeps ==
  ASSUME AgentsInv, NEW m \in Managers, SpawnActive(m)
  PROVE  AgentsInv'
<1> DEFINE a == call[m].attempt
<1>0. m \in AgentProcs
  BY Processes
<1>1. /\ a \in Attempts /\ a \in 0..MaxAttempts /\ call[m].at = "active"
      /\ Owns(m, a)
  BY <1>0, AttemptOf DEF SpawnActive, At, Owns, Ends, OwnSteps
<1>2. Cas(a, {"SPAWNING"}, "ACTIVE") /\ UNCHANGED <<session, held, orphans, sessionVars>>
  BY DEF SpawnActive
<1>3. "ACTIVE" \in ClaimStatus
  BY DEF ClaimStatus
<1>4. call' \in [AgentProcs -> Call] /\ CallsStep
  BY <1>0, ReturnMoves DEF SpawnActive
<1>. HIDE DEF a
<1>5. /\ claim' \in [Attempts -> [status : ClaimStatus, key : AgentKeys \cup {None}]]
      /\ \A b \in Attempts :
           /\ claim'[b].key = claim[b].key
           /\ claim'[b].status = IF b = a /\ claim[b].status \in {"SPAWNING"} THEN "ACTIVE"
                                 ELSE claim[b].status
  BY <1>1, <1>2, <1>3, CasFacts
<1>6. \A b \in Attempts : Used(b)' <=> Used(b)
  BY <1>5 DEF Used, UsedStatuses
<1>7. \A r \in AgentProcs : ~Spawns(r, a)
  BY <1>1 DEF AgentsInv, Owners, Covered, Settled
<1>8. ClaimsStep
  BY <1>5, <1>6, <1>7 DEF ClaimsStep, AgentsInv, Spawners
<1>9. SessionStep /\ HeldStep /\ SweepStep /\ StoreStep /\ AgentsTypeOK'
  BY <1>2, <1>4, <1>5, SessionsStay, HeldStays, SweepsStay, StoresStay
  DEF AgentsInv, AgentsTypeOK, sessionVars
<1>. QED BY <1>4, <1>8, <1>9, StepKeeps

\* The server's confirm_active, with and without tmux.
LEMMA ServerConfirms ==
  ASSUME AgentsInv, At(Server, "api_session") \/ At(Server, "api_active"),
         Cas(call[Server].attempt, {"SPAWNING"}, "ACTIVE"), Goto(Server, "api_store"),
         UNCHANGED <<session, held, orphans, sessionVars>>
  PROVE  AgentsInv'
<1>0. PICK a : a = call[Server].attempt
  OBVIOUS
<1>1. /\ Server \in AgentProcs /\ a \in Attempts /\ a \in 0..MaxAttempts
      /\ call[Server].at \in SpawnSteps /\ Spawns(Server, a)
  BY <1>0, Processes, AttemptOf DEF At, SpawnSteps, Spawns
<1>2. "ACTIVE" \in ClaimStatus /\ "api_store" \in CallSteps /\ "api_store" \notin SpawnSteps
  BY DEF ClaimStatus, CallSteps, SpawnSteps
<1>3. call' \in [AgentProcs -> Call] /\ CallsStep /\ call'[Server].at = "api_store"
  <2>1. call[Server].at # "idle" /\ Goto(Server, "api_store")
    BY <1>1 DEF SpawnSteps
  <2>2. \A step \in CallSteps \ SpawnSteps : Goto(Server, step) =>
          call' \in [AgentProcs -> Call] /\ CallsStep /\ call'[Server].at = step
    BY <1>1, <2>1, GotoMoves
  <2>. QED BY <1>2, <2>1, <2>2
<1>4. /\ claim' \in [Attempts -> [status : ClaimStatus, key : AgentKeys \cup {None}]]
      /\ \A b \in Attempts :
           /\ claim'[b].key = claim[b].key
           /\ claim'[b].status = IF b = a /\ claim[b].status \in {"SPAWNING"} THEN "ACTIVE"
                                 ELSE claim[b].status
  <2>1. Cas(a, {"SPAWNING"}, "ACTIVE")
    BY <1>0
  <2>2. \A to \in ClaimStatus : Cas(a, {"SPAWNING"}, to) =>
          /\ claim' \in [Attempts -> [status : ClaimStatus, key : AgentKeys \cup {None}]]
          /\ \A b \in Attempts :
               /\ claim'[b].key = claim[b].key
               /\ claim'[b].status = IF b = a /\ claim[b].status \in {"SPAWNING"} THEN to
                                     ELSE claim[b].status
    BY <1>1, CasFacts
  <2>. QED BY <1>2, <2>1, <2>2
<1>5. \A b \in Attempts : Used(b)' <=> Used(b)
  BY <1>4 DEF Used, UsedStatuses
<1>6. \A r \in AgentProcs : ~Spawns(r, a)'
  <2> SUFFICES ASSUME NEW r \in AgentProcs, Spawns(r, a)'
               PROVE  FALSE
    OBVIOUS
  <2>1. r = Server
    BY <1>1, <1>3, SpawnsBackward DEF AgentsInv, Spawners
  <2>. QED BY <1>2, <1>3, <2>1 DEF Spawns
<1>7. ClaimsStep
  BY <1>4, <1>5, <1>6 DEF ClaimsStep, AgentsInv, Spawners
<1>8. SessionStep /\ HeldStep /\ SweepStep /\ StoreStep /\ AgentsTypeOK'
  BY <1>3, <1>4, SessionsStay, HeldStays, SweepsStay, StoresStay
  DEF AgentsInv, AgentsTypeOK, sessionVars
<1>. QED BY <1>3, <1>7, <1>8, StepKeeps

\* Only a process's own operation moves.
LEMMA CallKeeps ==
  ASSUME AgentsInv, NEW q \in AgentProcs, call[q].at # "idle",
         \/ Return(q)
         \/ q = Server /\ Goto(q, "api_forget")
         \/ q = Server /\ call[q].at \in SpawnSteps /\ Goto(q, "mark_failed"),
         UNCHANGED <<claim, session, held, orphans, sessionVars>>
  PROVE  AgentsInv'
<1>1. /\ {"api_forget", "mark_failed"} \subseteq CallSteps
      /\ "api_forget" \notin SpawnSteps
  BY DEF CallSteps, SpawnSteps
<1>2. CallsStep /\ call' \in [AgentProcs -> Call]
  BY <1>1, GotoMoves, ReturnMoves
<1>3. SessionStep /\ HeldStep /\ SweepStep /\ StoreStep /\ AgentsTypeOK'
  BY <1>2, SessionsStay, HeldStays, SweepsStay, StoresStay DEF AgentsInv, AgentsTypeOK, sessionVars
<1>4. ClaimsStep
  BY <1>2, ClaimsStay
<1>. QED BY <1>2, <1>3, <1>4, StepKeeps

LEMMA RaisesKeeps ==
  ASSUME AgentsInv, NEW q \in AgentProcs, RegistryRaises(q)
  PROVE  AgentsInv'
<1>1. call[q].at # "idle"
  BY DEF RegistryRaises, At
<1>. QED BY <1>1, CallKeeps DEF RegistryRaises

LEMMA ApiActiveKeeps ==
  ASSUME AgentsInv, ApiActive
  PROVE  AgentsInv'
<1>1. Server \in AgentProcs /\ call[Server].at # "idle" /\ call[Server].at \in SpawnSteps
      /\ At(Server, "api_active") /\ UNCHANGED <<session, held, orphans, sessionVars>>
  BY Processes DEF ApiActive, At, SpawnSteps
<1>2. CASE Cas(call[Server].attempt, {"SPAWNING"}, "ACTIVE") /\ Goto(Server, "api_store")
  BY <1>1, <1>2, ServerConfirms
<1>3. CASE Goto(Server, "mark_failed") /\ UNCHANGED claim
  BY <1>1, <1>3, CallKeeps
<1>. QED BY <1>2, <1>3 DEF ApiActive

LEMMA FailedKeeps ==
  ASSUME AgentsInv, NEW q \in AgentProcs, SpawnFailed(q)
  PROVE  AgentsInv'
<1> DEFINE from == {"RESERVED", "SPAWNING", "ACTIVE", "QUARANTINED"}
<1>0. PICK a : a = call[q].attempt
  OBVIOUS
<1>1. a \in Attempts /\ a \in 0..MaxAttempts /\ call[q].at = "mark_failed"
  BY <1>0, AttemptOf DEF SpawnFailed, At
<1>2. Cas(a, from, "FAILED") /\ UNCHANGED <<session, held, orphans, sessionVars>>
  BY <1>0 DEF SpawnFailed
<1>3. "FAILED" \in ClaimStatus /\ "api_store" \in CallSteps
      /\ {"api_store", "idle"} \cap SpawnSteps = {} /\ "api_store" \notin OwnSteps
  BY DEF ClaimStatus, CallSteps, SpawnSteps, OwnSteps
<1>4. call' \in [AgentProcs -> Call] /\ CallsStep /\ call'[q].at \in {"api_store", "idle"}
  BY <1>1, <1>3, ReturnMoves, GotoMoves DEF SpawnFailed
<1>5. Spawns(q, a) /\ ~Settled(a)
  BY <1>0, <1>1 DEF Spawns, SpawnSteps, Settled
<1>6. ASSUME NEW r \in AgentProcs, Spawns(r, a)'
      PROVE  FALSE
  <2>1. Spawns(r, a)
    BY <1>4, <1>6, SpawnsBackward
  <2>2. r = q
    BY <1>1, <1>5, <2>1 DEF AgentsInv, Spawners
  <2>3. call'[q].at \notin SpawnSteps
    BY <1>3, <1>4
  <2>. QED BY <1>6, <2>2, <2>3 DEF Spawns
<1>7. /\ claim' \in [Attempts -> [status : ClaimStatus, key : AgentKeys \cup {None}]]
      /\ \A b \in Attempts :
           /\ claim'[b].key = claim[b].key
           /\ claim'[b].status = IF b = a /\ claim[b].status \in from THEN "FAILED"
                                 ELSE claim[b].status
  BY <1>1, <1>2, <1>3, CasFacts
<1>8. \A b \in Attempts : (Used(b)' => Used(b)) /\ (b # a /\ Used(b) => Used(b)')
  BY <1>7 DEF Used, UsedStatuses
<1>9. ClaimsStep
  <2> SUFFICES ASSUME NEW b \in Attempts
               PROVE  /\ claim'[b].key = claim[b].key
                      /\ claim'[b].status = "ABSENT" <=> claim[b].status = "ABSENT"
                      /\ Used(b)' => Used(b)
                      /\ Settled(b) /\ claim[b].status = "QUARANTINED"
                           => claim'[b].status = "QUARANTINED"
                      /\ (\E r \in AgentProcs : Spawns(r, b) /\ Spawns(r, b)') =>
                           claim'[b].status \in {"RESERVED", "SPAWNING", "QUARANTINED"}
                      /\ Settled(b) /\ Used(b) => Used(b)'
    BY DEF ClaimsStep
  <2>1. \A r \in AgentProcs : Spawns(r, b) =>
          claim[b].status \in {"RESERVED", "SPAWNING", "QUARANTINED"}
    BY DEF AgentsInv, Spawners
  <2>2. CASE b # a
    BY <1>7, <1>8, <2>1, <2>2
  <2>3. CASE b = a
    BY <1>5, <1>6, <1>7, <1>8, <2>3 DEF from
  <2>. QED BY <2>2, <2>3
<1>10. SessionStep /\ HeldStep /\ SweepStep /\ StoreStep /\ AgentsTypeOK'
  BY <1>2, <1>4, <1>7, SessionsStay, HeldStays, SweepsStay, StoresStay
  DEF AgentsInv, AgentsTypeOK, sessionVars
<1>. QED BY <1>4, <1>9, <1>10, StepKeeps

LEMMA BeginsKeeps ==
  ASSUME AgentsInv, NEW q \in AgentProcs, TerminationBegins(q)
  PROVE  AgentsInv'
<1> DEFINE a == call[q].attempt
           g == get_active_launch(claim[a].key)
           step == IF q = Server THEN "confirm" ELSE "terminate"
<1>1. a \in Attempts /\ call[q].at = "begin"
  BY AttemptOf DEF TerminationBegins, At
<1>2. /\ Cas(g, {"ACTIVE"}, "TERMINATING") /\ Goto(q, step)
      /\ UNCHANGED <<session, held, orphans, sessionVars>>
  BY DEF TerminationBegins
<1>3. /\ "TERMINATING" \in ClaimStatus /\ step \in CallSteps /\ step \notin SpawnSteps
      /\ "begin" \in OwnSteps /\ (q # Server => step # "confirm")
  BY DEF ClaimStatus, CallSteps, SpawnSteps, OwnSteps
<1>4. g \in 0..MaxAttempts
  BY ActiveIsOfKey
<1>. HIDE DEF a, g, step
<1>5. call' \in [AgentProcs -> Call] /\ CallsStep
  BY <1>1, <1>2, <1>3, GotoMoves
<1>6. /\ claim' \in [Attempts -> [status : ClaimStatus, key : AgentKeys \cup {None}]]
      /\ \A b \in Attempts :
           /\ claim'[b].key = claim[b].key
           /\ claim'[b].status = IF b = g /\ claim[b].status \in {"ACTIVE"} THEN "TERMINATING"
                                 ELSE claim[b].status
  BY <1>2, <1>3, <1>4, CasFacts
<1>7. \A b \in Attempts : Used(b)' <=> Used(b)
  BY <1>6 DEF Used, UsedStatuses
<1>8. ClaimsStep
  BY <1>6, <1>7 DEF ClaimsStep, AgentsInv, Spawners
<1>9. SessionStep /\ HeldStep /\ SweepStep /\ StoreStep /\ AgentsTypeOK'
  BY <1>2, <1>5, <1>6, SessionsStay, HeldStays, SweepsStay, StoresStay
  DEF AgentsInv, AgentsTypeOK, sessionVars
<1>. QED BY <1>5, <1>8, <1>9, StepKeeps

\* The step the invariant is for: what is terminated is the launch whose
\* session was killed, or a launch of the name is in doubt.
LEMMA TerminatedKeeps ==
  ASSUME AgentsInv, NEW q \in AgentProcs, TerminationConfirmed(q)
  PROVE  AgentsInv'
<1>0. PICK a, g : a = call[q].attempt /\ g = get_active_launch(claim[a].key)
  OBVIOUS
<1>1. a \in Attempts /\ call[q].at = "confirm" /\ claim[a].key \in OwnKeys(q)
  BY <1>0, AttemptOf DEF TerminationConfirmed, At
<1>2. /\ Cas(g, {"TERMINATING"}, "TERMINATED")
      /\ UNCHANGED <<session, orphans, sessionVars>>
      /\ \/ q = Server /\ Goto(q, "api_forget") /\ held' = held
         \/ q # Server /\ Return(q) /\ held' = [held EXCEPT ![q] = @ \ {a}]
  BY <1>0 DEF TerminationConfirmed
<1>3. /\ "TERMINATED" \in ClaimStatus /\ "api_forget" \in CallSteps
      /\ "api_forget" \notin SpawnSteps
  BY DEF ClaimStatus, CallSteps, SpawnSteps
<1>4. g \in 0..MaxAttempts /\ (g # 0 => claim[g].key = claim[a].key) /\ 0 \notin Attempts
  BY <1>0, ActiveIsOfKey DEF Attempts
<1>5. /\ call' \in [AgentProcs -> Call] /\ CallsStep
      /\ q # Server => call'[q].at = "idle"
  BY <1>0, <1>1, <1>2, <1>3, GotoMoves, ReturnMoves
<1>6. /\ held' \in [Managers -> SUBSET Attempts]
      /\ \A m \in Managers : held'[m] \subseteq held[m]
      /\ q # Server => a \notin held'[q]
  <2>1. held \in [Managers -> SUBSET Attempts] /\ (q # Server => q \in Managers)
    BY Processes DEF AgentsInv, AgentsTypeOK
  <2>. QED BY <1>2, <2>1
<1>7. q # Server => Owns(q, a) /\ session[a] # "started"
  BY <1>0, <1>1, Processes DEF Owns, Ends, OwnSteps, AgentsInv, KilledFirst
<1>8. /\ claim' \in [Attempts -> [status : ClaimStatus, key : AgentKeys \cup {None}]]
      /\ \A b \in Attempts :
           /\ claim'[b].key = claim[b].key
           /\ claim'[b].status = IF b = g /\ claim[b].status \in {"TERMINATING"} THEN "TERMINATED"
                                 ELSE claim[b].status
  BY <1>2, <1>3, <1>4, CasFacts
<1>9. HeldStep /\ SessionStep /\ SweepStep /\ StoreStep /\ AgentsTypeOK'
  BY <1>2, <1>5, <1>6, <1>8, SessionsStay, HeldStays, SweepsStay, StoresStay
  DEF AgentsInv, AgentsTypeOK, sessionVars
<1>10. \A b \in Attempts : (Used(b)' => Used(b)) /\ (b # g /\ Used(b) => Used(b)')
  BY <1>8 DEF Used, UsedStatuses
<1>11. ASSUME NEW b \in Attempts, b = g, Used(b), ~Used(b)', Settled(b),
              \/ session'[b] = "started" /\ claim[b].key \in AgentNames
              \/ \E m \in Managers : Owns(m, b)'
       PROVE  InDoubt(claim[b].key)
  <2>1. claim[b].key = claim[a].key
    BY <1>4, <1>11
  <2>2. claim[b].key \in AgentNames
    <3>1. ASSUME NEW m \in Managers, Owns(m, b)'
          PROVE  claim[b].key \in AgentNames
      <4>1. Owns(m, b) \/ Comes(m, b)
        BY <1>5, <1>9, <3>1, OwnsBackward
      <4>2. Owns(m, b)
        BY <1>11, <4>1, Processes DEF Comes, Settled
      <4>3. CASE b \in held[m]
        BY <4>3 DEF AgentsInv, Known
      <4>4. CASE Ends(m, b)
        BY <4>4, AttemptOf, Processes DEF Ends, OwnSteps, OwnKeys
      <4>. QED BY <4>2, <4>3, <4>4 DEF Owns
    <3>. QED BY <1>11, <3>1
  <2>3. q # Server /\ q \in Managers
    BY <1>1, <2>1, <2>2, Processes, AgentsAssumption DEF OwnKeys
  <2>4. b # a
    <3>1. session'[a] # "started"
      BY <1>2, <1>7, <2>3
    <3>2. ~Owns(q, a)'
      BY <1>5, <1>6, <2>3 DEF Owns, Ends, OwnSteps
    <3>3. ASSUME NEW m \in Managers, Owns(m, b)', b = a
          PROVE  FALSE
      <4>1. Owns(m, b) \/ Comes(m, b)
        BY <1>5, <1>9, <3>3, OwnsBackward
      <4>2. Owns(m, b)
        BY <1>11, <4>1, Processes DEF Comes, Settled
      <4>3. Owns(q, b)
        BY <1>7, <2>3, <3>3
      <4>4. m = q
        BY <2>3, <4>2, <4>3 DEF AgentsInv, Owners
      <4>. QED BY <3>2, <3>3, <4>4 DEF Owns, Ends
    <3>. QED BY <1>11, <3>1, <3>3
  <2>5. ~Used(a)
    BY <1>1, <1>11, <2>1, <2>4 DEF AgentsInv, OneUsePerKey
  <2>6. Covered(a)
    BY <1>1, <1>7, <2>3 DEF AgentsInv, Owners
  <2>. QED BY <2>1, <2>5, <2>6 DEF Covered
<1>12. ClaimsStep
  <2> SUFFICES ASSUME NEW b \in Attempts
               PROVE  /\ claim'[b].key = claim[b].key
                      /\ claim'[b].status = "ABSENT" <=> claim[b].status = "ABSENT"
                      /\ Used(b)' => Used(b)
                      /\ Settled(b) /\ claim[b].status = "QUARANTINED"
                           => claim'[b].status = "QUARANTINED"
                      /\ (\E r \in AgentProcs : Spawns(r, b) /\ Spawns(r, b)') =>
                           claim'[b].status \in {"RESERVED", "SPAWNING", "QUARANTINED"}
                      /\ /\ Settled(b) /\ Used(b)
                         /\ \/ session'[b] = "started" /\ claim[b].key \in AgentNames
                            \/ \E m \in Managers : Owns(m, b)'
                         => Used(b)' \/ claim'[b].status = "QUARANTINED" \/ InDoubt(claim[b].key)
    BY DEF ClaimsStep
  <2>1. \A r \in AgentProcs : Spawns(r, b) =>
          claim[b].status \in {"RESERVED", "SPAWNING", "QUARANTINED"}
    BY DEF AgentsInv, Spawners
  <2>2. /\ Settled(b) /\ Used(b)
        /\ \/ session'[b] = "started" /\ claim[b].key \in AgentNames
           \/ \E m \in Managers : Owns(m, b)'
        => Used(b)' \/ InDoubt(claim[b].key)
    BY <1>10, <1>11
  <2>. QED BY <1>8, <1>10, <2>1, <2>2
<1>. QED BY <1>5, <1>9, <1>12, StepKeeps

LEMMA ExpiresKeeps ==
  ASSUME AgentsInv, NEW a \in Attempts, ClaimExpires(a)
  PROVE  AgentsInv'
<1>1. claim \in [Attempts -> [status : ClaimStatus, key : AgentKeys \cup {None}]]
  BY DEF AgentsInv, AgentsTypeOK
<1>2. /\ claim' \in [Attempts -> [status : ClaimStatus, key : AgentKeys \cup {None}]]
      /\ claim'[a].status = "QUARANTINED" /\ claim'[a].key = claim[a].key
      /\ \A b \in Attempts \ {a} : claim'[b] = claim[b]
  <2> DEFINE row == [claim[a] EXCEPT !.status = "QUARANTINED"]
  <2>1. /\ row \in [status : ClaimStatus, key : AgentKeys \cup {None}]
        /\ row.status = "QUARANTINED" /\ row.key = claim[a].key
    BY <1>1 DEF ClaimStatus
  <2>2. claim' = [claim EXCEPT ![a] = row]
    BY DEF ClaimExpires
  <2>. HIDE DEF row
  <2>. QED BY <1>1, <2>1, <2>2
<1>3. claim[a].status \in {"RESERVED", "SPAWNING"}
  BY DEF ClaimExpires
<1>4. UNCHANGED <<session, held, orphans, sessionVars, call>>
  BY DEF ClaimExpires
<1>5. CallsStep /\ call' \in [AgentProcs -> Call]
  BY <1>4, CallsStay
<1>6. \A b \in Attempts : (Used(b)' => Used(b)) /\ (b # a /\ Used(b) => Used(b)')
  BY <1>2, <1>3 DEF Used, UsedStatuses
<1>7. ClaimsStep
  BY <1>2, <1>3, <1>6 DEF ClaimsStep, AgentsInv, Spawners
<1>8. SessionStep /\ HeldStep /\ SweepStep /\ StoreStep /\ AgentsTypeOK'
  BY <1>2, <1>4, <1>5, SessionsStay, HeldStays, SweepsStay, StoresStay
  DEF AgentsInv, AgentsTypeOK, sessionVars
<1>. QED BY <1>5, <1>7, <1>8, StepKeeps

-----------------------------------------------------------------------------
(* The steps that leave the registry alone *)

LEMMA QuietKeeps ==
  ASSUME AgentsInv, AgentsTypeOK', claim' = claim,
         CallsStep, HeldStep, SessionStep, SweepStep, StoreStep
  PROVE  AgentsInv'
BY ClaimsStay, StepKeeps

LEMMA SessionSet ==
  ASSUME AgentsInv, NEW a \in Attempts, NEW x \in SessionStates,
         session' = [session EXCEPT ![a] = x]
  PROVE  /\ session' \in [Attempts -> SessionStates]
         /\ session'[a] = x /\ \A b \in Attempts \ {a} : session'[b] = session[b]
BY DEF AgentsInv, AgentsTypeOK

\* A session is made or goes, and nobody is told of a new one.
LEMMA SessionFalls ==
  ASSUME AgentsInv, NEW a \in Attempts, NEW x \in {"none", "stray", "unkilled", session[a]},
         Claimed(a) \/ x \in {"none", session[a]},
         session' = [session EXCEPT ![a] = x]
  PROVE  session' \in [Attempts -> SessionStates] /\ session'[a] = x /\ SessionStep
<1>1. x \in SessionStates
  BY DEF AgentsInv, AgentsTypeOK, SessionStates
<1>2. /\ session' \in [Attempts -> SessionStates]
      /\ session'[a] = x /\ \A b \in Attempts \ {a} : session'[b] = session[b]
  BY <1>1, SessionSet
<1>. QED BY <1>2 DEF SessionStep

\* The end of a spawn.
LEMMA SessionReported ==
  ASSUME AgentsInv, NEW q \in AgentProcs, NEW a \in Attempts, Comes(q, a),
         session[a] # "none", session' = [session EXCEPT ![a] = "started"]
  PROVE  session' \in [Attempts -> SessionStates] /\ SessionStep
<1>1. /\ session' \in [Attempts -> SessionStates]
      /\ session'[a] = "started" /\ \A b \in Attempts \ {a} : session'[b] = session[b]
  BY SessionSet DEF SessionStates
<1>. QED BY <1>1 DEF SessionStep

LEMMA SpawnSessionKeeps ==
  ASSUME AgentsInv, NEW m \in Managers, SpawnSession(m)
  PROVE  AgentsInv'
<1>0. PICK a : a = call[m].attempt
  OBVIOUS
<1>1. /\ m \in AgentProcs /\ a \in Attempts /\ Claimed(a) /\ call[m].at = "session"
  BY <1>0, Processes, AttemptOf DEF SpawnSession, At
<1>2. /\ \E left \in {"none", "stray"} : session' = [session EXCEPT ![a] = left]
      /\ \E step \in {"wait", "mark_failed"} : Goto(m, step)
      /\ UNCHANGED <<claim, held, orphans, sessionVars>>
  BY <1>0 DEF SpawnSession
<1>3. /\ \A step \in {"wait", "mark_failed"} :
           step \in CallSteps /\ step \in SpawnSteps /\ step \notin OwnSteps /\ step # "confirm"
      /\ "session" \in SpawnSteps
  BY DEF CallSteps, SpawnSteps, OwnSteps
<1>4. CallsStep /\ call' \in [AgentProcs -> Call]
  BY <1>1, <1>2, <1>3, GotoMoves
<1>5. SessionStep /\ session' \in [Attempts -> SessionStates]
  BY <1>1, <1>2, SessionFalls
<1>6. HeldStep /\ SweepStep /\ StoreStep /\ AgentsTypeOK'
  BY <1>2, <1>4, <1>5, HeldStays, SweepsStay, StoresStay DEF AgentsInv, AgentsTypeOK, sessionVars
<1>. QED BY <1>2, <1>4, <1>5, <1>6, QuietKeeps

LEMMA SpawnWaitKeeps ==
  ASSUME AgentsInv, NEW m \in Managers, SpawnWait(m)
  PROVE  AgentsInv'
<1>0. PICK a : a = call[m].attempt
  OBVIOUS
<1>1. /\ m \in AgentProcs /\ m # Server /\ a \in Attempts /\ Claimed(a) /\ call[m].at = "wait"
  BY <1>0, Processes, AttemptOf DEF SpawnWait, At
<1>2. UNCHANGED <<claim, orphans, sessionVars>>
  BY DEF SpawnWait
<1>3. /\ {"active", "mark_failed"} \subseteq CallSteps /\ "active" \notin SpawnSteps
      /\ "wait" \in SpawnSteps /\ "mark_failed" \in SpawnSteps
      /\ "mark_failed" \notin OwnSteps
  BY DEF CallSteps, SpawnSteps, OwnSteps
<1>4. CASE /\ session[a] # "none"
           /\ session' = [session EXCEPT ![a] = "started"]
           /\ held' = [held EXCEPT ![m] = @ \cup {a}]
           /\ Goto(m, "active")
  <2>1. /\ held' \in [Managers -> SUBSET Attempts]
        /\ held'[m] = held[m] \cup {a} /\ \A n \in Managers \ {m} : held'[n] = held[n]
    BY <1>1, <1>4 DEF AgentsInv, AgentsTypeOK
  <2>2. CallsStep /\ call' \in [AgentProcs -> Call] /\ call'[m].at = "active"
    BY <1>0, <1>1, <1>3, <1>4, <2>1, GotoMoves
  <2>3. Comes(m, a)
    BY <1>0, <1>1, <1>2, <1>3, <2>2 DEF Comes, Spawns
  <2>4. HeldStep
    BY <1>1, <2>1, <2>3 DEF HeldStep
  <2>5. SessionStep /\ session' \in [Attempts -> SessionStates]
    BY <1>1, <1>4, <2>3, SessionReported
  <2>6. SweepStep /\ StoreStep /\ AgentsTypeOK'
    BY <1>2, <2>1, <2>2, <2>5, SweepsStay, StoresStay DEF AgentsInv, AgentsTypeOK, sessionVars
  <2>. QED BY <1>2, <2>2, <2>4, <2>5, <2>6, QuietKeeps
<1>5. CASE /\ \E left \in {"none", session[a]} : session' = [session EXCEPT ![a] = left]
           /\ Goto(m, "mark_failed") /\ UNCHANGED held
  <2>1. CallsStep /\ call' \in [AgentProcs -> Call]
    BY <1>1, <1>3, <1>5, GotoMoves
  <2>2. SessionStep /\ session' \in [Attempts -> SessionStates]
    BY <1>1, <1>5, SessionFalls
  <2>3. HeldStep /\ SweepStep /\ StoreStep /\ AgentsTypeOK'
    BY <1>2, <1>5, <2>1, <2>2, HeldStays, SweepsStay, StoresStay
    DEF AgentsInv, AgentsTypeOK, sessionVars
  <2>. QED BY <1>2, <2>1, <2>2, <2>3, QuietKeeps
<1>6. \/ /\ session[a] # "none"
         /\ session' = [session EXCEPT ![a] = "started"]
         /\ held' = [held EXCEPT ![m] = @ \cup {a}]
         /\ Goto(m, "active")
      \/ /\ \E left \in {"none", session[a]} : session' = [session EXCEPT ![a] = left]
         /\ Goto(m, "mark_failed") /\ UNCHANGED held
  BY <1>0 DEF SpawnWait
<1>. QED BY <1>4, <1>5, <1>6

LEMMA TerminateKeeps ==
  ASSUME AgentsInv, NEW m \in Managers, Terminate(m)
  PROVE  AgentsInv'
<1>0. PICK a : a = call[m].attempt
  OBVIOUS
<1>1. /\ m \in AgentProcs /\ a \in Attempts /\ Claimed(a) /\ call[m].at = "terminate"
  BY <1>0, Processes, AttemptOf DEF Terminate, At
<1>2. UNCHANGED <<claim, held, orphans, sessionVars>>
  BY DEF Terminate
<1>3. "confirm" \in CallSteps /\ "confirm" \notin SpawnSteps /\ "terminate" \in OwnSteps
  BY DEF CallSteps, SpawnSteps, OwnSteps
<1>4. CallsStep /\ call' \in [AgentProcs -> Call] /\ SessionStep
      /\ session' \in [Attempts -> SessionStates]
  <2>1. ASSUME NEW x \in {"none", "unkilled", session[a]}, x # "started",
               session' = [session EXCEPT ![a] = x], Goto(m, "confirm")
        PROVE  /\ CallsStep /\ call' \in [AgentProcs -> Call] /\ SessionStep
               /\ session' \in [Attempts -> SessionStates]
    <3>1. SessionStep /\ session' \in [Attempts -> SessionStates] /\ session'[a] = x
      BY <1>1, <2>1, SessionFalls
    <3>. QED BY <1>0, <1>1, <1>3, <2>1, <3>1, GotoMoves
  <2>2. CASE Return(m) /\ UNCHANGED session
    <3>1. SessionStep /\ session' \in [Attempts -> SessionStates]
      BY <2>2, SessionsStay DEF AgentsInv, AgentsTypeOK
    <3>. QED BY <1>1, <2>2, <3>1, ReturnMoves
  <2>3. CASE session' = [session EXCEPT ![a] = IF @ = "started" THEN "unkilled" ELSE @]
             /\ Goto(m, "confirm")
    <3>1. PICK x : x = IF session[a] = "started" THEN "unkilled" ELSE session[a]
      OBVIOUS
    <3>. QED BY <2>1, <2>3, <3>1
  <2>4. \/ session' = [session EXCEPT ![a] = "none"] /\ Goto(m, "confirm")
        \/ session' = [session EXCEPT ![a] = IF @ = "started" THEN "unkilled" ELSE @]
           /\ Goto(m, "confirm")
        \/ Return(m) /\ UNCHANGED session
    BY <1>0 DEF Terminate
  <2>. QED BY <2>1, <2>2, <2>3, <2>4
<1>5. HeldStep /\ SweepStep /\ StoreStep /\ AgentsTypeOK'
  BY <1>2, <1>4, HeldStays, SweepsStay, StoresStay DEF AgentsInv, AgentsTypeOK, sessionVars
<1>. QED BY <1>2, <1>4, <1>5, QuietKeeps

LEMMA TerminateAgentKeeps ==
  ASSUME AgentsInv, NEW m \in Managers, NEW a \in Attempts, terminate_agent(m, a)
  PROVE  AgentsInv'
<1> DEFINE c == [at |-> "begin", attempt |-> a]
<1>1. c \in Call /\ c.at = "begin" /\ c.attempt = a
  BY DEF Call, CallSteps, Attempts
<1>2. /\ call' = [call EXCEPT ![m] = c] /\ a \in held[m]
      /\ UNCHANGED <<claim, session, held, orphans, sessionVars>>
  BY DEF terminate_agent
<1>. HIDE DEF c
<1>3. CallsStep /\ call' \in [AgentProcs -> Call]
  BY <1>1, <1>2, Processes, CallMoves
<1>4. SessionStep /\ HeldStep /\ SweepStep /\ StoreStep /\ AgentsTypeOK'
  BY <1>2, <1>3, SessionsStay, HeldStays, SweepsStay, StoresStay
  DEF AgentsInv, AgentsTypeOK, sessionVars
<1>. QED BY <1>2, <1>3, <1>4, QuietKeeps

LEMMA ReconcileKeeps ==
  ASSUME AgentsInv, NEW q \in AgentProcs, reconcile_sessions(q)
  PROVE  AgentsInv'
<1>1. /\ UNCHANGED <<claim, session, held, sessionVars, call>>
      /\ call'[q].at = "idle"
  BY DEF reconcile_sessions, Unlocked, At
<1>2. /\ orphans' \in [AgentProcs -> SUBSET Attempts]
      /\ orphans'[q] = {a \in Attempts : session[a] # "none"} \ Registered(q)
      /\ \A r \in AgentProcs \ {q} : orphans'[r] = orphans[r]
  BY DEF reconcile_sessions, AgentsInv, AgentsTypeOK
<1>3. SweepStep
  BY <1>1, <1>2 DEF SweepStep, Registered
<1>4. CallsStep /\ SessionStep /\ HeldStep /\ StoreStep /\ AgentsTypeOK'
  BY <1>1, <1>2, CallsStay, SessionsStay, HeldStays, StoresStay
  DEF AgentsInv, AgentsTypeOK, sessionVars
<1>. QED BY <1>1, <1>3, <1>4, QuietKeeps

LEMMA CleanupKeeps ==
  ASSUME AgentsInv, NEW q \in AgentProcs, NEW a \in Attempts, cleanup_orphan(q, a)
  PROVE  AgentsInv'
<1>1. UNCHANGED <<claim, held, sessionVars, call>>
  BY DEF cleanup_orphan
<1>2. /\ orphans' \in [AgentProcs -> SUBSET Attempts]
      /\ \A r \in AgentProcs : orphans'[r] \subseteq orphans[r]
  BY DEF cleanup_orphan, AgentsInv, AgentsTypeOK
<1>3. SessionStep /\ session' \in [Attempts -> SessionStates]
  <2>1. CASE session' = [session EXCEPT ![a] = "none"]
    BY <2>1, SessionFalls
  <2>2. CASE session' = session
    BY <2>2, SessionsStay DEF AgentsInv, AgentsTypeOK
  <2>. QED BY <2>1, <2>2 DEF cleanup_orphan
<1>4. CallsStep /\ HeldStep /\ SweepStep /\ StoreStep /\ AgentsTypeOK'
  BY <1>1, <1>2, <1>3, CallsStay, SweepsStay, HeldStays, StoresStay
  DEF AgentsInv, AgentsTypeOK, sessionVars
<1>. QED BY <1>1, <1>3, <1>4, QuietKeeps

LEMMA ManagerDiesKeeps ==
  ASSUME AgentsInv, NEW m \in Managers, ManagerDies(m)
  PROVE  AgentsInv'
<1>1. UNCHANGED <<claim, session, sessionVars>> /\ Return(m) /\ m \in AgentProcs
  BY Processes DEF ManagerDies
<1>2. /\ orphans' \in [AgentProcs -> SUBSET Attempts]
      /\ \A r \in AgentProcs : orphans'[r] \subseteq orphans[r]
      /\ held' \in [Managers -> SUBSET Attempts]
      /\ \A n \in Managers : held'[n] \subseteq held[n]
  BY <1>1 DEF ManagerDies, AgentsInv, AgentsTypeOK
<1>3. CallsStep /\ call' \in [AgentProcs -> Call]
  BY <1>1, ReturnMoves
<1>4. SessionStep /\ HeldStep /\ SweepStep /\ StoreStep /\ AgentsTypeOK'
  BY <1>1, <1>2, <1>3, SessionsStay, SweepsStay, HeldStays, StoresStay
  DEF AgentsInv, AgentsTypeOK, sessionVars
<1>. QED BY <1>1, <1>3, <1>4, QuietKeeps

LEMMA SessionEndsKeeps ==
  ASSUME AgentsInv, NEW a \in Attempts, SessionEnds(a)
  PROVE  AgentsInv'
<1>1. /\ UNCHANGED <<claim, held, orphans, sessionVars, call>>
      /\ session' = [session EXCEPT ![a] = "none"]
  BY DEF SessionEnds
<1>2. SessionStep /\ session' \in [Attempts -> SessionStates]
  BY <1>1, SessionFalls
<1>3. CallsStep /\ HeldStep /\ SweepStep /\ StoreStep /\ AgentsTypeOK'
  BY <1>1, <1>2, CallsStay, SweepsStay, HeldStays, StoresStay
  DEF AgentsInv, AgentsTypeOK, sessionVars
<1>. QED BY <1>1, <1>2, <1>3, QuietKeeps

-----------------------------------------------------------------------------
(* The steps of the server *)

LEMMA StartupKeeps ==
  ASSUME AgentsInv, startup
  PROVE  AgentsInv'
<1>1. UNCHANGED <<claim, session, held, disk, call>> /\ store' = store \cup disk
      /\ server' = "sweeping"
  BY DEF startup, restore_sessions
<1>2. /\ orphans' \in [AgentProcs -> SUBSET Attempts]
      /\ orphans'[Server] = {a \in Attempts : session[a] # "none"}
      /\ \A r \in AgentProcs \ {Server} : orphans'[r] = orphans[r]
  BY Processes DEF startup, AgentsInv, AgentsTypeOK
<1>3. SweepStep
  BY <1>1, <1>2 DEF SweepStep
<1>4. CallsStep /\ SessionStep /\ HeldStep /\ StoreStep /\ AgentsTypeOK'
  BY <1>1, <1>2, CallsStay, SessionsStay, HeldStays, StoresStay DEF AgentsInv, AgentsTypeOK
<1>. QED BY <1>1, <1>3, <1>4, QuietKeeps

LEMMA StartupDoneKeeps ==
  ASSUME AgentsInv, StartupDone
  PROVE  AgentsInv'
<1>1. UNCHANGED <<claim, session, held, orphans, store, disk, call>> /\ server' = "up"
  BY DEF StartupDone
<1>2. CallsStep /\ SessionStep /\ HeldStep /\ SweepStep /\ StoreStep /\ AgentsTypeOK'
  BY <1>1, CallsStay, SessionsStay, HeldStays, SweepsStay, StoresStay DEF AgentsInv, AgentsTypeOK
<1>. QED BY <1>1, <1>2, QuietKeeps

LEMMA ServerDiesKeeps ==
  ASSUME AgentsInv, ServerDies
  PROVE  AgentsInv'
<1>1. /\ UNCHANGED <<claim, session, held, disk>> /\ Return(Server) /\ Server \in AgentProcs
      /\ store' = {} /\ server' = "down"
  BY Processes DEF ServerDies
<1>2. /\ orphans' \in [AgentProcs -> SUBSET Attempts]
      /\ \A r \in AgentProcs : orphans'[r] \subseteq orphans[r]
  BY DEF ServerDies, AgentsInv, AgentsTypeOK
<1>3. CallsStep /\ call' \in [AgentProcs -> Call]
  BY <1>1, ReturnMoves
<1>4. SessionStep /\ HeldStep /\ SweepStep /\ StoreStep /\ AgentsTypeOK'
  BY <1>1, <1>2, <1>3, SessionsStay, HeldStays, SweepsStay, StoresStay
  DEF AgentsInv, AgentsTypeOK
<1>. QED BY <1>1, <1>3, <1>4, QuietKeeps

LEMMA ApiSessionKeeps ==
  ASSUME AgentsInv, ApiSession
  PROVE  AgentsInv'
<1>0. PICK a : a = call[Server].attempt
  OBVIOUS
<1>1. /\ Server \in AgentProcs /\ a \in Attempts /\ Claimed(a)
      /\ call[Server].at = "api_session" /\ "api_session" \in SpawnSteps
  BY <1>0, Processes, AttemptOf DEF ApiSession, At, SpawnSteps
<1>2. UNCHANGED <<held, orphans, sessionVars>> /\ call[Server].at # "idle"
  BY <1>1 DEF ApiSession
<1>3. {"api_launch", "api_store"} \subseteq CallSteps
  BY DEF CallSteps
<1>4. ASSUME NEW left \in {"none", "stray"}, session' = [session EXCEPT ![a] = left],
             Goto(Server, "api_launch") \/ Goto(Server, "api_store"), UNCHANGED claim
      PROVE  AgentsInv'
  <2>1. CallsStep /\ call' \in [AgentProcs -> Call]
    BY <1>1, <1>2, <1>3, <1>4, GotoMoves
  <2>2. SessionStep /\ session' \in [Attempts -> SessionStates]
    BY <1>1, <1>4, SessionFalls
  <2>3. HeldStep /\ SweepStep /\ StoreStep /\ AgentsTypeOK'
    BY <1>2, <1>4, <2>1, <2>2, HeldStays, SweepsStay, StoresStay
    DEF AgentsInv, AgentsTypeOK, sessionVars
  <2>. QED BY <1>4, <2>1, <2>2, <2>3, QuietKeeps
<1>5. CASE Goto(Server, "mark_failed") /\ UNCHANGED <<claim, session>>
  BY <1>1, <1>2, <1>5, CallKeeps
<1>6. CASE Cas(a, {"SPAWNING"}, "ACTIVE") /\ Goto(Server, "api_store") /\ UNCHANGED session
  BY <1>0, <1>2, <1>6, ServerConfirms DEF ApiSession
<1>7. CASE Return(Server) /\ UNCHANGED <<claim, session>>
  BY <1>1, <1>2, <1>7, CallKeeps
<1>8. \/ /\ \E left \in {"none", "stray"} : session' = [session EXCEPT ![a] = left]
         /\ Goto(Server, "api_launch") \/ Goto(Server, "api_store")
         /\ UNCHANGED claim
      \/ Goto(Server, "mark_failed") /\ UNCHANGED <<claim, session>>
      \/ Cas(a, {"SPAWNING"}, "ACTIVE") /\ Goto(Server, "api_store") /\ UNCHANGED session
      \/ Return(Server) /\ UNCHANGED <<claim, session>>
  BY <1>0 DEF ApiSession
<1>. QED BY <1>4, <1>5, <1>6, <1>7, <1>8

LEMMA ApiLaunchKeeps ==
  ASSUME AgentsInv, ApiLaunch
  PROVE  AgentsInv'
<1>0. PICK a : a = call[Server].attempt
  OBVIOUS
<1>1. /\ Server \in AgentProcs /\ a \in Attempts /\ call[Server].at = "api_launch"
      /\ "api_launch" \in SpawnSteps /\ claim[a].key \notin AgentNames
  BY <1>0, Processes, AttemptOf, AgentsAssumption DEF ApiLaunch, At, SpawnSteps, OwnKeys
<1>2. UNCHANGED <<claim, held, orphans, sessionVars>>
  BY DEF ApiLaunch
<1>3. {"api_active", "mark_failed"} \subseteq CallSteps
  BY DEF CallSteps
<1>4. \E step \in {"api_active", "mark_failed"} : Goto(Server, step)
  BY DEF ApiLaunch
<1>5. CallsStep /\ call' \in [AgentProcs -> Call]
  BY <1>1, <1>3, <1>4, GotoMoves
<1>6. SessionStep /\ session' \in [Attempts -> SessionStates]
  <2>1. CASE session[a] # "none" /\ session' = [session EXCEPT ![a] = "started"]
    <3>1. /\ session' \in [Attempts -> SessionStates]
          /\ session'[a] = "started" /\ \A b \in Attempts \ {a} : session'[b] = session[b]
      BY <1>1, <2>1, SessionSet DEF SessionStates
    <3>. QED BY <1>1, <2>1, <3>1 DEF SessionStep
  <2>2. CASE session' = session
    BY <2>2, SessionsStay DEF AgentsInv, AgentsTypeOK
  <2>. QED BY <1>0, <2>1, <2>2 DEF ApiLaunch
<1>7. HeldStep /\ SweepStep /\ StoreStep /\ AgentsTypeOK'
  BY <1>2, <1>5, <1>6, HeldStays, SweepsStay, StoresStay DEF AgentsInv, AgentsTypeOK, sessionVars
<1>. QED BY <1>2, <1>5, <1>6, <1>7, QuietKeeps

LEMMA DeleteKeeps ==
  ASSUME AgentsInv, NEW a \in Attempts, delete_session(a)
  PROVE  AgentsInv'
<1> DEFINE c == [at |-> "api_kill", attempt |-> a]
<1>1. c \in Call /\ c.at = "api_kill" /\ c.attempt = a
  BY DEF Call, CallSteps, Attempts
<1>2. /\ call' = [call EXCEPT ![Server] = c] /\ a \in store \cup disk
      /\ UNCHANGED <<claim, session, held, orphans, sessionVars>>
  BY DEF delete_session
<1>. HIDE DEF c
<1>3. CallsStep /\ call' \in [AgentProcs -> Call]
  BY <1>1, <1>2, Processes, CallMoves
<1>4. SessionStep /\ HeldStep /\ SweepStep /\ StoreStep /\ AgentsTypeOK'
  BY <1>2, <1>3, SessionsStay, HeldStays, SweepsStay, StoresStay
  DEF AgentsInv, AgentsTypeOK, sessionVars
<1>. QED BY <1>2, <1>3, <1>4, QuietKeeps

LEMMA ApiKillKeeps ==
  ASSUME AgentsInv, ApiKill
  PROVE  AgentsInv'
<1>0. PICK a : a = call[Server].attempt
  OBVIOUS
<1>1. Server \in AgentProcs /\ a \in Attempts /\ call[Server].at = "api_kill"
  BY <1>0, Processes, AttemptOf DEF ApiKill, At
<1>2. UNCHANGED <<claim, held, orphans, sessionVars>> /\ Goto(Server, "begin")
  BY DEF ApiKill
<1>3. "begin" \in CallSteps /\ "begin" \notin SpawnSteps
  BY DEF CallSteps, SpawnSteps
<1>4. CallsStep /\ call' \in [AgentProcs -> Call]
  BY <1>1, <1>2, <1>3, GotoMoves
<1>5. SessionStep /\ session' \in [Attempts -> SessionStates]
  <2>1. CASE session' = [session EXCEPT ![a] = "none"]
    BY <1>1, <2>1, SessionFalls
  <2>2. CASE session' = session
    BY <2>2, SessionsStay DEF AgentsInv, AgentsTypeOK
  <2>. QED BY <1>0, <2>1, <2>2 DEF ApiKill
<1>6. HeldStep /\ SweepStep /\ StoreStep /\ AgentsTypeOK'
  BY <1>2, <1>4, <1>5, HeldStays, SweepsStay, StoresStay DEF AgentsInv, AgentsTypeOK, sessionVars
<1>. QED BY <1>2, <1>4, <1>5, <1>6, QuietKeeps

\* ApiStore and ApiForget.
LEMMA StoreKeeps ==
  ASSUME AgentsInv, ApiStore \/ ApiForget
  PROVE  AgentsInv'
<1>1. Server \in AgentProcs /\ call[Server].at # "idle" /\ call[Server].attempt \in Attempts
  BY Processes, AttemptOf DEF ApiStore, ApiForget, At
<1>2. /\ UNCHANGED <<claim, session, held, orphans, server>> /\ Return(Server)
      /\ store' \subseteq store \cup {call[Server].attempt}
      /\ disk' \subseteq disk \cup {call[Server].attempt}
  BY DEF ApiStore, ApiForget
<1>3. CallsStep /\ call' \in [AgentProcs -> Call]
  BY <1>1, <1>2, ReturnMoves
<1>4. StoreStep
  BY <1>1, <1>2 DEF StoreStep
<1>5. SessionStep /\ HeldStep /\ SweepStep /\ AgentsTypeOK'
  BY <1>1, <1>2, <1>3, SessionsStay, HeldStays, SweepsStay DEF AgentsInv, AgentsTypeOK
<1>. QED BY <1>2, <1>3, <1>4, <1>5, QuietKeeps

-----------------------------------------------------------------------------
(* The theorems *)

LEMMA AgentsInitKeeps == AgentsInit => AgentsInv
<1> SUFFICES ASSUME AgentsInit PROVE AgentsInv
  OBVIOUS
<1>1. AgentsTypeOK
  BY NoCallIsIdle DEF AgentsInit, AgentsTypeOK, ClaimStatus, SessionStates
<1>2. /\ \A q \in AgentProcs : call[q].at = "idle"
      /\ \A a \in Attempts : claim[a].status = "ABSENT" /\ claim[a].key = None
      /\ \A a \in Attempts : session[a] = "none"
      /\ \A m \in Managers : held[m] = {}
      /\ \A q \in AgentProcs : orphans[q] = {}
      /\ store = {} /\ disk = {}
  BY NoCallIsIdle DEF AgentsInit
<1>3. \A q \in AgentProcs, a \in Attempts : ~Spawns(q, a) /\ ~Ends(q, a) /\ ~Used(a)
  BY <1>2 DEF Spawns, Ends, SpawnSteps, OwnSteps, Used, UsedStatuses
<1>4. Calls /\ Spawners /\ Known /\ OneUsePerKey
  BY <1>2, <1>3, Processes DEF Calls, Spawners, Known, OneUsePerKey, Claimed
<1>5. Owners /\ Started /\ KilledFirst /\ SweepSparesHeld
  BY <1>2, <1>3, Processes DEF Owners, Owns, Started, KilledFirst, SweepSparesHeld
<1>. QED BY <1>1, <1>4, <1>5 DEF AgentsInv

LEMMA ManagingKeeps ==
  ASSUME AgentsInv, NEW m \in Managers, Managing(m)
  PROVE  AgentsInv'
<1>1. ASSUME NEW n \in AgentNames, spawn_agent(m, n)
      PROVE  AgentsInv'
  <2>1. n \in OwnKeys(m) /\ m \in AgentProcs /\ At(m, "idle") /\ Claim(m, n)
        /\ UNCHANGED <<session, held, orphans, sessionVars>>
    BY <1>1, Processes DEF OwnKeys, spawn_agent, Unlocked
  <2>. QED BY <2>1, ClaimKeeps
<1>2. ASSUME NEW a \in Attempts, terminate_agent(m, a)
      PROVE  AgentsInv'
  BY <1>2, TerminateAgentKeeps
<1>3. SpawnSession(m) => AgentsInv'
  BY SpawnSessionKeeps
<1>4. SpawnWait(m) => AgentsInv'
  BY SpawnWaitKeeps
<1>5. SpawnActive(m) => AgentsInv'
  BY ActiveKeeps
<1>6. Terminate(m) => AgentsInv'
  BY TerminateKeeps
<1>7. reconcile_sessions(m) => AgentsInv'
  BY Processes, ReconcileKeeps
<1>8. ManagerDies(m) => AgentsInv'
  BY ManagerDiesKeeps
<1>. QED BY <1>1, <1>2, <1>3, <1>4, <1>5, <1>6, <1>7, <1>8 DEF Managing

LEMMA SharedKeeps ==
  ASSUME AgentsInv, NEW q \in AgentProcs, Shared(q)
  PROVE  AgentsInv'
<1>1. SpawnConfirmed(q) => AgentsInv'
  BY ConfirmedKeeps
<1>2. SpawnFailed(q) => AgentsInv'
  BY FailedKeeps
<1>3. TerminationBegins(q) => AgentsInv'
  BY BeginsKeeps
<1>4. TerminationConfirmed(q) => AgentsInv'
  BY TerminatedKeeps
<1>5. RegistryRaises(q) => AgentsInv'
  BY RaisesKeeps
<1>6. \A a \in Attempts : cleanup_orphan(q, a) => AgentsInv'
  BY CleanupKeeps
<1>. QED BY <1>1, <1>2, <1>3, <1>4, <1>5, <1>6 DEF Shared

LEMMA ServingKeeps ==
  ASSUME AgentsInv, Serving
  PROVE  AgentsInv'
<1>1. ASSUME NEW t \in ApiTasks, create_session(t)
      PROVE  AgentsInv'
  <2>1. t \in OwnKeys(Server) /\ Server \in AgentProcs /\ At(Server, "idle") /\ Claim(Server, t)
        /\ UNCHANGED <<session, held, orphans, sessionVars>>
    BY <1>1, Processes DEF OwnKeys, create_session
  <2>. QED BY <2>1, ClaimKeeps
<1>2. \A a \in Attempts : delete_session(a) => AgentsInv'
  BY DeleteKeeps
<1>3. startup \/ StartupDone \/ ServerDies => AgentsInv'
  BY StartupKeeps, StartupDoneKeeps, ServerDiesKeeps
<1>4. ApiSession \/ ApiLaunch \/ ApiStore \/ ApiKill \/ ApiForget => AgentsInv'
  BY ApiSessionKeeps, ApiLaunchKeeps, StoreKeeps, ApiKillKeeps
<1>5. ApiActive => AgentsInv'
  BY ApiActiveKeeps
<1>. QED BY <1>1, <1>2, <1>3, <1>4, <1>5 DEF Serving

LEMMA AgentsStepKeeps == AgentsInv /\ [AgentsNext]_agentVars => AgentsInv'
<1> SUFFICES ASSUME AgentsInv, [AgentsNext]_agentVars PROVE AgentsInv'
  OBVIOUS
<1>1. \A m \in Managers : Managing(m) => AgentsInv'
  BY ManagingKeeps
<1>2. \A q \in AgentProcs : Shared(q) => AgentsInv'
  BY SharedKeeps
<1>3. Serving => AgentsInv'
  BY ServingKeeps
<1>4. \A a \in Attempts : ClaimExpires(a) \/ SessionEnds(a) => AgentsInv'
  BY ExpiresKeeps, SessionEndsKeeps
<1>5. CASE UNCHANGED agentVars
  <2>1. UNCHANGED <<claim, session, held, orphans, server, store, disk, call>>
    BY <1>5 DEF agentVars, sessionVars
  <2>2. CallsStep /\ SessionStep /\ HeldStep /\ SweepStep /\ StoreStep /\ AgentsTypeOK'
    BY <2>1, CallsStay, SessionsStay, HeldStays, SweepsStay, StoresStay
    DEF AgentsInv, AgentsTypeOK
  <2>. QED BY <2>1, <2>2, QuietKeeps
<1>. QED BY <1>1, <1>2, <1>3, <1>4, <1>5 DEF AgentsNext

LEMMA AgentsInvariant == AgentsSpec => []AgentsInv
BY AgentsInitKeeps, AgentsStepKeeps, PTL DEF AgentsSpec

\* Two sessions that spawn_agent reported for one name are alive together
\* only when a launch of that name was quarantined or terminate_agent failed to
\* kill one, however many managers and API requests spawn, terminate, sweep,
\* meet errors of the registry and die: the registry's key does what the check
\* for duplicates in one process cannot.
THEOREM ManagedAgentsAreOne == AgentsSpec => []OneManagedAgent
<1>1. AgentsInv => OneManagedAgent
  <2> SUFFICES ASSUME AgentsInv, NEW a \in Attempts, NEW b \in Attempts, Twins(a, b),
                      "unkilled" \notin {session[a], session[b]}
               PROVE  \E c \in Attempts :
                        claim[c].key = claim[a].key /\ claim[c].status = "QUARANTINED"
    BY DEF OneManagedAgent
  <2>1. /\ a # b /\ claim[a].key = claim[b].key
        /\ Covered(a) /\ Covered(b)
    BY DEF AgentsInv, Started, Twins
  <2>2. ~(Used(a) /\ Used(b))
    BY <2>1 DEF AgentsInv, OneUsePerKey
  <2>. QED BY <2>1, <2>2 DEF Covered, InDoubt
<1>. QED BY <1>1, AgentsInvariant, PTL

\* A running cleanup_orphans never has a session on its list that its own
\* manager has registered, although it kills without the lock.
THEOREM SweepsSpareHeld == AgentsSpec => []SweepSparesHeld
<1>1. AgentsInv => SweepSparesHeld
  BY DEF AgentsInv
<1>. QED BY <1>1, AgentsInvariant, PTL

-----------------------------------------------------------------------------
(*****************************************************************************)
(* Workflow.  Two agents that execute started for one task are never both    *)
(* running unless the lease of one ran out or its confirm_active raised, and *)
(* no step that was not forced loses a commit, for every number of shells,   *)
(* tasks, launches, worktrees and commits.                                   *)
(*                                                                           *)
(* A started agent keeps its launch in use or in quarantine: mark_failed     *)
(* follows only a launch_agent that returned False or a confirm_active that  *)
(* raised, which marks the agent, and one shell alone works on a launch.  git branch -d loses nothing because what the root has *)
(* checked out is a branch without a worktree, and such a branch is never    *)
(* deleted.                                                                  *)
(*****************************************************************************)

-----------------------------------------------------------------------------
(* The inductive invariant *)

\* The steps of execute_task that its launch takes part in.
LaunchSteps == {"spawning", "session", "agent", "active", "mark_failed"}

\* The steps of a merge or a removal, which have a worktree's name.
GitSteps == {"merge", "checkout", "merge_root", "remove", "clean", "remove_tree", "delete_branch"}

\* The steps that have a branch to ship to.
TargetSteps == {"load", "merge", "checkout"}

WellFormed(o) ==
  /\ o \in WorkflowOperation
  /\ o.at \in LaunchSteps => o.launch \in Launches
  /\ o.at \in GitSteps => o.name \in Workspaces
  /\ o.at \in TargetSteps => o.target \in Targets
  /\ o.at = "request" => o.job \in Jobs

FilesOK ==
  /\ plan \in PlanState
  /\ execution \in Execution /\ verified \in Verification /\ begun \in 0..MaxExecutions

LaunchesOK ==
  /\ launch \in [Launches -> LaunchRow]
  /\ runner \in [Launches -> Runners]

\* A branch without a worktree is never deleted.
GitOK ==
  /\ branch \in [Branches -> [here : BOOLEAN, work : SUBSET Work]]
  /\ tree \in [Workspaces -> {"absent", "clean", "dirty"}]
  /\ root \in [head : Targets, conflict : BOOLEAN]
  /\ gone \subseteq Work
  /\ \A b \in Targets : branch[b].here

ShellsOK ==
  /\ shell \in [Shells -> WorkflowOperation]
  /\ \A p \in Shells : WellFormed(shell[p])

Holds(l) == launch[l].status \in {"RESERVED", "SPAWNING", "ACTIVE"}

Working(p, l) == shell[p].at \in LaunchSteps /\ shell[p].launch = l

\* One shell works on a launch that nobody has ended.
OneWorker ==
  \A p \in Shells, l \in Launches : Working(p, l) =>
    /\ launch[l].status \in {"RESERVED", "SPAWNING", "QUARANTINED"}
    /\ \A q \in Shells : Working(q, l) => q = p
    /\ runner[l] = "started" => shell[p].at = "active"

StartedHolds ==
  \A l \in Launches : runner[l] = "started" => Holds(l) \/ launch[l].status = "QUARANTINED"

OneHoldPerJob ==
  \A l, m \in Launches : Holds(l) /\ Holds(m) /\ launch[l].job = launch[m].job => l = m

StartsOK == OneWorker /\ StartedHolds /\ OneHoldPerJob

WorkflowInv == FilesOK /\ LaunchesOK /\ GitOK /\ ShellsOK /\ StartsOK

-----------------------------------------------------------------------------
(* The parts of a step *)

LEMMA BecomeFacts ==
  ASSUME WorkflowInv, NEW p \in Shells, NEW o, WellFormed(o), Become(p, o)
  PROVE  /\ ShellsOK' /\ shell'[p] = o
         /\ \A q \in Shells : q # p => shell'[q] = shell[q]
<1>1. o \in WorkflowOperation /\ shell \in [Shells -> WorkflowOperation]
      /\ shell' = [shell EXCEPT ![p] = o]
  BY DEF WellFormed, WorkflowInv, ShellsOK, Become
<1>2. /\ shell' \in [Shells -> WorkflowOperation] /\ shell'[p] = o
      /\ \A q \in Shells : q # p => shell'[q] = shell[q]
  BY <1>1
<1>3. ASSUME NEW q \in Shells
      PROVE  WellFormed(shell'[q])
  <2>1. CASE q = p
    BY <1>2, <2>1
  <2>2. CASE q # p
    <3>1. shell'[q] = shell[q] /\ WellFormed(shell[q])
      BY <1>2, <2>2 DEF WorkflowInv, ShellsOK
    <3>. QED BY <3>1
  <2>. QED BY <2>1, <2>2
<1>4. \A q \in Shells : WellFormed(shell[q])'
  BY <1>3 DEF WellFormed
<1>. QED BY <1>2, <1>4 DEF ShellsOK

LEMMA ReadyFacts == WellFormed(Ready) /\ Ready.at = "idle" /\ Ready.launch = None
<1>1. Ready \in WorkflowOperation
  BY WorkflowAssumption DEF Ready, WorkflowOperation, WorkflowSteps
<1>2. Ready.at = "idle" /\ Ready.launch = None
  BY DEF Ready
<1>. QED BY <1>1, <1>2 DEF WellFormed, LaunchSteps, GitSteps, TargetSteps

\* o goes on with step s.
GoesTo(o, s, n) ==
  /\ n \in WorkflowOperation
  /\ n.at = s /\ n.kind = o.kind /\ n.job = o.job /\ n.launch = o.launch /\ n.name = o.name
  /\ n.target = o.target /\ n.of = o.of /\ n.forced = o.forced

LEMMA GoOnMoves ==
  ASSUME WorkflowInv, NEW p \in Shells, NEW s \in WorkflowSteps, GoOn(p, s) \/ GoOnFailed(p, s)
  PROVE  \E n : GoesTo(shell[p], s, n) /\ Become(p, n)
<1>1. shell[p] \in WorkflowOperation
  BY DEF WorkflowInv, ShellsOK
<1>2. /\ GoesTo(shell[p], s, [shell[p] EXCEPT !.at = s])
      /\ GoesTo(shell[p], s, [shell[p] EXCEPT !.at = s, !.errors = TRUE])
  BY <1>1 DEF GoesTo, WorkflowOperation
<1>. QED BY <1>2 DEF GoOn, GoOnFailed

\* The launches are left alone by a shell that is not launching.
LEMMA StartsStay ==
  ASSUME WorkflowInv, UNCHANGED launchVars,
         \A q \in Shells : shell'[q] = shell[q] \/ shell'[q].at \notin LaunchSteps
  PROVE  StartsOK'
<1>1. launch' = launch /\ runner' = runner
  BY DEF launchVars
<1>2. \A q \in Shells : \A l : Working(q, l)' => Working(q, l) /\ shell'[q] = shell[q]
  BY DEF Working
<1>3. OneWorker'
  BY <1>1, <1>2 DEF WorkflowInv, StartsOK, OneWorker
<1>4. StartedHolds' /\ OneHoldPerJob'
  BY <1>1 DEF WorkflowInv, StartsOK, StartedHolds, OneHoldPerJob, Holds
<1>. QED BY <1>3, <1>4 DEF StartsOK

LEMMA LaunchesStay == WorkflowInv /\ UNCHANGED launchVars => LaunchesOK'
BY DEF WorkflowInv, LaunchesOK, launchVars

LEMMA FilesStay == WorkflowInv /\ UNCHANGED fileVarsW => FilesOK'
BY DEF WorkflowInv, FilesOK, fileVarsW

LEMMA GitStays == WorkflowInv /\ UNCHANGED gitVars => GitOK'
BY DEF WorkflowInv, GitOK, gitVars

\* A shell gets another operation, or its operation another step.
LEMMA QuietBecome ==
  ASSUME WorkflowInv, FilesOK', GitOK', UNCHANGED launchVars,
         NEW p \in Shells, NEW o, WellFormed(o), o.at \notin LaunchSteps, Become(p, o)
  PROVE  WorkflowInv'
<1>1. /\ ShellsOK'
      /\ \A q \in Shells : shell'[q] = shell[q] \/ shell'[q].at \notin LaunchSteps
  BY BecomeFacts
<1>. QED BY <1>1, StartsStay, LaunchesStay DEF WorkflowInv

LEMMA QuietEnd ==
  ASSUME WorkflowInv, FilesOK', GitOK', UNCHANGED launchVars, NEW p \in Shells, Become(p, Ready)
  PROVE  WorkflowInv'
<1>1. WellFormed(Ready) /\ Ready.at \notin LaunchSteps
  BY ReadyFacts DEF LaunchSteps
<1>. QED BY <1>1, QuietBecome

LEMMA QuietGoOn ==
  ASSUME WorkflowInv, FilesOK', GitOK', UNCHANGED launchVars, NEW p \in Shells,
         NEW s \in WorkflowSteps \ (LaunchSteps \cup {"request"}), GoOn(p, s) \/ GoOnFailed(p, s),
         s \in GitSteps => shell[p].at \in GitSteps,
         s \in TargetSteps => shell[p].at \in TargetSteps
  PROVE  WorkflowInv'
<1>1. PICK n : GoesTo(shell[p], s, n) /\ Become(p, n)
  BY GoOnMoves
<1>2. WellFormed(shell[p])
  BY DEF WorkflowInv, ShellsOK
<1>3. WellFormed(n) /\ n.at \notin LaunchSteps
  BY <1>1, <1>2 DEF GoesTo, WellFormed
<1>. QED BY <1>1, <1>3, QuietBecome

LEMMA QuietWorld ==
  ASSUME WorkflowInv, FilesOK', GitOK', UNCHANGED launchVars, UNCHANGED shell
  PROVE  WorkflowInv'
<1>1. ShellsOK'
  BY DEF WorkflowInv, ShellsOK, WellFormed
<1>. QED BY <1>1, StartsStay, LaunchesStay DEF WorkflowInv

-----------------------------------------------------------------------------
(* The steps of a launch *)

LEMMA StepNames ==
  /\ LaunchSteps \cup GitSteps \cup {"idle", "request", "worktree", "save", "tests", "load"}
       \subseteq WorkflowSteps
  /\ LaunchSteps \cap (GitSteps \cup {"idle", "request", "worktree", "save", "tests", "load"}) = {}
  /\ GitSteps \cap {"idle", "request", "worktree", "save", "tests", "load"} = {}
  /\ {"spawning", "session", "agent", "active", "mark_failed"} \subseteq LaunchSteps
  /\ {"merge", "checkout", "merge_root", "remove", "clean", "remove_tree", "delete_branch"}
       \subseteq GitSteps
  /\ TargetSteps \cap (LaunchSteps \cup {"idle", "request", "worktree", "save", "tests",
                      "merge_root", "remove", "clean", "remove_tree", "delete_branch"}) = {}
  /\ {"load", "merge", "checkout"} \subseteq TargetSteps
BY DEF LaunchSteps, GitSteps, TargetSteps, WorkflowSteps

\* A launch gets another status.
LEMMA StatusSet ==
  ASSUME WorkflowInv, NEW l \in Launches, NEW to \in LaunchRow, to.job = launch[l].job,
         launch' = [launch EXCEPT ![l] = to]
  PROVE  /\ launch' \in [Launches -> LaunchRow] /\ launch'[l] = to
         /\ \A m \in Launches : launch'[m].job = launch[m].job
         /\ \A m \in Launches : m # l => launch'[m] = launch[m]
BY DEF WorkflowInv, LaunchesOK

LEMMA StatusRow ==
  ASSUME WorkflowInv, NEW l \in Launches,
         NEW s \in {"ABSENT", "RESERVED", "SPAWNING", "ACTIVE", "FAILED", "QUARANTINED"},
         launch' = [launch EXCEPT ![l].status = s]
  PROVE  /\ launch' \in [Launches -> LaunchRow] /\ launch'[l].status = s
         /\ \A m \in Launches : launch'[m].job = launch[m].job
         /\ \A m \in Launches : m # l => launch'[m] = launch[m]
<1> DEFINE row == [launch[l] EXCEPT !.status = s]
<1>1. row \in LaunchRow /\ row.status = s /\ row.job = launch[l].job
  BY DEF WorkflowInv, LaunchesOK, LaunchRow
<1>2. launch' = [launch EXCEPT ![l] = row]
  OBVIOUS
<1>. HIDE DEF row
<1>. QED BY <1>1, <1>2, StatusSet

\* The shell that works on a launch.
LEMMA Worker ==
  ASSUME WorkflowInv, NEW p \in Shells, shell[p].at \in LaunchSteps
  PROVE  \E l \in Launches : shell[p].launch = l /\ Working(p, l)
BY DEF WorkflowInv, ShellsOK, WellFormed, Working

\* It goes on, with the launch or away from it.
LEMMA WorkerGoesOn ==
  ASSUME WorkflowInv, NEW p \in Shells, NEW s \in WorkflowSteps \ (GitSteps \cup TargetSteps \cup {"request"}),
         shell[p].at \in LaunchSteps, GoOn(p, s) \/ GoOnFailed(p, s)
  PROVE  /\ ShellsOK' /\ shell'[p].at = s /\ shell'[p].launch = shell[p].launch
         /\ \A q \in Shells : q # p => shell'[q] = shell[q]
<1>1. PICK n : GoesTo(shell[p], s, n) /\ Become(p, n)
  BY GoOnMoves
<1>2. WellFormed(shell[p])
  BY DEF WorkflowInv, ShellsOK
<1>3. WellFormed(n)
  BY <1>1, <1>2 DEF GoesTo, WellFormed
<1>. QED BY <1>1, <1>3, BecomeFacts DEF GoesTo

LEMMA RequestKeeps ==
  ASSUME WorkflowInv, NEW p \in Shells, RequestLaunch(p)
  PROVE  WorkflowInv'
<1>1. FilesOK' /\ GitOK' /\ runner' = runner
  BY FilesStay, GitStays DEF RequestLaunch
<1>2. CASE GoOn(p, "save") /\ UNCHANGED launch
  BY <1>1, <1>2, StepNames, QuietGoOn DEF launchVars
<1>3. ASSUME NEW l \in Launches, ~Blocked(shell[p].job), launch[l].status = "ABSENT",
             launch' = [launch EXCEPT ![l] = [status |-> "RESERVED", job |-> shell[p].job]],
             Become(p, [shell[p] EXCEPT !.at = "spawning", !.launch = l])
      PROVE  WorkflowInv'
  <2> DEFINE o == [shell[p] EXCEPT !.at = "spawning", !.launch = l]
             row == [status |-> "RESERVED", job |-> shell[p].job]
  <2>1. shell[p] \in WorkflowOperation
    BY DEF WorkflowInv, ShellsOK
  <2>2. o \in WorkflowOperation /\ o.at = "spawning" /\ o.launch = l
    BY <2>1, StepNames DEF WorkflowOperation
  <2>3. row \in LaunchRow /\ row.status = "RESERVED" /\ row.job = shell[p].job
    BY <2>1 DEF LaunchRow, WorkflowOperation
  <2>4. launch' = [launch EXCEPT ![l] = row] /\ Become(p, o)
    BY <1>3
  <2>. HIDE DEF o, row
  <2>5. WellFormed(o)
    BY <2>2, StepNames DEF WellFormed
  <2>6. /\ ShellsOK' /\ shell'[p].at = "spawning" /\ shell'[p].launch = l
        /\ \A q \in Shells : q # p => shell'[q] = shell[q]
    BY <2>2, <2>4, <2>5, BecomeFacts
  <2>7. /\ launch' \in [Launches -> LaunchRow]
        /\ launch'[l].status = "RESERVED" /\ launch'[l].job = shell[p].job
        /\ \A m \in Launches : m # l => launch'[m] = launch[m]
    BY <2>3, <2>4 DEF WorkflowInv, LaunchesOK
  <2>8. LaunchesOK'
    BY <1>1, <2>7 DEF WorkflowInv, LaunchesOK
  <2>9. runner[l] # "started" /\ \A q \in Shells : ~Working(q, l)
    BY <1>3 DEF WorkflowInv, StartsOK, StartedHolds, OneWorker, Holds
  <2>10. \A q \in Shells, m \in Launches :
           Working(q, m)' => (q = p /\ m = l) \/ (q # p /\ m # l /\ Working(q, m))
    BY <2>6, <2>9 DEF Working
  <2>11. OneWorker'
    BY <1>1, <2>6, <2>7, <2>9, <2>10 DEF WorkflowInv, StartsOK, OneWorker
  <2>12. \A m \in Launches : Holds(m)' <=> Holds(m) \/ m = l
    BY <2>7 DEF Holds
  <2>13. StartedHolds'
    BY <1>1, <2>7, <2>9, <2>12 DEF WorkflowInv, StartsOK, StartedHolds
  <2>14. \A m \in Launches : Holds(m) => launch[m].job # shell[p].job
    BY <1>3 DEF Blocked, Holds
  <2>15. OneHoldPerJob'
    BY <2>7, <2>12, <2>14 DEF WorkflowInv, StartsOK, OneHoldPerJob
  <2>. QED BY <1>1, <2>6, <2>8, <2>11, <2>13, <2>15 DEF WorkflowInv, StartsOK
<1>. QED BY <1>2, <1>3 DEF RequestLaunch

\* A step of a launch that takes it no further than use or quarantine.
LEMMA ConfirmKeeps ==
  ASSUME WorkflowInv, NEW p \in Shells,
         \/ shell[p].at = "spawning" /\ Confirm(p, "RESERVED", "SPAWNING", "session")
         \/ shell[p].at = "active" /\ Confirm(p, "SPAWNING", "ACTIVE", "worktree")
  PROVE  WorkflowInv'
<1>1. shell[p].at \in LaunchSteps /\ FilesOK' /\ GitOK' /\ runner' = runner
  BY FilesStay, GitStays, StepNames DEF Confirm
<1>2. PICK l \in Launches : shell[p].launch = l /\ Working(p, l)
  BY <1>1, Worker
<1>3. PICK to \in {"SPAWNING", "ACTIVE"} :
        /\ \/ launch' = launch
           \/ launch[l].status \in {"RESERVED", "SPAWNING"}
              /\ launch' = [launch EXCEPT ![l].status = to]
        /\ \/ to = "SPAWNING" /\ shell[p].at = "spawning" /\ GoOn(p, "session")
           \/ to = "ACTIVE" /\ GoOn(p, "worktree")
  BY <1>2 DEF Confirm
<1>4. /\ ShellsOK' /\ shell'[p].launch = l
      /\ \A q \in Shells : q # p => shell'[q] = shell[q]
      /\ \/ to = "SPAWNING" /\ shell[p].at = "spawning" /\ shell'[p].at = "session"
         \/ to = "ACTIVE" /\ shell'[p].at = "worktree"
  BY <1>1, <1>2, <1>3, WorkerGoesOn, StepNames
<1>5. /\ launch' \in [Launches -> LaunchRow]
      /\ \A m \in Launches : launch'[m].job = launch[m].job
      /\ \A m \in Launches : m # l => launch'[m] = launch[m]
      /\ \/ launch'[l] = launch[l]
         \/ launch[l].status \in {"RESERVED", "SPAWNING"} /\ launch'[l].status = to
  <2>1. CASE launch' = launch
    BY <2>1 DEF WorkflowInv, LaunchesOK
  <2>2. CASE launch[l].status \in {"RESERVED", "SPAWNING"}
             /\ launch' = [launch EXCEPT ![l].status = to]
    BY <2>2, StatusRow
  <2>. QED BY <1>3, <2>1, <2>2
<1>6. \A m \in Launches : Holds(m)' <=> Holds(m)
  BY <1>5 DEF Holds
<1>7. \A q \in Shells, m \in Launches : Working(q, m)' => Working(q, m)
  BY <1>2, <1>4 DEF Working
<1>8. OneWorker'
  <2> SUFFICES ASSUME NEW q \in Shells, NEW m \in Launches, Working(q, m)'
               PROVE  /\ launch'[m].status \in {"RESERVED", "SPAWNING", "QUARANTINED"}
                      /\ \A r \in Shells : Working(r, m)' => r = q
                      /\ runner'[m] = "started" => shell'[q].at = "active"
    BY DEF OneWorker
  <2>1. /\ launch[m].status \in {"RESERVED", "SPAWNING", "QUARANTINED"}
        /\ \A r \in Shells : Working(r, m) => r = q
        /\ runner[m] = "started" => shell[q].at = "active"
    BY <1>7 DEF WorkflowInv, StartsOK, OneWorker
  <2>2. CASE m = l
    <3>1. q = p /\ shell'[p].at # "worktree"
      BY <1>2, <2>1, <2>2, StepNames DEF Working
    <3>. QED BY <1>1, <1>4, <1>5, <1>7, <2>1, <2>2, <3>1
  <2>3. CASE m # l
    <3>1. q # p
      BY <1>4, <2>3 DEF Working
    <3>. QED BY <1>1, <1>4, <1>5, <1>7, <2>1, <2>3, <3>1
  <2>. QED BY <2>2, <2>3
<1>9. StartedHolds'
  BY <1>1, <1>5, <1>6 DEF WorkflowInv, StartsOK, StartedHolds, Holds
<1>10. OneHoldPerJob'
  BY <1>5, <1>6 DEF WorkflowInv, StartsOK, OneHoldPerJob
<1>. QED BY <1>1, <1>4, <1>5, <1>8, <1>9, <1>10 DEF WorkflowInv, StartsOK, LaunchesOK

LEMMA CreateSessionKeeps ==
  ASSUME WorkflowInv, NEW p \in Shells, CreateSession(p)
  PROVE  WorkflowInv'
<1>1. /\ shell[p].at = "session" /\ shell[p].at \in LaunchSteps /\ FilesOK' /\ GitOK'
      /\ UNCHANGED launchVars /\ launch' = launch /\ runner' = runner
  BY FilesStay, GitStays, StepNames DEF CreateSession, launchVars
<1>2. PICK l \in Launches : shell[p].launch = l /\ Working(p, l)
  BY <1>1, Worker
<1>3. /\ ShellsOK' /\ shell'[p].launch = l
      /\ \A q \in Shells : q # p => shell'[q] = shell[q]
  <2>1. PICK s \in {"agent", "mark_failed"} : GoOn(p, s) \/ GoOnFailed(p, s)
    BY DEF CreateSession
  <2>. QED BY <1>1, <1>2, <2>1, WorkerGoesOn, StepNames
<1>4. \A q \in Shells, m \in Launches :
        Working(q, m)' => Working(q, m) /\ (q # p => shell'[q] = shell[q]) /\ (q = p => m = l)
  BY <1>2, <1>3 DEF Working
<1>5. runner[l] # "started"
  BY <1>1, <1>2 DEF WorkflowInv, StartsOK, OneWorker
<1>6. OneWorker'
  BY <1>1, <1>4, <1>5 DEF WorkflowInv, StartsOK, OneWorker
<1>7. StartedHolds' /\ OneHoldPerJob'
  BY <1>1 DEF WorkflowInv, StartsOK, StartedHolds, OneHoldPerJob, Holds
<1>. QED BY <1>1, <1>3, <1>6, <1>7, LaunchesStay DEF WorkflowInv, StartsOK

LEMMA LaunchAgentKeeps ==
  ASSUME WorkflowInv, NEW p \in Shells, LaunchAgent(p)
  PROVE  WorkflowInv'
<1>1. /\ shell[p].at = "agent" /\ shell[p].at \in LaunchSteps /\ FilesOK' /\ GitOK'
      /\ launch' = launch
  BY FilesStay, GitStays, StepNames DEF LaunchAgent
<1>2. PICK l \in Launches : shell[p].launch = l /\ Working(p, l)
  BY <1>1, Worker
<1>3. PICK s \in {"active", "mark_failed"}, left \in {"none", "started", "stray"} :
        /\ GoOn(p, s) \/ GoOnFailed(p, s)
        /\ left = "started" => s = "active"
        /\ runner' = [runner EXCEPT ![l] = left]
  BY <1>2 DEF LaunchAgent
<1>4. /\ ShellsOK' /\ shell'[p].at = s /\ shell'[p].launch = l
      /\ \A q \in Shells : q # p => shell'[q] = shell[q]
  BY <1>1, <1>2, <1>3, WorkerGoesOn, StepNames
<1>5. /\ runner' \in [Launches -> Runners] /\ runner'[l] = left
      /\ \A m \in Launches : m # l => runner'[m] = runner[m]
  BY <1>3 DEF WorkflowInv, LaunchesOK, Runners
<1>6. \A q \in Shells, m \in Launches :
        Working(q, m)' => Working(q, m) /\ (q # p => shell'[q] = shell[q]) /\ (q = p => m = l)
  BY <1>2, <1>4 DEF Working
<1>7. OneWorker'
  <2> SUFFICES ASSUME NEW q \in Shells, NEW m \in Launches, Working(q, m)'
               PROVE  /\ launch'[m].status \in {"RESERVED", "SPAWNING", "QUARANTINED"}
                      /\ \A r \in Shells : Working(r, m)' => r = q
                      /\ runner'[m] = "started" => shell'[q].at = "active"
    BY DEF OneWorker
  <2>1. /\ launch[m].status \in {"RESERVED", "SPAWNING", "QUARANTINED"}
        /\ \A r \in Shells : Working(r, m) => r = q
        /\ runner[m] = "started" => shell[q].at = "active"
    BY <1>6 DEF WorkflowInv, StartsOK, OneWorker
  <2>2. CASE m = l
    <3>1. q = p
      BY <1>2, <2>1, <2>2
    <3>. QED BY <1>1, <1>3, <1>4, <1>5, <1>6, <2>1, <2>2, <3>1
  <2>3. CASE m # l
    <3>1. q # p
      BY <1>6, <2>3
    <3>. QED BY <1>1, <1>4, <1>5, <1>6, <2>1, <2>3, <3>1
  <2>. QED BY <2>2, <2>3
<1>8. Holds(l) \/ launch[l].status = "QUARANTINED"
  BY <1>2 DEF WorkflowInv, StartsOK, OneWorker, Holds
<1>9. StartedHolds' /\ OneHoldPerJob'
  BY <1>1, <1>5, <1>8 DEF WorkflowInv, StartsOK, StartedHolds, OneHoldPerJob, Holds
<1>10. LaunchesOK'
  BY <1>1, <1>5 DEF WorkflowInv, LaunchesOK
<1>. QED BY <1>1, <1>4, <1>7, <1>9, <1>10 DEF WorkflowInv, StartsOK

\* confirm_active raises: the agent runs on, unconfirmed.
LEMMA ConfirmRaises ==
  ASSUME WorkflowInv, NEW p \in Shells, shell[p].at = "active", GoOnFailed(p, "mark_failed"),
         runner' = [runner EXCEPT ![shell[p].launch] = IF @ = "started" THEN "unconfirmed" ELSE @],
         UNCHANGED <<fileVarsW, launch, gitVars>>
  PROVE  WorkflowInv'
<1>1. /\ shell[p].at \in LaunchSteps /\ FilesOK' /\ GitOK'
      /\ launch' = launch
  BY FilesStay, GitStays, StepNames
<1>2. PICK l \in Launches : shell[p].launch = l /\ Working(p, l)
  BY <1>1, Worker
<1>3. /\ ShellsOK' /\ shell'[p].at = "mark_failed" /\ shell'[p].launch = l
      /\ \A q \in Shells : q # p => shell'[q] = shell[q]
  BY <1>1, <1>2, WorkerGoesOn, StepNames
<1>4. /\ runner' \in [Launches -> Runners] /\ runner'[l] # "started"
      /\ \A m \in Launches : m # l => runner'[m] = runner[m]
  BY <1>2 DEF WorkflowInv, LaunchesOK, Runners
<1>5. \A q \in Shells, m \in Launches :
        Working(q, m)' => Working(q, m) /\ (q # p => shell'[q] = shell[q]) /\ (q = p => m = l)
  BY <1>2, <1>3 DEF Working
<1>6. OneWorker'
  BY <1>1, <1>2, <1>4, <1>5 DEF WorkflowInv, StartsOK, OneWorker
<1>7. StartedHolds' /\ OneHoldPerJob'
  BY <1>1, <1>4 DEF WorkflowInv, StartsOK, StartedHolds, OneHoldPerJob, Holds
<1>8. LaunchesOK'
  BY <1>1, <1>4 DEF WorkflowInv, LaunchesOK
<1>. QED BY <1>1, <1>3, <1>6, <1>7, <1>8 DEF WorkflowInv, StartsOK

\* Nobody was told of the agent of a launch that is marked failed, and one that
\* is not stays in quarantine.
LEMMA MarkFailedKeeps ==
  ASSUME WorkflowInv, NEW p \in Shells, MarkFailed(p)
  PROVE  WorkflowInv'
<1>1. /\ shell[p].at = "mark_failed" /\ shell[p].at \in LaunchSteps /\ FilesOK' /\ GitOK'
      /\ runner' = runner /\ GoOn(p, "worktree")
  BY FilesStay, GitStays, StepNames DEF MarkFailed
<1>2. PICK l \in Launches : shell[p].launch = l /\ Working(p, l)
  BY <1>1, Worker
<1>3. /\ launch' \in [Launches -> LaunchRow] /\ launch'[l].status \in {"FAILED", "QUARANTINED"}
      /\ \A m \in Launches : launch'[m].job = launch[m].job
      /\ \A m \in Launches : m # l => launch'[m] = launch[m]
  <2>1. CASE launch' = [launch EXCEPT ![l].status = "FAILED"]
    BY <2>1, StatusRow
  <2>2. CASE launch[l].status = "QUARANTINED" /\ launch' = launch
    BY <2>2 DEF WorkflowInv, LaunchesOK
  <2>. QED BY <1>2, <2>1, <2>2 DEF MarkFailed
<1>4. /\ ShellsOK' /\ shell'[p].at = "worktree"
      /\ \A q \in Shells : q # p => shell'[q] = shell[q]
  BY <1>1, WorkerGoesOn, StepNames
<1>5. \A q \in Shells, m \in Launches :
        Working(q, m)' => Working(q, m) /\ q # p /\ shell'[q] = shell[q]
  BY <1>4, StepNames DEF Working
<1>6. runner[l] # "started" /\ \A q \in Shells : Working(q, l) => q = p
  BY <1>1, <1>2 DEF WorkflowInv, StartsOK, OneWorker
<1>7. \A q \in Shells, m \in Launches : Working(q, m)' => m # l
  BY <1>5, <1>6
<1>8. OneWorker'
  BY <1>1, <1>3, <1>5, <1>7 DEF WorkflowInv, StartsOK, OneWorker
<1>9. \A m \in Launches : (Holds(m)' => Holds(m)) /\ (m # l /\ Holds(m) => Holds(m)')
  BY <1>3 DEF Holds
<1>10. StartedHolds' /\ OneHoldPerJob'
  BY <1>1, <1>3, <1>6, <1>9 DEF WorkflowInv, StartsOK, StartedHolds, OneHoldPerJob
<1>. QED BY <1>1, <1>3, <1>4, <1>8, <1>10 DEF WorkflowInv, StartsOK, LaunchesOK

LEMMA LeaseKeeps ==
  ASSUME WorkflowInv, NEW l \in Launches, LeaseExpires(l)
  PROVE  WorkflowInv'
<1>1. /\ FilesOK' /\ GitOK' /\ runner' = runner /\ shell' = shell
      /\ launch[l].status \in {"RESERVED", "SPAWNING"}
  BY FilesStay, GitStays DEF LeaseExpires
<1>2. /\ launch' \in [Launches -> LaunchRow] /\ launch'[l].status = "QUARANTINED"
      /\ \A m \in Launches : launch'[m].job = launch[m].job
      /\ \A m \in Launches : m # l => launch'[m] = launch[m]
  BY StatusRow DEF LeaseExpires
<1>3. ShellsOK'
  BY <1>1 DEF WorkflowInv, ShellsOK, WellFormed
<1>4. \A q \in Shells, m \in Launches : Working(q, m)' <=> Working(q, m)
  BY <1>1 DEF Working
<1>5. OneWorker'
  BY <1>1, <1>2, <1>4 DEF WorkflowInv, StartsOK, OneWorker
<1>6. \A m \in Launches : (Holds(m)' => Holds(m)) /\ (m # l /\ Holds(m) => Holds(m)')
  BY <1>1, <1>2 DEF Holds
<1>7. StartedHolds' /\ OneHoldPerJob'
  BY <1>1, <1>2, <1>6 DEF WorkflowInv, StartsOK, StartedHolds, OneHoldPerJob
<1>. QED BY <1>1, <1>2, <1>3, <1>5, <1>7 DEF WorkflowInv, StartsOK, LaunchesOK

LEMMA AgentEndsKeeps ==
  ASSUME WorkflowInv, NEW l \in Launches, AgentEnds(l)
  PROVE  WorkflowInv'
<1>1. FilesOK' /\ GitOK' /\ launch' = launch /\ shell' = shell
  BY FilesStay, GitStays DEF AgentEnds
<1>2. /\ runner' \in [Launches -> Runners]
      /\ \A m \in Launches : runner'[m] = "started" => runner[m] = "started"
  BY DEF AgentEnds, WorkflowInv, LaunchesOK, Runners
<1>3. ShellsOK'
  BY <1>1 DEF WorkflowInv, ShellsOK, WellFormed
<1>4. \A q \in Shells, m \in Launches : Working(q, m)' <=> Working(q, m)
  BY <1>1 DEF Working
<1>5. OneWorker'
  BY <1>1, <1>2, <1>4 DEF WorkflowInv, StartsOK, OneWorker
<1>6. StartedHolds' /\ OneHoldPerJob' /\ LaunchesOK'
  BY <1>1, <1>2 DEF WorkflowInv, StartsOK, StartedHolds, OneHoldPerJob, Holds, LaunchesOK
<1>. QED BY <1>1, <1>3, <1>5, <1>6 DEF WorkflowInv, StartsOK

-----------------------------------------------------------------------------
(* The repository *)

LEMMA BranchSet ==
  ASSUME WorkflowInv, NEW b \in Branches, NEW row \in [here : BOOLEAN, work : SUBSET Work],
         b \in Targets => row.here, branch' = [branch EXCEPT ![b] = row]
  PROVE  /\ branch' \in [Branches -> [here : BOOLEAN, work : SUBSET Work]]
         /\ \A c \in Targets : branch'[c].here
BY DEF WorkflowInv, GitOK, Branches

LEMMA WorkAdded ==
  ASSUME WorkflowInv, NEW b \in Branches, NEW more \in SUBSET Work,
         branch' = [branch EXCEPT ![b].work = @ \cup more]
  PROVE  /\ branch' \in [Branches -> [here : BOOLEAN, work : SUBSET Work]]
         /\ \A c \in Targets : branch'[c].here
<1> DEFINE row == [branch[b] EXCEPT !.work = branch[b].work \cup more]
<1>1. branch[b] \in [here : BOOLEAN, work : SUBSET Work] /\ (b \in Targets => branch[b].here)
  BY DEF WorkflowInv, GitOK
<1>2. row \in [here : BOOLEAN, work : SUBSET Work] /\ row.here = branch[b].here
  BY <1>1
<1>3. branch' = [branch EXCEPT ![b] = row]
  OBVIOUS
<1>. HIDE DEF row
<1>. QED BY <1>1, <1>2, <1>3, BranchSet

LEMMA MergedFacts ==
  ASSUME WorkflowInv, NEW b \in Branches, NEW n \in Workspaces, Merged(b, n),
         tree' = tree, root' = root, gone' = gone
  PROVE  GitOK'
<1>1. n \in Branches /\ branch[n].work \in SUBSET Work
  BY DEF Branches, WorkflowInv, GitOK
<1>2. branch' = [branch EXCEPT ![b].work = @ \cup branch[n].work]
  BY DEF Merged
<1>3. /\ branch' \in [Branches -> [here : BOOLEAN, work : SUBSET Work]]
      /\ \A c \in Targets : branch'[c].here
  BY <1>1, <1>2, WorkAdded
<1>. QED BY <1>3 DEF WorkflowInv, GitOK

LEMMA AddFacts ==
  ASSUME WorkflowInv, NEW n \in Workspaces, worktree_add(n), root' = root, gone' = gone
  PROVE  GitOK'
<1> DEFINE row == [here |-> TRUE, work |-> branch[root.head].work]
<1>1. root.head \in Branches /\ n \in Branches
  BY DEF WorkflowInv, GitOK, Branches
<1>2. row \in [here : BOOLEAN, work : SUBSET Work] /\ row.here
  BY <1>1 DEF WorkflowInv, GitOK
<1>3. branch' = [branch EXCEPT ![n] = row] /\ tree' = [tree EXCEPT ![n] = "clean"]
  BY DEF worktree_add
<1>. HIDE DEF row
<1>4. /\ branch' \in [Branches -> [here : BOOLEAN, work : SUBSET Work]]
      /\ \A c \in Targets : branch'[c].here
  BY <1>1, <1>2, <1>3, BranchSet
<1>. QED BY <1>3, <1>4 DEF WorkflowInv, GitOK

LEMMA DropFacts ==
  ASSUME WorkflowInv, NEW n \in Workspaces, DropBranch(n), root' = root, tree' = tree
  PROVE  GitOK'
<1> DEFINE row == [here |-> FALSE, work |-> {}]
<1>1. n \in Branches /\ n \notin Targets /\ row \in [here : BOOLEAN, work : SUBSET Work]
  BY WorkflowAssumption DEF Branches
<1>2. /\ branch' = [branch EXCEPT ![n] = row]
      /\ gone' = gone \cup {w \in branch[n].work : ~Reachable(n, w)}
  BY DEF DropBranch
<1>. HIDE DEF row
<1>3. /\ branch' \in [Branches -> [here : BOOLEAN, work : SUBSET Work]]
      /\ \A c \in Targets : branch'[c].here
  BY <1>1, <1>2, BranchSet
<1>4. gone' \subseteq Work
  BY <1>1, <1>2 DEF WorkflowInv, GitOK
<1>. QED BY <1>3, <1>4 DEF WorkflowInv, GitOK

\* What the root has checked out is a branch that stays.
LEMMA HeadStays ==
  ASSUME WorkflowInv, NEW n \in Workspaces
  PROVE  root.head \in Branches /\ root.head # n /\ branch[root.head].here
BY WorkflowAssumption DEF WorkflowInv, GitOK, Branches

-----------------------------------------------------------------------------
(* The rest of outline, execute, verify and ship *)

LEMMA ExecutingKeeps ==
  ASSUME WorkflowInv, NEW p \in Shells, Executing(p)
  PROVE  WorkflowInv'
<1>1. ASSUME NEW j \in Jobs, outline(p, j)
      PROVE  WorkflowInv'
  <2>1. FilesOK' /\ GitOK'
    BY <1>1, GitStays DEF outline, WorkflowInv, FilesOK, PlanState
  <2>. QED BY <1>1, <2>1, QuietWorld DEF outline
<1>2. ASSUME execute(p)
      PROVE  WorkflowInv'
  <2> DEFINE o == [Ready EXCEPT !.at = "request", !.kind = "execute", !.job = plan,
                                !.of = begun + 1]
  <2>1. /\ begun' = begun + 1 /\ begun' \in 0..MaxExecutions /\ plan \in Jobs \cup {None}
    BY <1>2, WorkflowAssumption DEF execute, WorkflowInv, FilesOK, PlanState
  <2>2. o \in WorkflowOperation /\ o.at = "request" /\ o.job \in Jobs
    BY <1>2, <2>1, ReadyFacts, StepNames DEF execute, WellFormed, Ready, WorkflowOperation
  <2>3. WellFormed(o) /\ o.at \notin LaunchSteps
    BY <2>2, StepNames DEF WellFormed
  <2>4. FilesOK' /\ GitOK' /\ Become(p, o) /\ UNCHANGED launchVars
    BY <1>2, <2>1, GitStays DEF execute, WorkflowInv, FilesOK
  <2>. HIDE DEF o
  <2>. QED BY <2>3, <2>4, QuietBecome
<1>3. ASSUME CreateWorktree(p)
      PROVE  WorkflowInv'
  <2>1. FilesOK' /\ UNCHANGED launchVars /\ shell[p].at = "worktree"
    BY <1>3, FilesStay DEF CreateWorktree
  <2>2. ASSUME NEW n \in Workspaces, worktree_add(n),
               Become(p, [shell[p] EXCEPT !.at = "save", !.name = n])
        PROVE  WorkflowInv'
    <3> DEFINE o == [shell[p] EXCEPT !.at = "save", !.name = n]
    <3>1. o \in WorkflowOperation /\ o.at = "save" /\ Become(p, o)
      <4>1. shell[p] \in WorkflowOperation /\ "save" \in WorkflowSteps
        BY StepNames DEF WorkflowInv, ShellsOK, WellFormed
      <4>2. o \in WorkflowOperation /\ o.at = "save"
        BY <4>1 DEF WorkflowOperation
      <4>. QED BY <2>2, <4>2
    <3>2. GitOK'
      BY <1>3, <2>2, AddFacts DEF CreateWorktree
    <3>. HIDE DEF o
    <3>3. WellFormed(o) /\ o.at \notin LaunchSteps
      BY <3>1, StepNames DEF WellFormed
    <3>. QED BY <2>1, <3>1, <3>2, <3>3, QuietBecome
  <2>3. ASSUME GoOnFailed(p, "save"), UNCHANGED <<branch, tree>>
        PROVE  WorkflowInv'
    <3>1. GitOK'
      BY <1>3, <2>3, GitStays DEF CreateWorktree, gitVars
    <3>. QED BY <2>1, <2>3, <3>1, StepNames, QuietGoOn
  <2>. QED BY <1>3, <2>2, <2>3 DEF CreateWorktree
<1>4. ASSUME SaveExecution(p)
      PROVE  WorkflowInv'
  <2>1. shell[p] \in WorkflowOperation
    BY DEF WorkflowInv, ShellsOK
  <2>2. execution' \in Execution
    BY <1>4, <2>1 DEF SaveExecution, Execution, WorkflowOperation
  <2>3. FilesOK' /\ GitOK'
    BY <1>4, <2>2, GitStays DEF SaveExecution, WorkflowInv, FilesOK
  <2>. QED BY <1>4, <2>3, QuietEnd DEF SaveExecution
<1>5. RequestLaunch(p) \/ MarkFailed(p) => WorkflowInv'
  BY RequestKeeps, MarkFailedKeeps
<1>6. ConfirmSpawning(p) \/ ConfirmActive(p) => WorkflowInv'
  BY ConfirmKeeps, ConfirmRaises DEF ConfirmSpawning, ConfirmActive
<1>7. CreateSession(p) \/ LaunchAgent(p) => WorkflowInv'
  BY CreateSessionKeeps, LaunchAgentKeeps
<1>. QED BY <1>1, <1>2, <1>3, <1>4, <1>5, <1>6, <1>7 DEF Executing

LEMMA VerifyKeeps ==
  ASSUME WorkflowInv, NEW p \in Shells, verify(p) \/ SaveVerification(p)
  PROVE  WorkflowInv'
<1>1. ASSUME verify(p)
      PROVE  WorkflowInv'
  <2> DEFINE o == [Ready EXCEPT !.at = "tests", !.kind = "verify", !.of = execution.id]
  <2>1. begun' \in 0..MaxExecutions /\ execution.id \in 0..MaxExecutions
    BY <1>1, WorkflowAssumption DEF verify, WorkflowInv, FilesOK, Execution
  <2>2. o \in WorkflowOperation /\ o.at = "tests"
    BY <2>1, ReadyFacts, StepNames DEF WellFormed, Ready, WorkflowOperation
  <2>3. WellFormed(o) /\ o.at \notin LaunchSteps
    BY <2>2, StepNames DEF WellFormed
  <2>4. FilesOK' /\ GitOK' /\ Become(p, o) /\ UNCHANGED launchVars
    BY <1>1, <2>1, GitStays DEF verify, WorkflowInv, FilesOK
  <2>. HIDE DEF o
  <2>. QED BY <2>3, <2>4, QuietBecome
<1>2. ASSUME SaveVerification(p)
      PROVE  WorkflowInv'
  <2>1. shell[p] \in WorkflowOperation
    BY DEF WorkflowInv, ShellsOK
  <2>2. verified' \in Verification
    BY <1>2, <2>1 DEF SaveVerification, Verification, WorkflowOperation
  <2>3. FilesOK' /\ GitOK'
    BY <1>2, <2>2, GitStays DEF SaveVerification, WorkflowInv, FilesOK
  <2>. QED BY <1>2, <2>3, QuietEnd DEF SaveVerification
<1>. QED BY <1>1, <1>2

\* An operation on a worktree begins.
LEMMA BeginKeeps ==
  ASSUME WorkflowInv, NEW p \in Shells, UNCHANGED <<fileVarsW, launchVars, gitVars>>,
         NEW o \in WorkflowOperation, Become(p, o), o.at \in {"load", "merge", "remove"},
         o.at # "load" => o.name \in Workspaces, o.at # "remove" => o.target \in Targets
  PROVE  WorkflowInv'
<1>1. /\ o.at \notin LaunchSteps
      /\ o.at \in GitSteps => o.at # "load"
      /\ o.at \in TargetSteps => o.at # "remove"
  BY StepNames
<1>2. WellFormed(o)
  BY <1>1 DEF WellFormed
<1>. QED BY <1>1, <1>2, QuietBecome, FilesStay, GitStays

LEMMA ShippingBegins ==
  ASSUME WorkflowInv, NEW p \in Shells, NEW target \in Targets,
         \E aside, force \in BOOLEAN : ship(p, target, aside, force)
  PROVE  WorkflowInv'
<1>0. Ready \in WorkflowOperation
  BY ReadyFacts DEF WellFormed
<1>1. ASSUME NEW aside \in BOOLEAN, NEW force \in BOOLEAN, ship(p, target, aside, force)
      PROVE  WorkflowInv'
  <2> DEFINE of == IF force THEN 0 ELSE verified.of
             o == [Ready EXCEPT !.at = "load", !.kind = "ship", !.target = target,
                                !.aside = aside, !.forced = force, !.of = of]
  <2>1. of \in 0..MaxExecutions
    BY WorkflowAssumption DEF WorkflowInv, FilesOK, Verification
  <2>. HIDE DEF of
  <2>2. o \in WorkflowOperation /\ o.at = "load" /\ o.target = target
    BY <1>0, <2>1, StepNames DEF WorkflowOperation
  <2>. HIDE DEF o
  <2>3. UNCHANGED <<fileVarsW, launchVars, gitVars>> /\ Become(p, o)
    BY <1>1 DEF ship, o, of
  <2>. QED BY <2>2, <2>3, BeginKeeps
<1>. QED BY <1>1

\* How a merge goes on, when it has changed the repository as it should.
LEMMA MergeGoesOn ==
  ASSUME WorkflowInv, FilesOK', GitOK', UNCHANGED launchVars, NEW p \in Shells,
         shell[p].at \in GitSteps, MergeFailed(p) \/ MergeDone(p)
  PROVE  WorkflowInv'
<1>1. /\ {"remove", "delete_branch"} \subseteq WorkflowSteps \ (LaunchSteps \cup {"request"})
      /\ "remove" \notin TargetSteps /\ "delete_branch" \notin TargetSteps
  BY StepNames
<1>2. Become(p, Ready) => WorkflowInv'
  BY QuietEnd
<1>3. \A s \in {"remove", "delete_branch"} : GoOn(p, s) \/ GoOnFailed(p, s) => WorkflowInv'
  BY <1>1, QuietGoOn
<1>. QED BY <1>2, <1>3 DEF MergeFailed, MergeDone

LEMMA MergingKeeps ==
  ASSUME WorkflowInv, NEW p \in Shells,
         ShipLoad(p) \/ StartMerge(p) \/ Checkout(p) \/ MergeRoot(p)
  PROVE  WorkflowInv'
<1>1. WellFormed(shell[p]) /\ shell[p] \in WorkflowOperation
  BY DEF WorkflowInv, ShellsOK
<1>2. ASSUME ShipLoad(p)
      PROVE  WorkflowInv'
  <2>1. FilesOK' /\ GitOK' /\ UNCHANGED launchVars /\ shell[p].at = "load"
    BY <1>2, FilesStay, GitStays DEF ShipLoad
  <2>2. CASE Become(p, Ready)
    BY <2>1, <2>2, QuietEnd
  <2>3. CASE execution.name # None
             /\ Become(p, [shell[p] EXCEPT !.at = "merge", !.name = execution.name])
    <3> DEFINE o == [shell[p] EXCEPT !.at = "merge", !.name = execution.name]
    <3>1. execution.name \in Workspaces
      BY <2>3 DEF WorkflowInv, FilesOK, Execution
    <3>2. o \in WorkflowOperation /\ o.at = "merge" /\ o.name = execution.name
          /\ o.target = shell[p].target /\ Become(p, o)
      BY <1>1, <2>3, <3>1, StepNames DEF WorkflowOperation
    <3>3. shell[p].target \in Targets
      BY <1>1, <2>1, StepNames DEF WellFormed
    <3>. HIDE DEF o
    <3>4. WellFormed(o) /\ o.at \notin LaunchSteps
      BY <3>1, <3>2, <3>3, StepNames DEF WellFormed
    <3>. QED BY <2>1, <3>2, <3>4, QuietBecome
  <2>. QED BY <1>2, <2>2, <2>3 DEF ShipLoad
<1>3. ASSUME StartMerge(p)
      PROVE  WorkflowInv'
  <2>1. /\ FilesOK' /\ UNCHANGED launchVars /\ shell[p].at = "merge"
        /\ shell[p].at \in GitSteps /\ shell[p].name \in Workspaces
        /\ shell[p].target \in Targets /\ shell[p].target \in Branches
        /\ UNCHANGED <<tree, root, gone>>
    BY <1>1, <1>3, FilesStay, StepNames DEF StartMerge, WellFormed, Branches
  <2>2. CASE Merged(shell[p].target, shell[p].name) /\ MergeDone(p)
    BY <2>1, <2>2, MergedFacts, MergeGoesOn
  <2>3. CASE branch' = branch
    <3>1. GitOK'
      BY <2>1, <2>3, GitStays DEF gitVars
    <3>2. GoOn(p, "checkout") => WorkflowInv'
      BY <2>1, <3>1, StepNames, QuietGoOn
    <3>3. MergeFailed(p) \/ MergeDone(p) => WorkflowInv'
      BY <2>1, <3>1, MergeGoesOn
    <3>. QED BY <1>3, <2>2, <3>2, <3>3 DEF StartMerge
  <2>. QED BY <1>3, <2>2, <2>3 DEF StartMerge
<1>4. ASSUME Checkout(p)
      PROVE  WorkflowInv'
  <2>1. /\ FilesOK' /\ UNCHANGED launchVars /\ shell[p].at = "checkout"
        /\ shell[p].at \in GitSteps /\ shell[p].target \in Targets
        /\ UNCHANGED <<branch, tree, gone>>
    BY <1>1, <1>4, FilesStay, StepNames DEF Checkout, WellFormed
  <2>2. CASE root' = [root EXCEPT !.head = shell[p].target] /\ GoOn(p, "merge_root")
    <3>1. GitOK'
      BY <2>1, <2>2 DEF WorkflowInv, GitOK
    <3>. QED BY <2>1, <2>2, <3>1, StepNames, QuietGoOn
  <2>3. CASE MergeFailed(p) /\ UNCHANGED root
    <3>1. GitOK'
      BY <2>1, <2>3 DEF WorkflowInv, GitOK
    <3>. QED BY <2>1, <2>3, <3>1, MergeGoesOn
  <2>. QED BY <1>4, <2>2, <2>3 DEF Checkout
<1>5. ASSUME MergeRoot(p)
      PROVE  WorkflowInv'
  <2>1. /\ FilesOK' /\ UNCHANGED launchVars
        /\ shell[p].at \in GitSteps /\ shell[p].name \in Workspaces
        /\ UNCHANGED <<tree, gone>> /\ root.head \in Branches
    BY <1>1, <1>5, HeadStays, FilesStay, StepNames DEF MergeRoot, WellFormed
  <2>2. CASE Merged(root.head, shell[p].name) /\ MergeDone(p) /\ UNCHANGED root
    BY <2>1, <2>2, MergedFacts, MergeGoesOn
  <2>3. CASE /\ branch' = branch /\ MergeFailed(p)
             /\ root' = [root EXCEPT !.conflict = TRUE] \/ root' = root
    <3>1. GitOK'
      BY <2>1, <2>3 DEF WorkflowInv, GitOK
    <3>. QED BY <2>1, <2>3, <3>1, MergeGoesOn
  <2>. QED BY <1>5, <2>2, <2>3 DEF MergeRoot
<1>. QED BY <1>2, <1>3, <1>4, <1>5

LEMMA RemovingKeeps ==
  ASSUME WorkflowInv, NEW p \in Shells,
         StartRemove(p) \/ CheckClean(p) \/ worktree_remove(p) \/ branch_delete(p)
  PROVE  WorkflowInv'
<1>1. WellFormed(shell[p])
  BY DEF WorkflowInv, ShellsOK
<1>2. ASSUME StartRemove(p) \/ CheckClean(p)
      PROVE  WorkflowInv'
  <2>1. FilesOK' /\ GitOK' /\ UNCHANGED launchVars /\ shell[p].at \in GitSteps
    BY <1>2, FilesStay, GitStays, StepNames DEF StartRemove, CheckClean
  <2>2. GoOn(p, "clean") \/ GoOn(p, "remove_tree") \/ Become(p, Ready)
    BY <1>2 DEF StartRemove, CheckClean
  <2>. QED BY <2>1, <2>2, StepNames, QuietGoOn, QuietEnd
<1>3. ASSUME worktree_remove(p)
      PROVE  WorkflowInv'
  <2>1. /\ FilesOK' /\ UNCHANGED launchVars /\ shell[p].at \in GitSteps
        /\ UNCHANGED <<branch, root, gone>>
    BY <1>3, FilesStay, StepNames DEF worktree_remove
  <2>2. GitOK'
    BY <1>3, <2>1 DEF worktree_remove, WorkflowInv, GitOK
  <2>3. GoOn(p, "delete_branch") \/ Become(p, Ready)
    BY <1>3 DEF worktree_remove
  <2>. QED BY <2>1, <2>2, <2>3, StepNames, QuietGoOn, QuietEnd
<1>4. ASSUME branch_delete(p)
      PROVE  WorkflowInv'
  <2>1. /\ FilesOK' /\ UNCHANGED launchVars /\ shell[p].name \in Workspaces
        /\ UNCHANGED <<tree, root>> /\ Become(p, Ready)
    BY <1>1, <1>4, FilesStay, StepNames DEF branch_delete, WellFormed
  <2>2. DropBranch(shell[p].name) \/ UNCHANGED <<branch, gone>>
    BY <1>4 DEF branch_delete
  <2>3. GitOK'
    BY <2>1, <2>2, DropFacts DEF WorkflowInv, GitOK
  <2>. QED BY <2>1, <2>3, QuietEnd
<1>. QED BY <1>2, <1>3, <1>4

LEMMA ShippingKeeps ==
  ASSUME WorkflowInv, NEW p \in Shells, Shipping(p)
  PROVE  WorkflowInv'
BY VerifyKeeps, ShippingBegins, MergingKeeps, RemovingKeeps DEF Shipping

LEMMA HousekeepingKeeps ==
  ASSUME WorkflowInv, NEW p \in Shells, Housekeeping(p)
  PROVE  WorkflowInv'
<1>0. Ready \in WorkflowOperation
  BY ReadyFacts DEF WellFormed
<1>1. ASSUME NEW n \in Workspaces, workspace_create(p, n)
      PROVE  WorkflowInv'
  <2>1. FilesOK' /\ GitOK' /\ UNCHANGED launchVars /\ UNCHANGED shell
    BY <1>1, AddFacts, FilesStay DEF workspace_create
  <2>. QED BY <2>1, QuietWorld
<1>2. ASSUME NEW n \in Workspaces, NEW force \in BOOLEAN, workspace_remove(p, n, force)
      PROVE  WorkflowInv'
  <2> DEFINE o == [Ready EXCEPT !.at = "remove", !.kind = "remove", !.name = n, !.forced = force]
  <2>1. o \in WorkflowOperation /\ o.at = "remove" /\ o.name = n
    BY <1>0, StepNames DEF WorkflowOperation
  <2>2. UNCHANGED <<fileVarsW, launchVars, gitVars>> /\ Become(p, o)
    BY <1>2 DEF workspace_remove
  <2>. HIDE DEF o
  <2>. QED BY <2>1, <2>2, BeginKeeps
<1>3. ASSUME NEW n \in Workspaces, NEW target \in Targets, workspace_merge(p, n, target)
      PROVE  WorkflowInv'
  <2> DEFINE o == [Ready EXCEPT !.at = "merge", !.kind = "merge", !.name = n, !.target = target]
  <2>1. o \in WorkflowOperation /\ o.at = "merge" /\ o.name = n /\ o.target = target
    BY <1>0, StepNames DEF WorkflowOperation
  <2>2. UNCHANGED <<fileVarsW, launchVars, gitVars>> /\ Become(p, o)
    BY <1>3 DEF workspace_merge
  <2>. HIDE DEF o
  <2>. QED BY <2>1, <2>2, BeginKeeps
<1>. QED BY <1>1, <1>2, <1>3 DEF Housekeeping

LEMMA OutsideKeeps ==
  ASSUME WorkflowInv, Outside
  PROVE  WorkflowInv'
<1>1. \A l \in Launches : LeaseExpires(l) \/ AgentEnds(l) => WorkflowInv'
  BY LeaseKeeps, AgentEndsKeeps
<1>2. ASSUME NEW n \in Workspaces, EditTree(n)
      PROVE  WorkflowInv'
  <2>1. FilesOK' /\ UNCHANGED launchVars /\ UNCHANGED shell
    BY <1>2, FilesStay DEF EditTree
  <2>2. GitOK'
    BY <1>2 DEF EditTree, WorkflowInv, GitOK
  <2>. QED BY <2>1, <2>2, QuietWorld
<1>3. ASSUME NEW n \in Workspaces, NEW work \in Work, CommitTree(n, work)
      PROVE  WorkflowInv'
  <2>1. FilesOK' /\ UNCHANGED launchVars /\ UNCHANGED shell
    BY <1>3, FilesStay DEF CommitTree
  <2>2. n \in Branches /\ {work} \in SUBSET Work
    BY DEF Branches
  <2>3. branch' = [branch EXCEPT ![n].work = @ \cup {work}]
    BY <1>3 DEF CommitTree
  <2>4. /\ branch' \in [Branches -> [here : BOOLEAN, work : SUBSET Work]]
        /\ \A c \in Targets : branch'[c].here
    BY <2>2, <2>3, WorkAdded
  <2>5. GitOK'
    BY <1>3, <2>4 DEF CommitTree, WorkflowInv, GitOK
  <2>. QED BY <2>1, <2>5, QuietWorld
<1>4. ASSUME AbortMerge
      PROVE  WorkflowInv'
  <2>1. FilesOK' /\ UNCHANGED launchVars /\ UNCHANGED shell
    BY <1>4, FilesStay DEF AbortMerge
  <2>2. GitOK'
    BY <1>4 DEF AbortMerge, WorkflowInv, GitOK
  <2>. QED BY <2>1, <2>2, QuietWorld
<1>. QED BY <1>1, <1>2, <1>3, <1>4 DEF Outside

-----------------------------------------------------------------------------
(* The theorems *)

LEMMA WorkflowInitKeeps == WorkflowInit => WorkflowInv
<1> SUFFICES ASSUME WorkflowInit PROVE WorkflowInv
  OBVIOUS
<1>1. FilesOK
  BY WorkflowAssumption
  DEF WorkflowInit, FilesOK, PlanState, Execution, NoExecution, Verification, NoVerification
<1>2. LaunchesOK
  BY DEF WorkflowInit, LaunchesOK, LaunchRow, NoLaunchRow, Runners
<1>3. GitOK
  <2>1. /\ \A b \in Branches : [here |-> b \in Targets, work |-> {}]
                                \in [here : BOOLEAN, work : SUBSET Work]
        /\ [head |-> Main, conflict |-> FALSE] \in [head : Targets, conflict : BOOLEAN]
    BY WorkflowAssumption
  <2>2. \A b \in Targets : branch[b].here
    BY DEF WorkflowInit, Branches
  <2>. QED BY <2>1, <2>2 DEF WorkflowInit, GitOK
<1>4. ShellsOK
  <2>1. \A p \in Shells : shell[p] = Ready
    BY DEF WorkflowInit
  <2>. QED BY <2>1, ReadyFacts DEF WorkflowInit, ShellsOK, WellFormed
<1>5. /\ \A l \in Launches : launch[l].status = "ABSENT" /\ runner[l] = "none"
      /\ \A p \in Shells : shell[p].at = "idle"
  BY ReadyFacts DEF WorkflowInit, NoLaunchRow
<1>6. \A l \in Launches : ~Holds(l) /\ \A p \in Shells : ~Working(p, l)
  BY <1>5, StepNames DEF Working, Holds
<1>7. StartsOK
  BY <1>5, <1>6 DEF StartsOK, OneWorker, StartedHolds, OneHoldPerJob
<1>. QED BY <1>1, <1>2, <1>3, <1>4, <1>7 DEF WorkflowInv

LEMMA WorkflowStepKeeps == WorkflowInv /\ [WorkflowNext]_workflowVars => WorkflowInv'
<1> SUFFICES ASSUME WorkflowInv, [WorkflowNext]_workflowVars PROVE WorkflowInv'
  OBVIOUS
<1>1. \A p \in Shells : Executing(p) \/ Shipping(p) \/ Housekeeping(p) => WorkflowInv'
  BY ExecutingKeeps, ShippingKeeps, HousekeepingKeeps
<1>2. ASSUME NEW p \in Shells, ShellDies(p)
      PROVE  WorkflowInv'
  BY <1>2, FilesStay, GitStays, QuietEnd DEF ShellDies
<1>3. Outside => WorkflowInv'
  BY OutsideKeeps
<1>4. CASE UNCHANGED workflowVars
  <2>1. UNCHANGED <<fileVarsW, launchVars, gitVars>> /\ UNCHANGED shell
    BY <1>4 DEF workflowVars
  <2>. QED BY <2>1, FilesStay, GitStays, QuietWorld
<1>. QED BY <1>1, <1>2, <1>3, <1>4 DEF WorkflowNext

LEMMA WorkflowInvariant == WorkflowSpec => []WorkflowInv
BY WorkflowInitKeeps, WorkflowStepKeeps, PTL DEF WorkflowSpec

\* The state files, the registry as execute sees it, the branches and the
\* worktrees stay what they are read as, and so does every shell's command.
THEOREM WorkflowTypeCorrect == WorkflowSpec => []WorkflowTypeOK
<1>1. WorkflowInv => WorkflowTypeOK
  BY DEF WorkflowInv, FilesOK, LaunchesOK, GitOK, ShellsOK, WorkflowTypeOK
<1>. QED BY <1>1, WorkflowInvariant, PTL

\* Two agents that execute_task started for one task both run only when the
\* lease of one of them ran out before it was confirmed, or confirm_active
\* raised for one, however many shells execute the plan, fail half way and die.
THEOREM StartedAgentsAreOne == WorkflowSpec => []OneStartedAgent
<1>1. WorkflowInv => OneStartedAgent
  BY DEF WorkflowInv, StartsOK, StartedHolds, OneHoldPerJob, OneStartedAgent, TwinAgents, Running
<1>. QED BY <1>1, WorkflowInvariant, PTL

\* What git branch -d deletes is reachable from the root's branch.
LEMMA MergedLosesNothing ==
  ASSUME WorkflowInv, NEW n \in Workspaces, DropBranch(n),
         branch[n].work \subseteq branch[root.head].work
  PROVE  gone' = gone
<1>1. root.head \in Branches /\ root.head # n /\ branch[root.head].here
  BY HeadStays
<1>2. \A w \in branch[n].work : Reachable(n, w)
  BY <1>1 DEF Reachable
<1>. QED BY <1>2 DEF DropBranch

\* A step that loses a commit is the deletion of a branch by a command that
\* forces: a commit survives workspace remove without --force, a merge, and a
\* shell that dies, whatever other shells did since the command looked.
THEOREM RemovalsKeepCommits == WorkflowSpec => CommitsOutliveRemoval
<1> DEFINE Spared == \A p \in Shells : gone' # gone /\ shell'[p] # shell[p] => Forces(shell[p])
<1>1. ASSUME WorkflowInv, [WorkflowNext]_workflowVars
      PROVE  Spared
  <2>1. ASSUME NEW q \in Shells, branch_delete(q)
        PROVE  Spared
    <3>1. /\ shell[q].name \in Workspaces
          /\ \A p \in Shells : p # q => shell'[p] = shell[p]
      <4>1. WellFormed(shell[q]) /\ WellFormed(Ready) /\ Become(q, Ready)
        BY <1>1, <2>1, ReadyFacts DEF WorkflowInv, ShellsOK, branch_delete
      <4>. QED BY <1>1, <2>1, <4>1, StepNames, BecomeFacts DEF branch_delete, WellFormed
    <3>2. gone' = gone \/ Forces(shell[q])
      BY <1>1, <2>1, <3>1, MergedLosesNothing DEF branch_delete
    <3>. QED BY <3>1, <3>2
  <2>2. ASSUME NEW q \in Shells, Executing(q) \/ Housekeeping(q) \/ ShellDies(q)
        PROVE  gone' = gone
    BY <2>2 DEF Executing, outline, execute, RequestLaunch, ConfirmSpawning, CreateSession,
      LaunchAgent, ConfirmActive, Confirm, MarkFailed, CreateWorktree, SaveExecution,
      Housekeeping, workspace_create, workspace_remove, workspace_merge, ShellDies, gitVars
  <2>3. ASSUME NEW q \in Shells, Shipping(q), ~branch_delete(q)
        PROVE  gone' = gone
    BY <2>3 DEF Shipping, verify, SaveVerification, ship, ShipLoad,
      StartMerge, Checkout, MergeRoot, StartRemove, CheckClean, worktree_remove, gitVars
  <2>4. ASSUME Outside
        PROVE  gone' = gone
    BY <2>4 DEF Outside, LeaseExpires, AgentEnds, EditTree, CommitTree, AbortMerge, gitVars
  <2>5. CASE UNCHANGED workflowVars
    BY <2>5 DEF workflowVars, gitVars
  <2>. QED BY <1>1, <2>1, <2>2, <2>3, <2>4, <2>5 DEF WorkflowNext
<1>2. WorkflowInv /\ [WorkflowNext]_workflowVars => [Spared]_workflowVars
  BY <1>1
<1>. QED BY <1>2, WorkflowInvariant, PTL DEF WorkflowSpec, CommitsOutliveRemoval

-----------------------------------------------------------------------------
(*****************************************************************************)
(* The slots of the claims.  Agents implements LaunchSlots, through          *)
(* ClaimSlots: a compare-and-set moves one launch on, and request_launch     *)
(* takes a key for which no launch is in use.                                *)
(*****************************************************************************)

\* A step that claims nothing and moves at most launch g on.
LEMMA ClaimMoves ==
  ASSUME AgentsInv, NEW g,
         \A a \in Attempts :
           /\ claim'[a].key = claim[a].key
           /\ claim'[a].status = "ABSENT" <=> claim[a].status = "ABSENT"
           /\ Used(a)' => Used(a)
           /\ a # g => (Used(a) => Used(a)')
  PROVE  [ClaimSlots!Next]_(ClaimSlots!slotVars)
<1> DEFINE heldBar == [k \in AgentKeys |-> InUseOf(k)]
<1>1. /\ \A k : InUseOf(k) = {a \in Attempts : claim[a].key = k /\ Used(a)}
      /\ \A k : InUseOf(k)' = {a \in Attempts : claim'[a].key = k /\ Used(a)'}
  BY DEF InUseOf, Used, UsedStatuses
<1>2. {a \in Attempts : claim[a].status # "ABSENT"}'
        = {a \in Attempts : claim[a].status # "ABSENT"}
  OBVIOUS
<1>3. CASE g \in Attempts /\ Used(g) /\ ~Used(g)'
  <2>1. PICK k \in AgentKeys : k = claim[g].key
    <3>1. claim[g].key \in AgentKeys \cup {None} BY <1>3 DEF AgentsInv, AgentsTypeOK
    <3>2. claim[g].key # None BY <1>3 DEF AgentsInv, Known, Used, UsedStatuses
    <3> QED BY <3>1, <3>2
  <2>2. g \in InUseOf(k) BY <1>1, <1>3, <2>1
  <2>3. \A j \in AgentKeys : InUseOf(j)' = IF j = k THEN InUseOf(k) \ {g} ELSE InUseOf(j)
    BY <1>1, <1>3, <2>1
  <2>4. heldBar' = [heldBar EXCEPT ![k] = heldBar[k] \ {g}] BY <2>3
  <2>5. ClaimSlots!Release(k, g) BY <1>2, <2>2, <2>4 DEF ClaimSlots!Release
  <2> QED BY <1>3, <2>5 DEF ClaimSlots!Next
<1>4. CASE ~(g \in Attempts /\ Used(g) /\ ~Used(g)')
  <2>1. \A a \in Attempts : Used(a)' <=> Used(a) BY <1>4
  <2>2. \A j \in AgentKeys : InUseOf(j)' = InUseOf(j) BY <1>1, <2>1
  <2>3. heldBar' = heldBar BY <2>2
  <2> QED BY <1>2, <2>3 DEF ClaimSlots!slotVars
<1> QED BY <1>3, <1>4

\* A compare-and-set, of any launch, whose result is in use only if what it
\* expected was.
LEMMA CasMoves ==
  ASSUME AgentsInv, NEW g \in 0..MaxAttempts, NEW from \in SUBSET (ClaimStatus \ {"ABSENT"}),
         NEW to \in ClaimStatus \ {"ABSENT"}, Cas(g, from, to),
         to \in UsedStatuses => from \subseteq UsedStatuses
  PROVE  [ClaimSlots!Next]_(ClaimSlots!slotVars)
<1>1. \A a \in Attempts :
        /\ claim'[a].key = claim[a].key
        /\ claim'[a].status = IF a = g /\ claim[a].status \in from THEN to ELSE claim[a].status
  BY CasFacts
<1>2. \A a \in Attempts :
        /\ claim'[a].key = claim[a].key
        /\ claim'[a].status = "ABSENT" <=> claim[a].status = "ABSENT"
        /\ Used(a)' => Used(a)
        /\ a # g => (Used(a) => Used(a)')
  BY <1>1 DEF Used
<1> QED BY <1>2, ClaimMoves

\* request_launch takes a slot that is free.
LEMMA ClaimTakes ==
  ASSUME AgentsInv, NEW q, NEW k \in AgentKeys, Claim(q, k)
  PROVE  ClaimSlots!Next
<1> DEFINE heldBar == [j \in AgentKeys |-> InUseOf(j)]
<1>1. PICK a \in Attempts :
        /\ ~InUse(k) /\ claim[a].status = "ABSENT"
        /\ claim' = [claim EXCEPT ![a] = [status |-> "RESERVED", key |-> k]]
  BY DEF Claim
<1>2. /\ claim'[a].status = "RESERVED" /\ claim'[a].key = k
      /\ \A b \in Attempts \ {a} : claim'[b] = claim[b]
  BY <1>1 DEF AgentsInv, AgentsTypeOK
<1>3. InUseOf(k) = {} BY <1>1 DEF InUse, InUseOf
<1>4. \A j \in AgentKeys : InUseOf(j)' = IF j = k THEN {a} ELSE InUseOf(j)
  <2>1. \A j \in AgentKeys : \A b \in Attempts \ {a} : b \in InUseOf(j)' <=> b \in InUseOf(j)
    BY <1>2 DEF InUseOf
  <2>2. \A j \in AgentKeys : a \in InUseOf(j)' <=> j = k
    BY <1>2 DEF InUseOf
  <2>3. \A j \in AgentKeys : a \notin InUseOf(j) BY <1>1 DEF InUseOf
  <2>4. \A j \in AgentKeys : InUseOf(j) \subseteq Attempts /\ InUseOf(j)' \subseteq Attempts
    BY DEF InUseOf
  <2> QED BY <1>3, <2>1, <2>2, <2>3, <2>4
<1>5. heldBar' = [heldBar EXCEPT ![k] = {a}] BY <1>4
<1>6. {b \in Attempts : claim[b].status # "ABSENT"}'
        = {b \in Attempts : claim[b].status # "ABSENT"} \cup {a}
  BY <1>1, <1>2
<1>7. ClaimSlots!Acquire(k, a) BY <1>1, <1>3, <1>5, <1>6 DEF ClaimSlots!Acquire
<1> QED BY <1>7 DEF ClaimSlots!Next

\* Every step of Agents takes a slot, gives one back, or leaves them alone.
LEMMA AgentsMoveSlots ==
  AgentsInv /\ [AgentsNext]_agentVars => [ClaimSlots!Next]_(ClaimSlots!slotVars)
<1> SUFFICES ASSUME AgentsInv, [AgentsNext]_agentVars
             PROVE  [ClaimSlots!Next]_(ClaimSlots!slotVars)
  OBVIOUS
<1>0. ASSUME UNCHANGED claim PROVE [ClaimSlots!Next]_(ClaimSlots!slotVars)
  <2>1. \A a \in Attempts :
          /\ claim'[a].key = claim[a].key
          /\ claim'[a].status = "ABSENT" <=> claim[a].status = "ABSENT"
          /\ Used(a)' => Used(a)
          /\ a # 0 => (Used(a) => Used(a)')
    BY <1>0 DEF Used
  <2> QED BY <2>1, ClaimMoves
<1>s. /\ {"RESERVED"} \subseteq UsedStatuses /\ {"SPAWNING"} \subseteq UsedStatuses
      /\ {"ACTIVE"} \subseteq UsedStatuses /\ {"TERMINATING"} \subseteq UsedStatuses
      /\ "TERMINATED" \notin UsedStatuses /\ "FAILED" \notin UsedStatuses
      /\ {"RESERVED", "SPAWNING", "ACTIVE", "QUARANTINED"} \in SUBSET (ClaimStatus \ {"ABSENT"})
      /\ {"RESERVED"} \in SUBSET (ClaimStatus \ {"ABSENT"})
      /\ {"SPAWNING"} \in SUBSET (ClaimStatus \ {"ABSENT"})
      /\ {"ACTIVE"} \in SUBSET (ClaimStatus \ {"ABSENT"})
      /\ {"TERMINATING"} \in SUBSET (ClaimStatus \ {"ABSENT"})
      /\ {"SPAWNING", "ACTIVE", "TERMINATING", "TERMINATED", "FAILED"}
           \subseteq ClaimStatus \ {"ABSENT"}
  BY DEF UsedStatuses, ClaimStatus
<1>1. ASSUME NEW q \in AgentProcs,
             \/ SpawnConfirmed(q) \/ SpawnActive(q) \/ SpawnFailed(q)
             \/ q = Server /\ (ApiActive \/ ApiSession)
      PROVE  [ClaimSlots!Next]_(ClaimSlots!slotVars)
  <2>1. call[q].attempt \in 0..MaxAttempts
    BY <1>1, AttemptOf DEF SpawnConfirmed, SpawnActive, ApiActive, ApiSession, SpawnFailed, At
  <2>2. CASE SpawnConfirmed(q)
    BY <1>s, <2>1, <2>2, CasMoves DEF SpawnConfirmed
  <2>3. CASE SpawnActive(q) \/ (q = Server /\ (ApiActive \/ ApiSession))
    <3>1. UNCHANGED claim \/ Cas(call[q].attempt, {"SPAWNING"}, "ACTIVE")
      BY <2>3 DEF SpawnActive, ApiActive, ApiSession
    <3> QED BY <1>0, <1>s, <2>1, <3>1, CasMoves
  <2>4. CASE SpawnFailed(q)
    BY <1>s, <2>1, <2>4, CasMoves DEF SpawnFailed
  <2> QED BY <1>1, <2>2, <2>3, <2>4
<1>2. ASSUME NEW q \in AgentProcs, TerminationBegins(q) \/ TerminationConfirmed(q)
      PROVE  [ClaimSlots!Next]_(ClaimSlots!slotVars)
  <2>1. PICK g \in 0..MaxAttempts : g = get_active_launch(claim[call[q].attempt].key)
    BY ActiveIsOfKey
  <2>2. CASE TerminationBegins(q)
    <3>1. Cas(g, {"ACTIVE"}, "TERMINATING") BY <2>1, <2>2 DEF TerminationBegins
    <3> QED BY <1>s, <3>1, CasMoves
  <2>3. CASE TerminationConfirmed(q)
    <3>1. Cas(g, {"TERMINATING"}, "TERMINATED") BY <2>1, <2>3 DEF TerminationConfirmed
    <3> QED BY <1>s, <3>1, CasMoves
  <2> QED BY <1>2, <2>2, <2>3
<1>3. ASSUME NEW a \in Attempts, ClaimExpires(a)
      PROVE  [ClaimSlots!Next]_(ClaimSlots!slotVars)
  <2>1. claim' = [claim EXCEPT ![a] = [claim[a] EXCEPT !.status = "QUARANTINED"]]
    BY <1>3 DEF ClaimExpires
  <2>2. claim[a] \in [status : ClaimStatus, key : AgentKeys \cup {None}]
    BY DEF AgentsInv, AgentsTypeOK
  <2>3. /\ claim'[a].status = "QUARANTINED" /\ claim'[a].key = claim[a].key
        /\ \A b \in Attempts \ {a} : claim'[b] = claim[b]
    BY <2>1, <2>2 DEF AgentsInv, AgentsTypeOK
  <2>4. \A b \in Attempts :
          /\ claim'[b].key = claim[b].key
          /\ claim'[b].status = "ABSENT" <=> claim[b].status = "ABSENT"
          /\ Used(b)' => Used(b)
          /\ b # a => (Used(b) => Used(b)')
    BY <1>3, <2>3 DEF ClaimExpires, Used, UsedStatuses
  <2> QED BY <2>4, ClaimMoves
<1>4. ASSUME NEW m \in Managers, Managing(m)
      PROVE  [ClaimSlots!Next]_(ClaimSlots!slotVars)
  <2>1. CASE \E n \in AgentNames : spawn_agent(m, n)
    BY <2>1, ClaimTakes DEF spawn_agent, AgentKeys
  <2>2. CASE SpawnActive(m)
    BY <1>1, <2>2, Processes
  <2>3. CASE \/ \E a \in Attempts : terminate_agent(m, a)
             \/ SpawnSession(m) \/ SpawnWait(m) \/ Terminate(m)
             \/ reconcile_sessions(m) \/ ManagerDies(m)
    BY <1>0, <2>3 DEF terminate_agent, SpawnSession, SpawnWait, Terminate, reconcile_sessions,
                      ManagerDies
  <2> QED BY <1>4, <2>1, <2>2, <2>3 DEF Managing
<1>5. ASSUME NEW q \in AgentProcs, Shared(q)
      PROVE  [ClaimSlots!Next]_(ClaimSlots!slotVars)
  <2>1. CASE \E a \in Attempts : cleanup_orphan(q, a)
    BY <1>0, <2>1 DEF cleanup_orphan
  <2>2. CASE RegistryRaises(q)
    BY <1>0, <2>2 DEF RegistryRaises
  <2> QED BY <1>1, <1>2, <1>5, <2>1, <2>2 DEF Shared
<1>6. CASE Serving
  <2>1. CASE \E t \in ApiTasks : create_session(t)
    BY <2>1, ClaimTakes DEF create_session, AgentKeys
  <2>2. CASE ApiActive \/ ApiSession
    BY <1>1, <2>2, Processes
  <2>3. CASE \/ startup \/ StartupDone \/ ServerDies \/ ApiLaunch \/ ApiStore
             \/ \E a \in Attempts : delete_session(a)
             \/ ApiKill \/ ApiForget
    BY <1>0, <2>3 DEF startup, StartupDone, ServerDies, ApiLaunch, ApiStore,
                      delete_session, ApiKill, ApiForget
  <2> QED BY <1>6, <2>1, <2>2, <2>3 DEF Serving
<1>7. ASSUME NEW a \in Attempts, SessionEnds(a)
      PROVE  [ClaimSlots!Next]_(ClaimSlots!slotVars)
  BY <1>0, <1>7 DEF SessionEnds
<1>8. CASE UNCHANGED agentVars
  BY <1>0, <1>8 DEF agentVars
<1> QED BY <1>3, <1>4, <1>5, <1>6, <1>7, <1>8 DEF AgentsNext

\* At the start every slot is free.
LEMMA AgentsStartWithFreeSlots == AgentsInit => ClaimSlots!Init
<1> SUFFICES ASSUME AgentsInit PROVE ClaimSlots!Init
  OBVIOUS
<1>1. \A a \in Attempts : claim[a].status = "ABSENT" BY DEF AgentsInit
<1>2. \A k \in AgentKeys : InUseOf(k) = {} BY <1>1 DEF InUseOf
<1>3. {a \in Attempts : claim[a].status # "ABSENT"} = {} BY <1>1
<1> QED BY <1>2, <1>3 DEF ClaimSlots!Init

\* What the agent managers and the API server do to the registry, through
\* compare-and-sets whose failure is only logged, expired leases and deaths,
\* is what LaunchSlots promises: one slot per name or task.
THEOREM ClaimsRefineSlots == AgentsSpec => ClaimsTakeSlots
BY AgentsInitKeeps, AgentsStepKeeps, AgentsStartWithFreeSlots, AgentsMoveSlots, PTL
   DEF AgentsSpec, ClaimsTakeSlots, ClaimSlots!Spec

-----------------------------------------------------------------------------
(*****************************************************************************)
(* The slots of the tasks.  Workflow implements LaunchSlots, through         *)
(* JobSlots.                                                                 *)
(*****************************************************************************)

\* A step that claims nothing and moves at most launch g on.
LEMMA LaunchMoves ==
  ASSUME WorkflowInv, NEW g \in Launches,
         \A l \in Launches :
           /\ launch'[l].job = launch[l].job
           /\ launch'[l].status = "ABSENT" <=> launch[l].status = "ABSENT"
           /\ Holds(l)' => Holds(l)
           /\ l # g => (Holds(l) => Holds(l)')
  PROVE  [JobSlots!Next]_(JobSlots!slotVars)
<1> DEFINE heldBar == [j \in Jobs |-> LaunchOf(j)]
<1>1. /\ \A j : LaunchOf(j) = {l \in Launches : launch[l].job = j /\ Holds(l)}
      /\ \A j : LaunchOf(j)' = {l \in Launches : launch'[l].job = j /\ Holds(l)'}
  BY DEF LaunchOf, Holds
<1>2. {l \in Launches : launch[l].status # "ABSENT"}'
        = {l \in Launches : launch[l].status # "ABSENT"}
  OBVIOUS
<1>3. ASSUME Holds(g), ~Holds(g)', launch[g].job \in Jobs
      PROVE  JobSlots!Next
  <2>1. PICK k \in Jobs : k = launch[g].job BY <1>3
  <2>2. g \in LaunchOf(k) BY <1>1, <1>3, <2>1
  <2>3. \A j \in Jobs : LaunchOf(j)' = IF j = k THEN LaunchOf(k) \ {g} ELSE LaunchOf(j)
    BY <1>1, <1>3, <2>1
  <2>4. heldBar' = [heldBar EXCEPT ![k] = heldBar[k] \ {g}] BY <2>3
  <2>5. JobSlots!Release(k, g) BY <1>2, <2>2, <2>4 DEF JobSlots!Release
  <2> QED BY <2>5 DEF JobSlots!Next
<1>4. CASE ~(Holds(g) /\ ~Holds(g)' /\ launch[g].job \in Jobs)
  <2>1. \A l \in Launches : launch[l].job \in Jobs => (Holds(l)' <=> Holds(l)) BY <1>4
  <2>2. \A j \in Jobs : LaunchOf(j)' = LaunchOf(j) BY <1>1, <2>1
  <2>3. heldBar' = heldBar BY <2>2
  <2> QED BY <1>2, <2>3 DEF JobSlots!slotVars
<1> QED BY <1>3, <1>4

\* A launch that is open gets another status.
LEMMA StatusMoves ==
  ASSUME WorkflowInv, NEW l \in Launches, launch[l].status # "ABSENT",
         NEW s \in {"SPAWNING", "ACTIVE", "FAILED", "QUARANTINED"},
         launch' = [launch EXCEPT ![l].status = s],
         s \in {"SPAWNING", "ACTIVE"} => Holds(l)
  PROVE  [JobSlots!Next]_(JobSlots!slotVars)
<1>1. /\ launch'[l].status = s
      /\ \A m \in Launches : launch'[m].job = launch[m].job
      /\ \A m \in Launches : m # l => launch'[m] = launch[m]
  BY StatusRow
<1>2. \A m \in Launches :
        /\ launch'[m].job = launch[m].job
        /\ launch'[m].status = "ABSENT" <=> launch[m].status = "ABSENT"
        /\ Holds(m)' => Holds(m)
        /\ m # l => (Holds(m) => Holds(m)')
  BY <1>1 DEF Holds
<1> QED BY <1>2, LaunchMoves

\* request_launch takes a slot that is free.
LEMMA RequestTakes ==
  ASSUME WorkflowInv, NEW p \in Shells, RequestLaunch(p), launch' # launch
  PROVE  JobSlots!Next
<1> DEFINE heldBar == [j \in Jobs |-> LaunchOf(j)]
<1>1. PICK l \in Launches :
        /\ ~Blocked(shell[p].job) /\ launch[l].status = "ABSENT"
        /\ launch' = [launch EXCEPT ![l] = [status |-> "RESERVED", job |-> shell[p].job]]
  BY DEF RequestLaunch
<1>2. PICK k \in Jobs : k = shell[p].job
  BY DEF RequestLaunch, WorkflowInv, ShellsOK, WellFormed
<1>3. /\ launch'[l].status = "RESERVED" /\ launch'[l].job = k
      /\ \A m \in Launches \ {l} : launch'[m] = launch[m]
  BY <1>1, <1>2 DEF WorkflowInv, LaunchesOK
<1>4. LaunchOf(k) = {} BY <1>1, <1>2 DEF Blocked, LaunchOf
<1>5. \A j \in Jobs : LaunchOf(j)' = IF j = k THEN {l} ELSE LaunchOf(j)
  <2>1. \A j \in Jobs : \A m \in Launches \ {l} : m \in LaunchOf(j)' <=> m \in LaunchOf(j)
    BY <1>3 DEF LaunchOf
  <2>2. \A j \in Jobs : l \in LaunchOf(j)' <=> j = k
    BY <1>3 DEF LaunchOf
  <2>3. \A j \in Jobs : l \notin LaunchOf(j) BY <1>1 DEF LaunchOf
  <2>4. \A j \in Jobs : LaunchOf(j) \subseteq Launches /\ LaunchOf(j)' \subseteq Launches
    BY DEF LaunchOf
  <2> QED BY <1>4, <2>1, <2>2, <2>3, <2>4
<1>6. heldBar' = [heldBar EXCEPT ![k] = {l}] BY <1>5
<1>7. {m \in Launches : launch[m].status # "ABSENT"}'
        = {m \in Launches : launch[m].status # "ABSENT"} \cup {l}
  BY <1>1, <1>3
<1>8. JobSlots!Acquire(k, l) BY <1>1, <1>4, <1>6, <1>7 DEF JobSlots!Acquire
<1> QED BY <1>8 DEF JobSlots!Next

\* Every step of Workflow takes a slot, gives one back, or leaves them alone.
LEMMA WorkflowMovesSlots ==
  WorkflowInv /\ [WorkflowNext]_workflowVars => [JobSlots!Next]_(JobSlots!slotVars)
<1> SUFFICES ASSUME WorkflowInv, [WorkflowNext]_workflowVars
             PROVE  [JobSlots!Next]_(JobSlots!slotVars)
  OBVIOUS
<1>0. ASSUME UNCHANGED launch PROVE [JobSlots!Next]_(JobSlots!slotVars)
  BY <1>0 DEF JobSlots!slotVars, LaunchOf
<1>1. ASSUME NEW p \in Shells, Executing(p)
      PROVE  [JobSlots!Next]_(JobSlots!slotVars)
  <2>1. CASE RequestLaunch(p)
    BY <1>0, <2>1, RequestTakes
  <2>2. ASSUME shell[p].at \in LaunchSteps
        PROVE  \E l \in Launches : l = shell[p].launch /\ launch[l].status # "ABSENT"
    BY <2>2, Worker DEF WorkflowInv, StartsOK, OneWorker
  <2>3. CASE ConfirmSpawning(p)
    <3>1. PICK l \in Launches : l = shell[p].launch /\ launch[l].status # "ABSENT"
      BY <2>2, <2>3, StepNames DEF ConfirmSpawning
    <3>2. launch' = IF launch[l].status = "RESERVED" THEN [launch EXCEPT ![l].status = "SPAWNING"]
                    ELSE launch
      BY <2>3, <3>1 DEF ConfirmSpawning, Confirm
    <3> QED BY <1>0, <3>1, <3>2, StatusMoves DEF Holds
  <2>4. CASE ConfirmActive(p)
    <3>1. PICK l \in Launches : l = shell[p].launch /\ launch[l].status # "ABSENT"
      BY <2>2, <2>4, StepNames DEF ConfirmActive
    <3>2. \/ launch' = launch
          \/ /\ launch[l].status = "SPAWNING"
             /\ launch' = [launch EXCEPT ![l].status = "ACTIVE"]
      BY <2>4, <3>1 DEF ConfirmActive, Confirm
    <3> QED BY <1>0, <3>1, <3>2, StatusMoves DEF Holds
  <2>5. CASE MarkFailed(p)
    <3>1. PICK l \in Launches : l = shell[p].launch /\ launch[l].status # "ABSENT"
      BY <2>2, <2>5, StepNames DEF MarkFailed
    <3>2. launch' = [launch EXCEPT ![l].status = "FAILED"] \/ launch' = launch
      BY <2>5, <3>1 DEF MarkFailed
    <3> QED BY <1>0, <3>1, <3>2, StatusMoves
  <2>6. CASE \/ \E j \in Jobs : outline(p, j)
             \/ execute(p) \/ CreateSession(p) \/ LaunchAgent(p) \/ CreateWorktree(p)
             \/ SaveExecution(p)
    BY <1>0, <2>6 DEF outline, execute, CreateSession, LaunchAgent, CreateWorktree,
                      SaveExecution, launchVars
  <2> QED BY <1>1, <2>1, <2>3, <2>4, <2>5, <2>6 DEF Executing
<1>2. ASSUME NEW p \in Shells, Shipping(p)
      PROVE  [JobSlots!Next]_(JobSlots!slotVars)
  BY <1>0, <1>2
  DEF Shipping, verify, SaveVerification, ship, ShipLoad, StartMerge, Checkout,
      MergeRoot, StartRemove, CheckClean, worktree_remove, branch_delete, launchVars
<1>3. ASSUME NEW p \in Shells, Housekeeping(p)
      PROVE  [JobSlots!Next]_(JobSlots!slotVars)
  BY <1>0, <1>3
  DEF Housekeeping, workspace_create, workspace_remove, workspace_merge, launchVars
<1>4. ASSUME NEW l \in Launches, LeaseExpires(l)
      PROVE  [JobSlots!Next]_(JobSlots!slotVars)
  BY <1>4, StatusMoves DEF LeaseExpires
<1>5. CASE \/ \E l \in Launches : AgentEnds(l)
           \/ \E n \in Workspaces : EditTree(n) \/ \E work \in Work : CommitTree(n, work)
           \/ AbortMerge
  BY <1>0, <1>5 DEF AgentEnds, EditTree, CommitTree, AbortMerge, launchVars
<1>6. ASSUME NEW p \in Shells, ShellDies(p)
      PROVE  [JobSlots!Next]_(JobSlots!slotVars)
  BY <1>0, <1>6 DEF ShellDies, launchVars
<1>7. CASE UNCHANGED workflowVars
  BY <1>0, <1>7 DEF workflowVars, launchVars
<1> QED BY <1>1, <1>2, <1>3, <1>4, <1>5, <1>6, <1>7 DEF WorkflowNext, Outside

\* At the start every slot is free.
LEMMA WorkflowStartsWithFreeSlots == WorkflowInit => JobSlots!Init
<1> SUFFICES ASSUME WorkflowInit PROVE JobSlots!Init
  OBVIOUS
<1>1. \A l \in Launches : launch[l].status = "ABSENT" BY DEF WorkflowInit, NoLaunchRow
<1>2. \A j \in Jobs : LaunchOf(j) = {} BY <1>1 DEF LaunchOf
<1>3. {l \in Launches : launch[l].status # "ABSENT"} = {} BY <1>1
<1> QED BY <1>2, <1>3 DEF JobSlots!Init

\* What workflow execute does to the registry, with shells that die and agents
\* that do not come up, is what LaunchSlots promises: one slot per task.
THEOREM ExecutionsRefineSlots == WorkflowSpec => JobsTakeSlots
BY WorkflowInitKeeps, WorkflowStepKeeps, WorkflowStartsWithFreeSlots, WorkflowMovesSlots, PTL
   DEF WorkflowSpec, JobsTakeSlots, JobSlots!Spec

-----------------------------------------------------------------------------
(*****************************************************************************)
(* Contracts.  A plan is shipped under the first of its contracts, for every *)
(* number of servers, plans and verifications.                               *)
(*                                                                           *)
(* The request that ships reads the contract in one transaction and writes   *)
(* it in another: the inductive invariant says that what it has read is      *)
(* still the first of its plan, which holds because contracts are only       *)
(* ever appended and keep their plan.                                        *)
(*****************************************************************************)

Shipments == [at : {"idle", "load", "update"}, plan : PlanIds \cup {None}, contract : Nat]

IsFirst(c, aPlan) ==
  /\ c \in DOMAIN contracts
  /\ contracts[c].plan = aPlan
  /\ \A d \in DOMAIN contracts : contracts[d].plan = aPlan => c <= d

ContractsInv ==
  /\ contracts \in Seq(Contract)
  /\ shipping \in [Servers -> Shipments]
  /\ \A p \in Servers :
       shipping[p].at # "idle" => IsFirst(shipping[p].contract, shipping[p].plan)
  /\ ShippedUnderOne

LEMMA NoShipmentIsIdle == NoShipment \in Shipments /\ NoShipment.at = "idle"
BY DEF NoShipment, Shipments

LEMMA ContractsInitEstablishes == ContractsInit => ContractsInv
BY NoShipmentIsIdle DEF ContractsInit, ContractsInv, ShippedUnderOne

LEMMA VerifyPlanKeeps ==
  ASSUME ContractsInv, NEW p \in Servers, NEW aPlan \in PlanIds, verify_plan(p, aPlan)
  PROVE  ContractsInv'
<1> DEFINE new == [plan |-> aPlan, state |-> "verify_passed", evidence |-> TRUE]
<1>1. new \in Contract /\ new.plan = aPlan /\ new.state # "shipped"
  BY DEF Contract, PromiseState
<1>2. contracts' = Append(contracts, new) /\ UNCHANGED shipping
  BY DEF verify_plan, SaveContract
<1> HIDE DEF new
<1>3. contracts \in Seq(Contract)
  BY DEF ContractsInv
<1>4. /\ contracts' \in Seq(Contract)
      /\ DOMAIN contracts' = DOMAIN contracts \cup {Len(contracts) + 1}
      /\ contracts'[Len(contracts) + 1] = new
      /\ \A c \in DOMAIN contracts : contracts'[c] = contracts[c]
      /\ \A c \in DOMAIN contracts : c \in Nat /\ c <= Len(contracts)
  BY <1>1, <1>2, <1>3
<1>5. ASSUME NEW c \in Nat, NEW q \in PlanIds \cup {None}, IsFirst(c, q)
      PROVE  IsFirst(c, q)'
  <2>1. c \in DOMAIN contracts' /\ contracts'[c].plan = q
    BY <1>4, <1>5 DEF IsFirst
  <2>2. ASSUME NEW d \in DOMAIN contracts', contracts'[d].plan = q
        PROVE  c <= d
    <3>1. CASE d \in DOMAIN contracts
      BY <1>4, <1>5, <2>2, <3>1 DEF IsFirst
    <3>2. CASE d = Len(contracts) + 1
      BY <1>3, <1>4, <1>5, <3>2 DEF IsFirst
    <3>. QED BY <1>4, <3>1, <3>2
  <2>. QED BY <2>1, <2>2 DEF IsFirst
<1>6. ASSUME NEW q \in Servers, shipping'[q].at # "idle"
      PROVE  IsFirst(shipping[q].contract, shipping[q].plan)'
  <2>1. /\ shipping[q].contract \in Nat /\ shipping[q].plan \in PlanIds \cup {None}
        /\ IsFirst(shipping[q].contract, shipping[q].plan)
    BY <1>2, <1>6 DEF ContractsInv, Shipments
  <2>2. shipping'[q] = shipping[q]
    BY <1>2
  <2>3. IsFirst(shipping[q].contract, shipping[q].plan)' <=>
          /\ shipping[q].contract \in DOMAIN contracts'
          /\ contracts'[shipping[q].contract].plan = shipping[q].plan
          /\ \A d \in DOMAIN contracts' : contracts'[d].plan = shipping[q].plan => shipping[q].contract <= d
    BY <1>2, <2>2 DEF IsFirst
  <2>. QED BY <1>5, <2>1, <2>3 DEF IsFirst
<1>7. ShippedUnderOne'
  <2> SUFFICES ASSUME NEW c \in DOMAIN contracts', NEW d \in DOMAIN contracts',
                      contracts'[c].plan = contracts'[d].plan, contracts'[c].state = "shipped"
               PROVE  c <= d
    BY DEF ShippedUnderOne
  <2>1. c \in DOMAIN contracts
    BY <1>1, <1>4
  <2>2. CASE d \in DOMAIN contracts
    BY <1>4, <2>1, <2>2 DEF ContractsInv, ShippedUnderOne
  <2>3. CASE d = Len(contracts) + 1
    BY <1>3, <1>4, <2>1, <2>3
  <2>. QED BY <1>4, <2>2, <2>3
<1>. QED BY <1>2, <1>4, <1>6, <1>7 DEF ContractsInv

\* A request that only moves: what it holds is the first of its plan, or it
\* holds nothing any more.
LEMMA ShipmentMoveKeeps ==
  ASSUME ContractsInv, NEW p \in Servers, NEW s \in Shipments,
         contracts' = contracts, shipping' = [shipping EXCEPT ![p] = s],
         s.at # "idle" => IsFirst(s.contract, s.plan)
  PROVE  ContractsInv'
<1>1. shipping' \in [Servers -> Shipments]
  BY DEF ContractsInv, Shipments
<1>2. ASSUME NEW q \in Servers, shipping'[q].at # "idle"
      PROVE  IsFirst(shipping'[q].contract, shipping'[q].plan)
  <2>1. CASE q = p
    BY <1>2, <2>1 DEF ContractsInv
  <2>2. CASE q # p
    BY <1>2, <2>2 DEF ContractsInv
  <2>. QED BY <2>1, <2>2
<1>. QED BY <1>1, <1>2 DEF ContractsInv, Shipments, IsFirst, ShippedUnderOne

LEMMA ShipPlanKeeps ==
  ASSUME ContractsInv, NEW p \in Servers, NEW aPlan \in PlanIds, ship_plan(p, aPlan)
  PROVE  ContractsInv'
<1>1. PICK c \in get_by_plan_id(aPlan) :
        shipping' = [shipping EXCEPT ![p] = [at |-> "load", plan |-> aPlan, contract |-> c]]
  BY DEF ship_plan
<1>2. IsFirst(c, aPlan) /\ c \in Nat
  BY DEF get_by_plan_id, FirstOf, OfPlan, IsFirst, ContractsInv
<1> DEFINE s == [at |-> "load", plan |-> aPlan, contract |-> c]
<1>3. s \in Shipments /\ s.contract = c /\ s.plan = aPlan
  BY <1>2 DEF Shipments
<1>4. shipping' = [shipping EXCEPT ![p] = s] /\ UNCHANGED contracts
  BY <1>1 DEF ship_plan
<1> HIDE DEF s
<1>. QED BY <1>2, <1>3, <1>4, ShipmentMoveKeeps

LEMMA LoadKeeps ==
  ASSUME ContractsInv, NEW p \in Servers, LoadContract(p)
  PROVE  ContractsInv'
<1> DEFINE s == [shipping[p] EXCEPT !.at = "update"]
<1>1. /\ shipping[p] \in Shipments /\ shipping[p].at = "load"
      /\ IsFirst(shipping[p].contract, shipping[p].plan)
  BY DEF ContractsInv, LoadContract, Shipments
<1>2. s \in Shipments /\ s.contract = shipping[p].contract /\ s.plan = shipping[p].plan
  BY <1>1 DEF Shipments
<1>3. /\ UNCHANGED contracts
      /\ \/ shipping' = [shipping EXCEPT ![p] = s]
         \/ shipping' = [shipping EXCEPT ![p] = NoShipment]
  BY DEF LoadContract
<1> HIDE DEF s
<1>4. CASE shipping' = [shipping EXCEPT ![p] = s]
  BY <1>1, <1>2, <1>3, <1>4, ShipmentMoveKeeps
<1>5. CASE shipping' = [shipping EXCEPT ![p] = NoShipment]
  BY <1>3, <1>5, ShipmentMoveKeeps, NoShipmentIsIdle
<1>. QED BY <1>3, <1>4, <1>5

LEMMA UpdateKeeps ==
  ASSUME ContractsInv, NEW p \in Servers, update_state(p)
  PROVE  ContractsInv'
<1> DEFINE c == shipping[p].contract
<1>1. IsFirst(c, shipping[p].plan)
  BY DEF update_state, ContractsInv
<1>2. /\ contracts' = [contracts EXCEPT ![c].state = "shipped"]
      /\ shipping' = [shipping EXCEPT ![p] = NoShipment]
  BY DEF update_state
<1>3. contracts \in Seq(Contract) /\ c \in DOMAIN contracts
  BY <1>1 DEF ContractsInv, IsFirst
<1>4. [contracts[c] EXCEPT !.state = "shipped"] \in Contract
  <2> DEFINE old == contracts[c]
  <2>1. old \in Contract
    BY <1>3
  <2> HIDE DEF old
  <2>2. [old EXCEPT !.state = "shipped"] \in Contract
    BY <2>1 DEF Contract, PromiseState
  <2>. QED BY <2>2 DEF old
<1>5. /\ contracts' \in Seq(Contract)
      /\ DOMAIN contracts' = DOMAIN contracts
      /\ \A d \in DOMAIN contracts : contracts'[d].plan = contracts[d].plan
      /\ \A d \in DOMAIN contracts : d # c => contracts'[d] = contracts[d]
  BY <1>2, <1>3, <1>4 DEF Contract
<1>6. shipping' \in [Servers -> Shipments]
  BY <1>2, NoShipmentIsIdle DEF ContractsInv, Shipments
<1>7. ASSUME NEW q \in Servers, shipping'[q].at # "idle"
      PROVE  IsFirst(shipping[q].contract, shipping[q].plan)'
  <2>1. q # p
    BY <1>2, <1>7, NoShipmentIsIdle DEF ContractsInv
  <2>2. shipping'[q] = shipping[q]
    BY <1>2, <2>1 DEF ContractsInv
  <2>3. IsFirst(shipping[q].contract, shipping[q].plan)
    BY <1>7, <2>2 DEF ContractsInv
  <2>. QED BY <1>5, <2>2, <2>3 DEF IsFirst
<1>8. ShippedUnderOne'
  <2> SUFFICES ASSUME NEW d \in DOMAIN contracts, NEW e \in DOMAIN contracts,
                      contracts[d].plan = contracts[e].plan, contracts'[d].state = "shipped"
               PROVE  d <= e
    BY <1>5 DEF ShippedUnderOne
  <2>1. CASE d = c
    BY <1>1, <2>1 DEF IsFirst
  <2>2. CASE d # c
    BY <1>5, <2>2 DEF ContractsInv, ShippedUnderOne
  <2>. QED BY <2>1, <2>2
<1>. QED BY <1>5, <1>6, <1>7, <1>8 DEF ContractsInv, Shipments

LEMMA ShipDiesKeeps ==
  ASSUME ContractsInv, NEW p \in Servers, ShipDies(p)
  PROVE  ContractsInv'
BY ShipmentMoveKeeps, NoShipmentIsIdle DEF ShipDies

LEMMA ContractsStutterKeeps == ContractsInv /\ UNCHANGED contractVars => ContractsInv'
BY DEF ContractsInv, contractVars, IsFirst, ShippedUnderOne

\* However many servers verify and ship a plan, at whatever moments, no
\* contract of a plan is shipped but the first that get_by_plan_id returns.
THEOREM PlansShipUnderOneContract == ContractsSpec => []ShippedUnderOne
<1>1. ContractsInv /\ [ContractsNext]_contractVars => ContractsInv'
  BY ContractsStutterKeeps, VerifyPlanKeeps, ShipPlanKeeps, LoadKeeps, UpdateKeeps, ShipDiesKeeps
  DEF ContractsNext
<1>2. ContractsInv => ShippedUnderOne
  BY DEF ContractsInv
<1>. QED BY ContractsInitEstablishes, <1>1, <1>2, PTL DEF ContractsSpec

-----------------------------------------------------------------------------
(* The types of contracts *)

ContractTypes == ContractsInv /\ ContractsTypeOK

LEMMA ContractTypesStart == ContractsInit => ContractTypes
<1>1. NoShipment \in Shipment /\ <<>> \in Seq(Contract) /\ <<>> \in Seq(PlanIds \X (1..MaxContracts))
      /\ Len(<<>>) = 0 /\ 0 <= MaxContracts
  BY ContractsAssumption, EmptySeq DEF NoShipment, Shipment
<1>. QED BY <1>1, ContractsInitEstablishes DEF ContractsInit, ContractTypes, ContractsTypeOK

LEMMA ContractTypesKept == ContractTypes /\ [ContractsNext]_contractVars => ContractTypes'
<1>. SUFFICES ASSUME ContractTypes, ContractsNext PROVE ContractTypes'
  BY ContractsStutterKeeps DEF ContractTypes, ContractsTypeOK, contractVars
<1>0. /\ contracts \in Seq(Contract) /\ Len(contracts) \in Nat /\ Len(contracts) <= MaxContracts
      /\ DOMAIN contracts = 1..Len(contracts) /\ MaxContracts \in Nat
      /\ shipping \in [Servers -> Shipment]
      /\ shipped \in Seq(PlanIds \X (1..MaxContracts)) /\ ContractsInv
  <2>1. /\ contracts \in Seq(Contract) /\ Len(contracts) <= MaxContracts
        /\ shipping \in [Servers -> Shipment]
        /\ shipped \in Seq(PlanIds \X (1..MaxContracts)) /\ ContractsInv
    BY DEF ContractTypes, ContractsTypeOK
  <2>2. Len(contracts) \in Nat /\ DOMAIN contracts = 1..Len(contracts)
    BY <2>1, LenProperties
  <2>. QED BY <2>1, <2>2, ContractsAssumption
<1>n. NoShipment \in Shipment
  <2>1. 0 \in 0..MaxContracts
    BY <1>0
  <2>. QED BY <2>1 DEF NoShipment, Shipment
<1>1. PICK p \in Servers :
        \/ \E aPlan \in PlanIds : verify_plan(p, aPlan) \/ ship_plan(p, aPlan)
        \/ LoadContract(p) \/ update_state(p) \/ ShipDies(p)
  BY DEF ContractsNext
<1>2. ASSUME NEW aPlan \in PlanIds, verify_plan(p, aPlan) PROVE ContractTypes'
  <2>1. ContractsInv'
    BY <1>0, <1>2, VerifyPlanKeeps
  <2>2. PICK c : c = [plan |-> aPlan, state |-> "verify_passed", evidence |-> TRUE]
    OBVIOUS
  <2>3. c \in Contract
    BY <2>2 DEF Contract, PromiseState
  <2>4. contracts' = Append(contracts, c) /\ Len(contracts) < MaxContracts
        /\ shipping' = shipping /\ shipped' = shipped
    BY <1>2, <2>2 DEF verify_plan, SaveContract
  <2>5. contracts' \in Seq(Contract) /\ Len(contracts') = Len(contracts) + 1
    BY <1>0, <2>3, <2>4, AppendProperties
  <2>6. Len(contracts') <= MaxContracts
    BY <1>0, <2>4, <2>5
  <2>. QED BY <1>0, <2>1, <2>4, <2>5, <2>6 DEF ContractTypes, ContractsTypeOK
<1>3. ASSUME NEW aPlan \in PlanIds, ship_plan(p, aPlan) PROVE ContractTypes'
  <2>1. ContractsInv'
    BY <1>0, <1>3, ShipPlanKeeps
  <2>2. PICK c \in DOMAIN contracts :
          shipping' = [shipping EXCEPT ![p] = [at |-> "load", plan |-> aPlan, contract |-> c]]
    BY <1>3 DEF ship_plan, get_by_plan_id, FirstOf, OfPlan
  <2>3. [at |-> "load", plan |-> aPlan, contract |-> c] \in Shipment
    BY <1>0 DEF Shipment
  <2>4. contracts' = contracts /\ shipped' = shipped
    BY <1>3 DEF ship_plan
  <2>. QED BY <1>0, <2>1, <2>2, <2>3, <2>4 DEF ContractTypes, ContractsTypeOK
<1>4. CASE LoadContract(p)
  <2>1. ContractsInv'
    BY <1>0, <1>4, LoadKeeps
  <2>2. [shipping[p] EXCEPT !.at = "update"] \in Shipment
    BY <1>0 DEF Shipment
  <2>3. /\ contracts' = contracts /\ shipped' = shipped
        /\ \/ shipping' = [shipping EXCEPT ![p] = [shipping[p] EXCEPT !.at = "update"]]
           \/ shipping' = [shipping EXCEPT ![p] = NoShipment]
    BY <1>0, <1>4 DEF LoadContract
  <2>. QED BY <1>0, <1>n, <2>1, <2>2, <2>3 DEF ContractTypes, ContractsTypeOK
<1>5. CASE update_state(p)
  <2>1. ContractsInv'
    BY <1>0, <1>5, UpdateKeeps
  <2>2. PICK c \in DOMAIN contracts : c = shipping[p].contract /\ contracts[c].plan = shipping[p].plan
    BY <1>0, <1>5 DEF update_state, ContractsInv, IsFirst
  <2>3. contracts[c] \in Contract /\ [contracts[c] EXCEPT !.state = "shipped"] \in Contract
    <3>1. contracts[c] \in Contract
      BY <1>0, <2>2, ElementOfSeq
    <3>. QED BY <3>1 DEF Contract, PromiseState
  <2>4. contracts' = [contracts EXCEPT ![c] = [contracts[c] EXCEPT !.state = "shipped"]]
    BY <1>5, <2>2 DEF update_state
  <2>5. contracts' \in Seq(Contract) /\ Len(contracts') = Len(contracts)
    BY <1>0, <2>3, <2>4, ExceptSeq
  <2>6. <<shipping[p].plan, c>> \in PlanIds \X (1..MaxContracts)
    <3>1. c \in 1..MaxContracts
      BY <1>0, <2>2
    <3>2. shipping[p].plan \in PlanIds
      BY <2>2, <2>3 DEF Contract
    <3>. QED BY <3>1, <3>2
  <2>7. shipped' \in Seq(PlanIds \X (1..MaxContracts))
    <3>1. shipped' \in {shipped, Append(shipped, <<shipping[p].plan, c>>)}
      BY <1>5, <2>2 DEF update_state
    <3>2. PICK S : S = PlanIds \X (1..MaxContracts)
      OBVIOUS
    <3>3. PICK x : x = <<shipping[p].plan, c>>
      OBVIOUS
    <3>4. x \in S /\ shipped \in Seq(S)
      BY <1>0, <2>6, <3>2, <3>3
    <3>5. Append(shipped, x) \in Seq(S)
      BY <3>4, AppendProperties
    <3>. QED BY <3>1, <3>2, <3>3, <3>4, <3>5
  <2>8. shipping' \in [Servers -> Shipment]
    BY <1>0, <1>5, <1>n DEF update_state
  <2>. QED BY <1>0, <2>1, <2>5, <2>7, <2>8 DEF ContractTypes, ContractsTypeOK
<1>6. CASE ShipDies(p)
  <2>1. ContractsInv'
    BY <1>0, <1>6, ShipDiesKeeps
  <2>. QED BY <1>0, <1>6, <1>n, <2>1 DEF ShipDies, ContractTypes, ContractsTypeOK
<1>. QED BY <1>1, <1>2, <1>3, <1>4, <1>5, <1>6

\* The types of the contracts.
LEMMA ContractsTypeCorrect == ContractsSpec => []ContractsTypeOK
<1>1. ContractTypes => ContractsTypeOK
  BY DEF ContractTypes
<1>. QED BY <1>1, ContractTypesStart, ContractTypesKept, PTL DEF ContractsSpec

-----------------------------------------------------------------------------
(*****************************************************************************)
(* Resilience.  The circuit breaker is closed exactly while there are fewer  *)
(* failures than the threshold, for every number of threads and threshold.   *)
(*                                                                           *)
(* Inductive with the types of the two: no step of can_execute, of the       *)
(* clock or of a late caller sets one without the other.                     *)
(*****************************************************************************)

BreakerTypeOK ==
  /\ circuit \in {"closed", "open", "half_open"}
  /\ failures \in Nat

BreakerInv == BreakerTypeOK /\ CircuitFollowsFailures

LEMMA BreakerInitEstablishes == ResilienceInit => BreakerInv
BY ResilienceAssumption DEF ResilienceInit, BreakerInv, BreakerTypeOK, CircuitFollowsFailures

\* can_execute half opens an open circuit and never a closed one.
LEMMA CanExecuteKeeps ==
  ASSUME BreakerInv, NEW t \in Threads, can_execute(t)
  PROVE  BreakerInv'
<1>1. circuit' = State /\ failures' = failures
  BY DEF can_execute
<1>2. State \in {"closed", "open", "half_open"} /\ (State = "closed" <=> circuit = "closed")
  BY DEF State, HalfOpens, BreakerInv, BreakerTypeOK
<1>. QED BY <1>1, <1>2 DEF BreakerInv, BreakerTypeOK, CircuitFollowsFailures

LEMMA RecordFailureKeeps ==
  ASSUME BreakerInv, NEW t \in Threads, record_failure(t)
  PROVE  BreakerInv'
<1>1. failures' = failures + 1 /\ failures' \in Nat
  BY DEF record_failure, BreakerInv, BreakerTypeOK
<1>2. CASE failures' >= FailureThreshold
  BY <1>1, <1>2, ResilienceAssumption
  DEF record_failure, BreakerInv, BreakerTypeOK, CircuitFollowsFailures
<1>3. CASE ~(failures' >= FailureThreshold)
  BY <1>1, <1>3, ResilienceAssumption
  DEF record_failure, BreakerInv, BreakerTypeOK, CircuitFollowsFailures
<1>. QED BY <1>2, <1>3

\* record_success and reset, from any state and however late.
LEMMA ClosedKeeps ==
  ASSUME BreakerInv, circuit' = "closed", failures' = 0
  PROVE  BreakerInv'
BY ResilienceAssumption DEF BreakerInv, BreakerTypeOK, CircuitFollowsFailures

LEMMA BreakerOthersKeep ==
  ASSUME BreakerInv, UNCHANGED <<circuit, failures>>
  PROVE  BreakerInv'
BY DEF BreakerInv, BreakerTypeOK, CircuitFollowsFailures

LEMMA DeadLettersLeaveIt == DeadLetters => UNCHANGED <<circuit, failures>>
BY DEF DeadLetters, add_letter, get_letter, DrainOne, persist_letters, load_letters,
       QueueDies, breakerVars

LEMMA BreakerNextKeeps ==
  ASSUME BreakerInv, ResilienceNext
  PROVE  BreakerInv'
<1>1. ASSUME NEW t \in Threads, Breaking(t)
      PROVE  BreakerInv'
  <2>1. CASE record_success(t)
    BY <2>1, ClosedKeeps DEF record_success
  <2>2. CASE TakeSlot(t) \/ Abandon(t)
    BY <2>2, BreakerOthersKeep DEF TakeSlot, Abandon
  <2>. QED BY <1>1, <2>1, <2>2, CanExecuteKeeps, RecordFailureKeeps DEF Breaking
<1>2. ASSUME NEW t \in Threads, retry_sync(t) \/ Attempt(t)
      PROVE  BreakerInv'
  BY <1>2, BreakerOthersKeep DEF retry_sync, Attempt, breakerVars
<1>3. CASE reset_circuit
  BY <1>3, ClosedKeeps DEF reset_circuit
<1>4. CASE RecoveryElapses \/ DeadLetters
  BY <1>4, BreakerOthersKeep, DeadLettersLeaveIt DEF RecoveryElapses
<1>. QED BY <1>1, <1>2, <1>3, <1>4 DEF ResilienceNext

\* TmuxCircuitBreaker: however late threads report, and whoever half opens the
\* circuit, it is closed if and only if the failures counted since the last
\* success are fewer than failure_threshold.
THEOREM CircuitsFollowFailures == ResilienceSpec => []CircuitFollowsFailures
<1>1. BreakerInv /\ [ResilienceNext]_resilienceVars => BreakerInv'
  BY BreakerNextKeeps, BreakerOthersKeep DEF resilienceVars
<1>2. BreakerInv => CircuitFollowsFailures
  BY DEF BreakerInv
<1>. QED BY BreakerInitEstablishes, <1>1, <1>2, PTL DEF ResilienceSpec

-----------------------------------------------------------------------------
(* The types of Resilience.  An attempt that goes on has one left. *)

TryingInv == \A t \in Threads : attempts[t].at = "trying" => attempts[t].n <= MaxRetries

ResilienceTypes == ResilienceTypeOK /\ TryingInv

\* Types of the breaker, of the queue and of the attempts.
BreakerTypes ==
  /\ circuit \in {"closed", "open", "half_open"} /\ failures \in 0..MaxFailures
  /\ recovered \in BOOLEAN /\ trials \in 0..HalfOpenMax
  /\ caller \in [Threads -> {"idle", "half_open", "executing"}]

LetterTypes ==
  /\ letters \in 0..MaxLetters
  /\ queue \in Seq(Letters) /\ Len(queue) <= QueueSize
  /\ persisted \in Seq(Letters)
  /\ persister \in [open : BOOLEAN, items : Seq(Letters)]

AttemptTypes ==
  /\ attempts \in [Threads -> [at : {"idle", "trying", "done", "failed"}, n : 0..MaxRetries + 1]]
  /\ TryingInv

LEMMA ResilienceParts3 == ResilienceTypes <=> BreakerTypes /\ LetterTypes /\ AttemptTypes
BY DEF ResilienceTypes, ResilienceTypeOK, BreakerTypes, LetterTypes, AttemptTypes

\* A letter goes into a queue that is not full.
LEMMA PutFits ==
  ASSUME NEW items \in Seq(Letters), Len(items) <= QueueSize, NEW letter \in Letters
  PROVE  PutNowait(items, letter) \in Seq(Letters) /\ Len(PutNowait(items, letter)) <= QueueSize
<1>1. QueueSize \in Nat /\ Len(items) \in Nat
  BY ResilienceAssumption, LenProperties
<1>2. Append(items, letter) \in Seq(Letters) /\ Len(Append(items, letter)) = Len(items) + 1
  BY AppendProperties
<1>. QED BY <1>1, <1>2 DEF PutNowait

\* The first letter leaves.
LEMMA HeadLeaves ==
  ASSUME LetterTypes, queue # <<>>
  PROVE  /\ Head(queue) \in Letters
         /\ Tail(queue) \in Seq(Letters) /\ Len(Tail(queue)) <= QueueSize
<1>1. QueueSize \in Nat /\ Len(queue) \in Nat /\ Len(queue) <= QueueSize
  BY ResilienceAssumption, LenProperties DEF LetterTypes
<1>2. Head(queue) \in Letters /\ Tail(queue) \in Seq(Letters) /\ Len(Tail(queue)) = Len(queue) - 1
  BY HeadTailProperties DEF LetterTypes
<1>. QED BY <1>1, <1>2

LEMMA NothingToPersist == NoPersist \in [open : BOOLEAN, items : Seq(Letters)]
<1>1. <<>> \in Seq(Letters)
  BY EmptySeq
<1>. QED BY <1>1 DEF NoPersist

\* What a method of the queue, or a process that dies, leaves.
LEMMA LettersKeepTypes == ASSUME LetterTypes, DeadLetters PROVE LetterTypes'
<1>0. persister.items \in Seq(Letters) /\ persisted \in Seq(Letters) /\ queue \in Seq(Letters)
  BY DEF LetterTypes
<1>1. CASE add_letter
  <2>1. letters' \in Letters /\ letters' \in 0..MaxLetters
    BY <1>1, ResilienceAssumption DEF add_letter, LetterTypes, Letters
  <2>2. queue' \in Seq(Letters) /\ Len(queue') <= QueueSize
    BY <1>0, <1>1, <2>1, PutFits DEF add_letter, LetterTypes
  <2>. QED BY <1>1, <2>1, <2>2 DEF add_letter, LetterTypes
<1>2. CASE get_letter
  <2>1. queue' = Tail(queue) \/ queue' = PutNowait(Tail(queue), Head(queue))
    BY <1>2 DEF get_letter, Requeued
  <2>2. queue' \in Seq(Letters) /\ Len(queue') <= QueueSize
    BY <1>2, <2>1, HeadLeaves, PutFits DEF get_letter
  <2>. QED BY <1>2, <2>2 DEF get_letter, LetterTypes
<1>3. CASE DrainOne
  <2>1. Append(persister.items, Head(queue)) \in Seq(Letters)
    BY <1>0, <1>3, HeadLeaves, AppendProperties DEF DrainOne
  <2>. QED BY <1>3, <2>1, HeadLeaves DEF DrainOne, LetterTypes
<1>4. CASE persist_letters
  BY <1>0, <1>4, NothingToPersist DEF persist_letters, LetterTypes
<1>5. CASE load_letters
  <2>1. PICK room : room = QueueSize - Len(queue)
    OBVIOUS
  <2>2. PICK n : n = IF Len(persisted) < room THEN Len(persisted) ELSE room
    OBVIOUS
  <2>3. queue' = queue \o SubSeq(persisted, 1, n)
    BY <1>5, <2>1, <2>2 DEF load_letters
  <2>4. /\ Len(queue) \in Nat /\ Len(persisted) \in Nat /\ QueueSize \in Nat
        /\ Len(queue) <= QueueSize
    BY <1>0, LenProperties, ResilienceAssumption DEF LetterTypes
  <2>5. n \in Nat /\ n <= Len(persisted) /\ n <= QueueSize - Len(queue)
    BY <2>1, <2>2, <2>4
  <2>6. \A i \in 1..n : persisted[i] \in Letters
    BY <1>0, <2>4, <2>5, ElementOfSeq
  <2>7. SubSeq(persisted, 1, n) \in Seq(Letters) /\ Len(SubSeq(persisted, 1, n)) = n
    BY <2>5, <2>6, SubSeqProperties
  <2>8. queue' \in Seq(Letters) /\ Len(queue') = Len(queue) + n
    BY <1>0, <2>3, <2>7, ConcatProperties
  <2>9. Len(queue') <= QueueSize
    BY <2>4, <2>5, <2>8
  <2>. QED BY <1>5, <2>8, <2>9 DEF load_letters, LetterTypes
<1>6. CASE QueueDies
  <2>1. <<>> \in Seq(Letters) /\ Len(<<>>) <= QueueSize
    BY EmptySeq, ResilienceAssumption
  <2>. QED BY <1>0, <1>6, <2>1, NothingToPersist DEF QueueDies, LetterTypes
<1>. QED BY <1>1, <1>2, <1>3, <1>4, <1>5, <1>6 DEF DeadLetters

LEMMA BreakerKeepsTypes ==
  ASSUME BreakerTypes, (\E t \in Threads : Breaking(t)) \/ reset_circuit \/ RecoveryElapses
  PROVE  BreakerTypes'
<1>0. /\ MaxFailures \in Nat /\ HalfOpenMax \in Nat
      /\ caller \in [Threads -> {"idle", "half_open", "executing"}]
      /\ trials \in 0..HalfOpenMax /\ failures \in 0..MaxFailures
  BY ResilienceAssumption DEF BreakerTypes
<1>1. CASE reset_circuit
  BY <1>0, <1>1 DEF reset_circuit, BreakerTypes
<1>2. CASE RecoveryElapses
  BY <1>2 DEF RecoveryElapses, BreakerTypes
<1>3. ASSUME NEW t \in Threads, Breaking(t) PROVE BreakerTypes'
  <2>1. CASE can_execute(t)
    <3>1. PICK s : s = IF State = "closed" THEN "executing"
                       ELSE IF State = "half_open" THEN State ELSE caller[t]
      OBVIOUS
    <3>2. caller' = [caller EXCEPT ![t] = s]
      BY <1>0, <2>1, <3>1 DEF can_execute
    <3>3. State \in {"closed", "open", "half_open"}
      BY DEF State, BreakerTypes
    <3>4. s \in {"idle", "half_open", "executing"}
      BY <1>0, <3>1, <3>3
    <3>5. trials' \in 0..HalfOpenMax
      BY <1>0, <2>1 DEF can_execute
    <3>. QED BY <1>0, <2>1, <3>2, <3>3, <3>4, <3>5 DEF can_execute, BreakerTypes
  <2>2. CASE TakeSlot(t)
    <3>1. trials' \in 0..HalfOpenMax
      BY <1>0, <2>2 DEF TakeSlot
    <3>2. caller' \in [Threads -> {"idle", "half_open", "executing"}]
      BY <1>0, <2>2 DEF TakeSlot
    <3>. QED BY <2>2, <3>1, <3>2 DEF TakeSlot, BreakerTypes
  <2>3. CASE record_success(t)
    BY <1>0, <2>3 DEF record_success, BreakerTypes
  <2>4. CASE record_failure(t)
    <3>1. failures' \in 0..MaxFailures
      BY <1>0, <2>4 DEF record_failure
    <3>2. caller' \in [Threads -> {"idle", "half_open", "executing"}]
      BY <1>0, <2>4 DEF record_failure
    <3>. QED BY <2>4, <3>1, <3>2 DEF record_failure, BreakerTypes
  <2>5. CASE Abandon(t)
    BY <1>0, <2>5 DEF Abandon, BreakerTypes
  <2>. QED BY <1>3, <2>1, <2>2, <2>3, <2>4, <2>5 DEF Breaking
<1>. QED BY <1>1, <1>2, <1>3

LEMMA AttemptsKeepTypes ==
  ASSUME AttemptTypes, NEW t \in Threads, retry_sync(t) \/ Attempt(t)
  PROVE  AttemptTypes'
<1>0. /\ attempts \in [Threads -> [at : {"idle", "trying", "done", "failed"}, n : 0..MaxRetries + 1]]
      /\ MaxRetries \in Nat
  BY ResilienceAssumption DEF AttemptTypes
<1>1. ASSUME NEW at \in {"idle", "trying", "done", "failed"}, NEW n \in 0..MaxRetries + 1,
             at = "trying" => n <= MaxRetries,
             attempts' = [attempts EXCEPT ![t] = [at |-> at, n |-> n]]
      PROVE  AttemptTypes'
  BY <1>0, <1>1 DEF AttemptTypes, TryingInv
<1>2. CASE retry_sync(t)
  <2>1. 0 \in 0..MaxRetries + 1 /\ 0 <= MaxRetries
    BY <1>0
  <2>2. attempts' = [attempts EXCEPT ![t] = [at |-> "trying", n |-> 0]]
    BY <1>2 DEF retry_sync
  <2>. QED BY <1>1, <2>1, <2>2
<1>3. CASE Attempt(t)
  <2>1. PICK n : n = attempts[t].n
    OBVIOUS
  <2>2. n \in 0..MaxRetries + 1 /\ n <= MaxRetries
    BY <1>0, <1>3, <2>1 DEF Attempt, AttemptTypes, TryingInv
  <2>3. PICK at \in {"done", IF n < MaxRetries THEN "trying" ELSE "failed"} :
          attempts' = [attempts EXCEPT ![t] = [at |-> at, n |-> n + 1]]
    BY <1>0, <1>3, <2>1 DEF Attempt
  <2>4. n + 1 \in 0..MaxRetries + 1 /\ (at = "trying" => n + 1 <= MaxRetries)
    BY <1>0, <2>2, <2>3
  <2>. QED BY <1>1, <2>3, <2>4
<1>. QED BY <1>2, <1>3

LEMMA ResilienceTypesStart == ResilienceInit => ResilienceTypes
<1>1. /\ <<>> \in Seq(Letters) /\ Len(<<>>) <= QueueSize
      /\ 0 \in 0..MaxFailures /\ 0 \in 0..HalfOpenMax /\ 0 \in 0..MaxLetters
      /\ 0 \in 0..MaxRetries + 1 /\ MaxRetries \in Nat
  BY EmptySeq, ResilienceAssumption
<1>2. /\ NoAttempt \in [at : {"idle", "trying", "done", "failed"}, n : 0..MaxRetries + 1]
      /\ NoAttempt.at # "trying"
  BY <1>1 DEF NoAttempt
<1>. QED BY <1>1, <1>2, NothingToPersist DEF ResilienceInit, ResilienceTypes, ResilienceTypeOK, TryingInv

LEMMA ResilienceTypesKept == ResilienceTypes /\ [ResilienceNext]_resilienceVars => ResilienceTypes'
<1>. SUFFICES ASSUME BreakerTypes, LetterTypes, AttemptTypes, [ResilienceNext]_resilienceVars
              PROVE  BreakerTypes' /\ LetterTypes' /\ AttemptTypes'
  <2>1. (BreakerTypes /\ LetterTypes /\ AttemptTypes)' => ResilienceTypes'
    BY DEF ResilienceTypes, ResilienceTypeOK, BreakerTypes, LetterTypes, AttemptTypes
  <2>. QED BY <2>1, ResilienceParts3
<1>1. /\ UNCHANGED breakerVars => BreakerTypes'
      /\ UNCHANGED letterVars => LetterTypes'
      /\ UNCHANGED attempts => AttemptTypes'
  BY DEF breakerVars, letterVars, BreakerTypes, LetterTypes, AttemptTypes, TryingInv
<1>2. CASE DeadLetters
  <2>1. UNCHANGED <<breakerVars, attempts>>
    BY <1>2 DEF DeadLetters, add_letter, get_letter, DrainOne, persist_letters, load_letters, QueueDies
  <2>. QED BY <1>1, <1>2, <2>1, LettersKeepTypes
<1>3. CASE (\E t \in Threads : Breaking(t)) \/ reset_circuit \/ RecoveryElapses
  <2>1. UNCHANGED <<letterVars, attempts>>
    BY <1>3 DEF Breaking, reset_circuit, RecoveryElapses, can_execute, TakeSlot, record_success,
                record_failure, Abandon
  <2>. QED BY <1>1, <1>3, <2>1, BreakerKeepsTypes
<1>4. ASSUME NEW t \in Threads, retry_sync(t) \/ Attempt(t)
      PROVE  BreakerTypes' /\ LetterTypes' /\ AttemptTypes'
  <2>1. UNCHANGED <<letterVars, breakerVars>>
    BY <1>4 DEF retry_sync, Attempt
  <2>. QED BY <1>1, <1>4, <2>1, AttemptsKeepTypes
<1>5. UNCHANGED resilienceVars => UNCHANGED <<letterVars, breakerVars, attempts>>
  BY DEF resilienceVars, letterVars, breakerVars
<1>. QED BY <1>1, <1>2, <1>3, <1>4, <1>5 DEF ResilienceNext

\* The types of the breaker, the dead letters and the retries.
THEOREM ResilienceTypeCorrect == ResilienceSpec => []ResilienceTypeOK
<1>1. ResilienceTypes => ResilienceTypeOK
  BY DEF ResilienceTypes
<1>. QED BY <1>1, ResilienceTypesStart, ResilienceTypesKept, PTL DEF ResilienceSpec

-----------------------------------------------------------------------------
(*****************************************************************************)
(* Caps.  The JSON of what cap_response answers fits the budget, for every   *)
(* budget, every list and every length and cost of the contents.             *)
(*                                                                           *)
(* CapWithinBudget is not inductive: the loop needs that what is answered    *)
(* and what remains are together no more than the budget.  The size of an    *)
(* answer is a recursive function of sequences.  That it is what its         *)
(* definition says, and what appending does to it, is shown at the shortest  *)
(* sequence where it would fail.                                             *)
(*****************************************************************************)

LEMMA ShortestSequence ==
  ASSUME NEW S \in SUBSET Seq(Answer), S # {}
  PROVE  \E s \in S : \A t \in S : Len(s) <= Len(t)
<1>. DEFINE L == {Len(s) : s \in S}
<1>1. L \in SUBSET Nat /\ L # {}
  <2>1. \A s \in S : Len(s) \in Nat
    BY LenProperties
  <2>. QED BY <2>1
<1>2. PICK n \in L : \A k \in L : n <= k
  <2>. HIDE DEF L
  <2>. QED BY <1>1, LeastNumber
<1>3. PICK s \in S : n = Len(s)
  BY <1>2
<1>4. \A t \in S : Len(s) <= Len(t)
  BY <1>2, <1>3
<1>. QED BY <1>4

LEMMA TailIsShorter ==
  ASSUME NEW s \in Seq(Answer), s # <<>>
  PROVE  /\ Head(s) \in Answer /\ Head(s).size \in Nat
         /\ Tail(s) \in Seq(Answer) /\ Len(Tail(s)) = Len(s) - 1
         /\ Len(s) \in Nat /\ Len(s) > 0 /\ Len(Tail(s)) \in Nat
<1>1. /\ Head(s) \in Answer /\ Tail(s) \in Seq(Answer) /\ Len(Tail(s)) = Len(s) - 1
  BY HeadTailProperties
<1>2. Len(s) \in Nat \ {0}
  BY EmptySeq
<1>. QED BY <1>1, <1>2 DEF Answer

\* SizeOf as far as sequences of length n.
Short(n) == {s \in Seq(Answer) : Len(s) <= n}

SizesTo(f, n) ==
  f = [s \in Short(n) |-> IF s = <<>> THEN 0 ELSE Head(s).size + f[Tail(s)]]

LEMMA SizesAgree ==
  ASSUME NEW f, NEW g, NEW m \in Nat, NEW n \in Nat, SizesTo(f, m), SizesTo(g, n)
  PROVE  \A s \in Short(m) \cap Short(n) : f[s] = g[s]
<1>. DEFINE S == {s \in Short(m) \cap Short(n) : f[s] # g[s]}
<1>1. SUFFICES ASSUME S # {} PROVE FALSE
  OBVIOUS
<1>2. S \in SUBSET Seq(Answer)
  BY DEF Short
<1>3. PICK s \in S : \A t \in S : Len(s) <= Len(t)
  <2>. HIDE DEF S
  <2>. QED BY <1>1, <1>2, ShortestSequence
<1>4. s \in Seq(Answer) /\ s \in Short(m) /\ s \in Short(n) /\ f[s] # g[s]
  BY <1>2, <1>3
<1>5. /\ f[s] = IF s = <<>> THEN 0 ELSE Head(s).size + f[Tail(s)]
      /\ g[s] = IF s = <<>> THEN 0 ELSE Head(s).size + g[Tail(s)]
  BY <1>4, Zenon DEF SizesTo
<1>6. s # <<>> /\ f[Tail(s)] # g[Tail(s)]
  BY <1>4, <1>5
<1>7. /\ Tail(s) \in Seq(Answer) /\ Len(Tail(s)) = Len(s) - 1 /\ Len(s) \in Nat
  BY <1>4, <1>6, TailIsShorter
<1>8. Len(s) <= m /\ Len(s) <= n
  BY <1>4 DEF Short
<1>9. Tail(s) \in S
  BY <1>6, <1>7, <1>8 DEF Short
<1>10. Len(s) <= Len(Tail(s))
  BY <1>3, <1>9
<1>. HIDE DEF S
<1>. QED BY <1>7, <1>10

LEMMA SizesExist ==
  ASSUME NEW n \in Nat
  PROVE  \E f : SizesTo(f, n)
<1>. DEFINE S == {k \in Nat : ~ \E f : SizesTo(f, k)}
<1>1. SUFFICES ASSUME S # {} PROVE FALSE
  OBVIOUS
<1>2. PICK k \in S : \A j \in S : k <= j
  <2>. HIDE DEF S
  <2>1. S \in SUBSET Nat
    BY DEF S
  <2>. QED BY <1>1, <2>1, LeastNumber
<1>3. CASE k = 0
  <2>. DEFINE f == [s \in Short(0) |-> 0]
  <2>1. \A s \in Short(0) : s = <<>>
    BY EmptySeq DEF Short
  <2>2. f = [s \in Short(0) |-> IF s = <<>> THEN 0 ELSE Head(s).size + f[Tail(s)]]
    BY <2>1
  <2>. HIDE DEF f
  <2>. QED BY <1>2, <1>3, <2>2 DEF SizesTo
<1>4. CASE k # 0
  <2>1. k - 1 \in Nat /\ k - 1 \notin S
    BY <1>2, <1>4
  <2>2. PICK g : SizesTo(g, k - 1)
    BY <2>1
  <2>. DEFINE f == [s \in Short(k) |-> IF s = <<>> THEN 0 ELSE Head(s).size + g[Tail(s)]]
  <2>3. \A s \in Short(k - 1) : f[s] = g[s]
    <3>1. \A s \in Short(k - 1) : g[s] = IF s = <<>> THEN 0 ELSE Head(s).size + g[Tail(s)]
      BY <2>2, Zenon DEF SizesTo
    <3>2. Short(k - 1) \subseteq Short(k)
      BY <1>2, <1>4 DEF Short
    <3>. QED BY <3>1, <3>2
  <2>4. \A s \in Short(k) : s # <<>> => Tail(s) \in Short(k - 1)
    BY <1>2, <1>4, TailIsShorter DEF Short
  <2>5. \A s \in Short(k) : f[s] = IF s = <<>> THEN 0 ELSE Head(s).size + f[Tail(s)]
    BY <2>3, <2>4
  <2>6. f = [s \in Short(k) |-> f[s]]
    OBVIOUS
  <2>. HIDE DEF f
  <2>7. f = [s \in Short(k) |-> IF s = <<>> THEN 0 ELSE Head(s).size + f[Tail(s)]]
    BY <2>5, <2>6
  <2>. QED BY <1>2, <2>7 DEF SizesTo
<1>. QED BY <1>3, <1>4

LEMMA SizeOfUnfolds ==
  ASSUME NEW s \in Seq(Answer)
  PROVE  SizeOf[s] = IF s = <<>> THEN 0 ELSE Head(s).size + SizeOf[Tail(s)]
<1>. DEFINE Unfold(f) == [t \in Seq(Answer) |->
                            IF t = <<>> THEN 0 ELSE Head(t).size + f[Tail(t)]]
            Sizes(n) == CHOOSE f : SizesTo(f, n)
            F == [t \in Seq(Answer) |-> Sizes(Len(t))[t]]
<1>1. \A n \in Nat : SizesTo(Sizes(n), n)
  BY SizesExist
<1>. HIDE DEF Sizes
<1>2. ASSUME NEW t \in Seq(Answer)
      PROVE  F[t] = IF t = <<>> THEN 0 ELSE Head(t).size + F[Tail(t)]
  <2>1. Len(t) \in Nat /\ t \in Short(Len(t))
    BY EmptySeq DEF Short
  <2>2. F[t] = IF t = <<>> THEN 0 ELSE Head(t).size + Sizes(Len(t))[Tail(t)]
    <3>1. \A f : SizesTo(f, Len(t)) =>
            f[t] = IF t = <<>> THEN 0 ELSE Head(t).size + f[Tail(t)]
      BY <2>1, Zenon DEF SizesTo
    <3>2. F[t] = Sizes(Len(t))[t]
      OBVIOUS
    <3>. HIDE DEF F
    <3>. QED BY <1>1, <2>1, <3>1, <3>2
  <2>3. CASE t = <<>>
    BY <2>2, <2>3
  <2>4. CASE t # <<>>
    <3>1. /\ Tail(t) \in Seq(Answer) /\ Len(Tail(t)) \in Nat
          /\ Tail(t) \in Short(Len(t)) /\ Tail(t) \in Short(Len(Tail(t)))
      BY <2>4, TailIsShorter DEF Short
    <3>2. Sizes(Len(t))[Tail(t)] = Sizes(Len(Tail(t)))[Tail(t)]
      BY <1>1, <2>1, <3>1, SizesAgree
    <3>3. F[Tail(t)] = Sizes(Len(Tail(t)))[Tail(t)]
      BY <3>1
    <3>. HIDE DEF F
    <3>. QED BY <2>2, <2>4, <3>2, <3>3
  <2>. QED BY <2>3, <2>4
<1>3. F = Unfold(F)
  <2>1. F = [t \in Seq(Answer) |-> F[t]]
    OBVIOUS
  <2>. HIDE DEF F
  <2>. QED BY <1>2, <2>1
<1>4. SizeOf = CHOOSE f : f = Unfold(f)
  BY DEF SizeOf
<1>5. SizeOf = Unfold(SizeOf)
  <2>. HIDE DEF F, Unfold
  <2>. QED BY <1>3, <1>4
<1>. QED BY <1>5, Zenon

LEMMA SizeIsNumber ==
  ASSUME NEW s \in Seq(Answer)
  PROVE  SizeOf[s] \in Nat
<1>. DEFINE S == {t \in Seq(Answer) : SizeOf[t] \notin Nat}
<1>1. SUFFICES ASSUME S # {} PROVE FALSE
  OBVIOUS
<1>2. PICK t \in S : \A u \in S : Len(t) <= Len(u)
  <2>1. S \in SUBSET Seq(Answer)
    OBVIOUS
  <2>. HIDE DEF S
  <2>. QED BY <1>1, <2>1, ShortestSequence
<1>3. t \in Seq(Answer) /\ SizeOf[t] \notin Nat
  BY <1>2
<1>4. t # <<>>
  BY <1>3, SizeOfUnfolds
<1>5. /\ Tail(t) \in Seq(Answer) /\ Len(Tail(t)) = Len(t) - 1 /\ Len(t) \in Nat
      /\ Head(t).size \in Nat
  BY <1>3, <1>4, TailIsShorter
<1>6. SizeOf[Tail(t)] \notin Nat
  BY <1>3, <1>4, <1>5, SizeOfUnfolds
<1>7. Len(t) <= Len(Tail(t))
  BY <1>2, <1>5, <1>6
<1>. QED BY <1>5, <1>7

LEMMA SizeOfAppend ==
  ASSUME NEW a \in Answer, NEW s \in Seq(Answer)
  PROVE  SizeOf[Append(s, a)] = SizeOf[s] + a.size
<1>. DEFINE S == {t \in Seq(Answer) : SizeOf[Append(t, a)] # SizeOf[t] + a.size}
<1>1. SUFFICES ASSUME S # {} PROVE FALSE
  OBVIOUS
<1>2. PICK t \in S : \A u \in S : Len(t) <= Len(u)
  <2>1. S \in SUBSET Seq(Answer)
    OBVIOUS
  <2>. HIDE DEF S
  <2>. QED BY <1>1, <2>1, ShortestSequence
<1>3. t \in Seq(Answer) /\ SizeOf[Append(t, a)] # SizeOf[t] + a.size
  BY <1>2
<1>4. Append(t, a) \in Seq(Answer) /\ Append(t, a) # <<>> /\ a.size \in Nat
  BY <1>3 DEF Answer
<1>5. SizeOf[Append(t, a)] = Head(Append(t, a)).size + SizeOf[Tail(Append(t, a))]
  BY <1>4, SizeOfUnfolds
<1>6. t # <<>>
  <2>1. SUFFICES ASSUME t = <<>> PROVE FALSE
    OBVIOUS
  <2>2. Head(Append(<<>>, a)) = a /\ Tail(Append(<<>>, a)) = <<>>
    OBVIOUS
  <2>3. SizeOf[<<>>] = 0
    BY SizeOfUnfolds, EmptySeq
  <2>. QED BY <1>3, <1>4, <1>5, <2>1, <2>2, <2>3
<1>7. /\ Tail(t) \in Seq(Answer) /\ Len(Tail(t)) = Len(t) - 1 /\ Len(t) \in Nat
      /\ Head(t).size \in Nat
  BY <1>3, <1>6, TailIsShorter
<1>8. Head(Append(t, a)) = Head(t) /\ Tail(Append(t, a)) = Append(Tail(t), a)
  BY <1>3, <1>6
<1>9. SizeOf[t] = Head(t).size + SizeOf[Tail(t)]
  BY <1>3, <1>6, SizeOfUnfolds
<1>10. SizeOf[Tail(t)] \in Nat
  BY <1>7, SizeIsNumber
<1>11. SizeOf[Append(Tail(t), a)] # SizeOf[Tail(t)] + a.size
  <2>1. SUFFICES ASSUME SizeOf[Append(Tail(t), a)] = SizeOf[Tail(t)] + a.size
                 PROVE  FALSE
    OBVIOUS
  <2>2. SizeOf[Append(t, a)] = Head(t).size + (SizeOf[Tail(t)] + a.size)
    BY <1>5, <1>8, <2>1
  <2>3. SizeOf[t] + a.size = Head(t).size + (SizeOf[Tail(t)] + a.size)
    BY <1>4, <1>7, <1>9, <1>10
  <2>. QED BY <1>3, <2>2, <2>3
<1>12. Len(t) <= Len(Tail(t))
  BY <1>2, <1>7, <1>11
<1>. QED BY <1>7, <1>12

\* However an observation is cut, it fits what was left.
LEMMA CutFits ==
  ASSUME NEW o \in Serialized, NEW room \in Nat, Overhead(o) < room
  PROVE  Truncated(o, room) \in Nat /\ Truncated(o, room) <= room
<1>1. /\ o.meta \in Nat /\ o.content \in Nat /\ o.cost \in Nat
      /\ Marker \in Nat /\ Annotation \in Nat
  BY CapsAssumption DEF Serialized
<1>2. Overhead(o) \in Nat
  BY <1>1 DEF Overhead
<1>3. \A a, b \in Nat : Smaller(a, b) \in Nat /\ Minus(a, b) \in Nat
  BY DEF Smaller, Minus
<1>4. \A kept, n \in Nat : CutSize(o, kept, n) \in Nat
  <2>1. ASSUME NEW kept \in Nat, NEW n \in Nat
        PROVE  CutSize(o, kept, n) \in Nat
    <3>1. Smaller(n, kept) * o.cost \in Nat
      <4>1. Smaller(n, kept) \in Nat /\ o.cost \in Nat
        BY <1>1, <1>3
      <4>. QED BY <4>1
    <3>2. (IF n > kept THEN n - kept + 1 ELSE 0) \in Nat
      OBVIOUS
    <3>. QED BY <1>2, <3>1, <3>2 DEF CutSize
  <2>. QED BY <2>1
<1>. DEFINE safe == Minus(room - Overhead(o), 2)
            kept == IF safe >= Marker THEN Smaller(o.content, safe - Marker)
                    ELSE Smaller(o.content, safe)
            size == IF safe >= Marker THEN kept + Marker ELSE kept
            first == CutSize(o, kept, size)
            less == Larger((first - room) + 4, size \div 4)
            second == CutSize(o, kept, Minus(size, less))
            third == CutSize(o, o.content, Smaller(o.content, Minus(safe, Marker)))
<1>5. safe \in Nat
  BY <1>2 DEF Minus
<1>6. kept \in Nat
  <2>. HIDE DEF safe
  <2>1. safe >= Marker => safe - Marker \in Nat
    BY <1>1, <1>5
  <2>. QED BY <1>1, <1>3, <1>5, <2>1
<1>7. size \in Nat
  <2>. HIDE DEF safe, kept
  <2>. QED BY <1>1, <1>6
<1>8. first \in Nat
  <2>. HIDE DEF safe, kept, size
  <2>. QED BY <1>4, <1>6, <1>7
<1>9. Minus(size, less) \in Nat
  <2>1. less \in Int
    <3>. HIDE DEF first, size
    <3>1. size \div 4 \in Nat
      BY <1>7
    <3>. QED BY <1>8, <3>1 DEF Larger
  <2>. HIDE DEF size, less
  <2>. QED BY <1>7, <2>1 DEF Minus
<1>10. second \in Nat
  <2>. HIDE DEF kept, size, less
  <2>. QED BY <1>4, <1>6, <1>9
<1>11. third \in Nat
  <2>. HIDE DEF safe
  <2>. QED BY <1>1, <1>3, <1>4, <1>5
<1>12. Truncated(o, room) = IF safe = 0 THEN Overhead(o)
                            ELSE IF first <= room THEN first
                            ELSE IF second <= room THEN second
                            ELSE IF third <= room THEN third
                            ELSE Overhead(o)
  BY DEF Truncated
<1>. HIDE DEF safe, first, second, third
<1>. QED BY <1>2, <1>8, <1>10, <1>11, <1>12

\* What is answered and what remains are within the budget.
CapsInv ==
  /\ CapsTypeOK
  /\ SizeOf[answered] + remaining <= asked * CharsPerToken

LEMMA BudgetIsNumber ==
  ASSUME asked \in 0..MaxTokens
  PROVE  asked * CharsPerToken \in Nat
BY CapsAssumption

LEMMA CapsInitEstablishes == CapsInit => CapsInv
<1>. SUFFICES ASSUME CapsInit
              PROVE  CapsInv
  OBVIOUS
<1>1. asked * CharsPerToken \in Nat
  BY BudgetIsNumber DEF CapsInit
<1>2. PICK n \in 0..MaxList : listed \in [1..n -> Serialized]
  BY DEF CapsInit
<1>3. listed \in Seq(Serialized) /\ Len(listed) <= MaxList
  <2>1. n \in Nat /\ n <= MaxList
    BY <1>2, CapsAssumption
  <2>. QED BY <1>2, <2>1
<1>4. answered = <<>> /\ answered \in Seq(Answer) /\ Len(answered) <= Len(listed)
  BY <1>3, EmptySeq, LenProperties DEF CapsInit
<1>5. SizeOf[<<>>] = 0
  BY SizeOfUnfolds, EmptySeq
<1>6. remaining = asked * CharsPerToken /\ asked \in 0..MaxTokens
  BY DEF CapsInit
<1>. HIDE DEF CapsInit
<1>. QED BY <1>1, <1>3, <1>4, <1>5, <1>6 DEF CapsInv, CapsTypeOK

LEMMA AnswerKeeps ==
  ASSUME CapsInv, Looks, NEW how \in {"whole", "cut", "skipped"}, NEW size \in Nat,
         NEW left \in Nat, AnswerWith(how, size, left), size + left <= remaining
  PROVE  CapsInv'
<1>. DEFINE a == [how |-> how, size |-> size]
<1>1. a \in Answer /\ a.size = size
  BY DEF Answer
<1>2. /\ answered \in Seq(Answer) /\ remaining \in 0..(asked * CharsPerToken)
      /\ listed \in Seq(Serialized) /\ Len(listed) <= MaxList /\ asked \in 0..MaxTokens
      /\ SizeOf[answered] + remaining <= asked * CharsPerToken
  BY DEF CapsInv, CapsTypeOK
<1>3. /\ answered' = Append(answered, a) /\ remaining' = left
      /\ asked' = asked /\ listed' = listed
  BY DEF AnswerWith
<1>4. asked * CharsPerToken \in Nat
  BY <1>2, BudgetIsNumber
<1>. HIDE DEF a
<1>5. answered' \in Seq(Answer) /\ Len(answered') = Len(answered) + 1
  BY <1>1, <1>2, <1>3
<1>6. Len(answered') <= Len(listed')
  BY <1>2, <1>3, <1>5, LenProperties DEF Looks
<1>7. SizeOf[answered'] = SizeOf[answered] + size
  BY <1>1, <1>2, <1>3, SizeOfAppend
<1>8. SizeOf[answered] \in Nat
  BY <1>2, SizeIsNumber
<1>9. /\ SizeOf[answered'] + remaining' <= asked * CharsPerToken
      /\ remaining' \in 0..(asked * CharsPerToken)
  BY <1>2, <1>3, <1>4, <1>7, <1>8
<1>. QED BY <1>2, <1>3, <1>5, <1>6, <1>9 DEF CapsInv, CapsTypeOK

LEMMA CapsNextKeeps ==
  ASSUME CapsInv, [CapsNext]_capsVars
  PROVE  CapsInv'
<1>1. CASE UNCHANGED capsVars
  BY <1>1 DEF capsVars, CapsInv, CapsTypeOK
<1>2. ASSUME Looks
      PROVE  /\ Looked \in Serialized /\ JsonSize(Looked) \in Nat
             /\ Overhead(Looked) \in Nat /\ remaining \in Nat
  <2>1. /\ answered \in Seq(Answer) /\ listed \in Seq(Serialized)
        /\ remaining \in 0..(asked * CharsPerToken) /\ asked * CharsPerToken \in Nat
    BY BudgetIsNumber DEF CapsInv, CapsTypeOK
  <2>2. Len(answered) + 1 \in 1..Len(listed)
    BY <1>2, <2>1, LenProperties DEF Looks
  <2>3. Looked \in Serialized
    BY <2>1, <2>2, ElementOfSeq DEF Looked
  <2>4. Looked.meta \in Nat /\ Looked.content \in Nat /\ Looked.cost \in Nat
    BY <2>3, CapsAssumption DEF Serialized
  <2>5. Looked.content * Looked.cost \in Nat
    BY <2>4
  <2>. QED BY <2>1, <2>3, <2>4, <2>5, CapsAssumption DEF JsonSize, Overhead
<1>3. CASE TakeWhole
  <2>1. /\ Looks /\ JsonSize(Looked) <= remaining
        /\ AnswerWith("whole", JsonSize(Looked), remaining - JsonSize(Looked))
    BY <1>3 DEF TakeWhole
  <2>2. JsonSize(Looked) \in Nat /\ remaining \in Nat
    BY <1>2, <2>1
  <2>3. /\ remaining - JsonSize(Looked) \in Nat
        /\ JsonSize(Looked) + (remaining - JsonSize(Looked)) <= remaining
    BY <2>1, <2>2
  <2>. QED BY <2>1, <2>2, <2>3, AnswerKeeps
<1>4. CASE SkipLarge
  <2>1. Looks /\ AnswerWith("skipped", 0, remaining)
    BY <1>4 DEF SkipLarge
  <2>2. remaining \in Nat /\ 0 + remaining <= remaining
    BY <1>2, <2>1
  <2>. QED BY <2>1, <2>2, AnswerKeeps
<1>5. CASE TakeCut
  <2>1. /\ Looks /\ Overhead(Looked) < remaining
        /\ AnswerWith("cut", Truncated(Looked, remaining), 0)
    BY <1>5 DEF TakeCut
  <2>2. Looked \in Serialized /\ remaining \in Nat
    BY <1>2, <2>1
  <2>3. /\ Truncated(Looked, remaining) \in Nat
        /\ Truncated(Looked, remaining) <= remaining
    BY <2>1, <2>2, CutFits
  <2>4. Truncated(Looked, remaining) + 0 <= remaining
    BY <2>3
  <2>. QED BY <2>1, <2>3, <2>4, AnswerKeeps
<1>. QED BY <1>1, <1>3, <1>4, <1>5 DEF CapsNext

\* cap_response: the JSON of the answered observations fits max_tokens,
\* whatever the lengths, the escapes and the order of the list.
THEOREM AnswersFitTheBudget == CapsSpec => []CapWithinBudget
<1>1. CapsInv => CapWithinBudget
  <2>. SUFFICES ASSUME CapsInv PROVE CapWithinBudget
    OBVIOUS
  <2>1. /\ answered \in Seq(Answer) /\ remaining \in 0..(asked * CharsPerToken)
        /\ asked \in 0..MaxTokens /\ SizeOf[answered] + remaining <= asked * CharsPerToken
    BY DEF CapsInv, CapsTypeOK
  <2>2. SizeOf[answered] \in Nat /\ asked * CharsPerToken \in Nat
    BY <2>1, SizeIsNumber, BudgetIsNumber
  <2>. QED BY <2>1, <2>2 DEF CapWithinBudget
<1>. QED BY CapsInitEstablishes, CapsNextKeeps, <1>1, PTL DEF CapsSpec

-----------------------------------------------------------------------------
(* Cuts.  CutIsLast needs that a cut leaves nothing: an observation is cut  *)
(* to what remains, and the next finds no room for its overhead.             *)

\* What was answered before an answer does not change with it.
LEMMA AnsweredBefore ==
  ASSUME NEW s \in Seq(Answer), NEW a \in Answer, NEW n \in 1..(Len(s) + 1)
  PROVE  /\ SubSeq(Append(s, a), 1, n - 1) = SubSeq(s, 1, n - 1)
         /\ n = Len(s) + 1 => SubSeq(s, 1, n - 1) = s
<1>1. Len(s) \in Nat BY LenProperties
<1>2. n - 1 \in 0..Len(s) BY <1>1
<1>3. /\ Append(s, a) \in Seq(Answer) /\ Len(Append(s, a)) = Len(s) + 1
      /\ \A i \in 1..Len(s) : Append(s, a)[i] = s[i]
  OBVIOUS
<1>4. SubSeq(s, 1, n - 1) = [i \in 1..(n - 1) |-> s[i]]
  BY <1>1, <1>2
<1>5. SubSeq(Append(s, a), 1, n - 1) = [i \in 1..(n - 1) |-> Append(s, a)[i]]
  BY <1>1, <1>2, <1>3
<1>6. \A i \in 1..(n - 1) : Append(s, a)[i] = s[i] BY <1>1, <1>2, <1>3
<1>7. SubSeq(Append(s, a), 1, n - 1) = SubSeq(s, 1, n - 1) BY <1>4, <1>5, <1>6
<1>8. ASSUME n = Len(s) + 1 PROVE SubSeq(s, 1, n - 1) = s
  <2>1. n - 1 = Len(s) BY <1>1, <1>8
  <2>2. s = [i \in 1..Len(s) |-> s[i]] BY LenProperties
  <2> QED BY <1>4, <2>1, <2>2
<1> QED BY <1>7, <1>8

\* An observation that is cut leaves no room; until then what is answered and
\* what remains are the budget.
CutLeavesNothing ==
  /\ \A n \in DOMAIN answered : answered[n].how = "cut" => n = Len(answered) /\ remaining = 0
  /\ (\A n \in DOMAIN answered : answered[n].how # "cut")
       => SizeOf[answered] + remaining = asked * CharsPerToken

\* The inductive invariant of the cut.
CutInv == CapsInv /\ CutLeavesNothing /\ CutIsLast

\* Nothing is answered, and all of the budget remains.
LEMMA CutStarts == CapsInit => CutInv
<1> SUFFICES ASSUME CapsInit PROVE CutInv
  OBVIOUS
<1>1. CapsInv BY CapsInitEstablishes
<1>2. answered = <<>> /\ DOMAIN answered = {} BY DEF CapsInit
<1>3. SizeOf[answered] = 0
  <2>1. <<>> \in Seq(Answer) OBVIOUS
  <2> QED BY <1>2, <2>1, SizeOfUnfolds
<1>4. asked * CharsPerToken \in Nat BY BudgetIsNumber DEF CapsInit
<1>5. CutLeavesNothing
  <2>1. remaining = asked * CharsPerToken BY DEF CapsInit
  <2>2. 0 + remaining = asked * CharsPerToken BY <1>4, <2>1
  <2> QED BY <1>2, <1>3, <2>2 DEF CutLeavesNothing
<1>6. CutIsLast BY <1>2 DEF CutIsLast
<1> QED BY <1>1, <1>5, <1>6 DEF CutInv

\* The next observation, answered in one of the three ways.
LEMMA AnsweredInTurn ==
  ASSUME CutInv, CapsInv', Looks, NEW how \in {"whole", "cut", "skipped"}, NEW size \in Nat,
         NEW left \in Nat, AnswerWith(how, size, left),
         how = "cut" => left = 0,
         how # "cut" => size + left = remaining,
         how = "skipped" => Overhead(Looked) >= remaining /\ Overhead(Looked) \in Nat
  PROVE  CutInv'
<1> DEFINE a == [how |-> how, size |-> size]
<1>1. a \in Answer /\ a.size = size /\ a.how = how BY DEF Answer
<1>2. /\ answered \in Seq(Answer) /\ remaining \in Nat /\ asked * CharsPerToken \in Nat
  BY BudgetIsNumber DEF CutInv, CapsInv, CapsTypeOK
<1>3. /\ answered' = Append(answered, a) /\ remaining' = left
      /\ asked' = asked /\ listed' = listed
  BY DEF AnswerWith
<1> HIDE DEF a
<1>4. /\ Len(answered) \in Nat /\ Len(answered') = Len(answered) + 1
      /\ answered'[Len(answered) + 1] = a
      /\ \A n \in 1..Len(answered) : answered'[n] = answered[n]
      /\ DOMAIN answered = 1..Len(answered) /\ DOMAIN answered' = 1..(Len(answered) + 1)
  BY <1>1, <1>2, <1>3, LenProperties
<1>5. \A n \in 1..Len(answered) : answered[n].how # "cut"
  <2> SUFFICES ASSUME NEW n \in 1..Len(answered), answered[n].how = "cut" PROVE FALSE
    OBVIOUS
  <2>1. remaining = 0 BY <1>4 DEF CutInv, CutLeavesNothing
  <2>2. remaining > 0 BY DEF Looks
  <2> QED BY <2>1, <2>2
<1>6. SizeOf[answered] + remaining = asked * CharsPerToken
  BY <1>4, <1>5 DEF CutInv, CutLeavesNothing
<1>7. SizeOf[answered'] = SizeOf[answered] + size /\ SizeOf[answered] \in Nat
  BY <1>1, <1>2, <1>3, SizeOfAppend, SizeIsNumber
<1>8. CutLeavesNothing'
  <2>1. ASSUME NEW n \in 1..(Len(answered) + 1), answered'[n].how = "cut"
        PROVE  n = Len(answered') /\ remaining' = 0
    <3>1. n = Len(answered) + 1 BY <1>4, <1>5, <2>1
    <3>2. how = "cut" BY <1>1, <1>4, <2>1, <3>1
    <3> QED BY <1>3, <1>4, <3>1, <3>2
  <2>2. ASSUME \A n \in 1..(Len(answered) + 1) : answered'[n].how # "cut"
        PROVE  SizeOf[answered'] + remaining' = asked' * CharsPerToken
    <3>1. how # "cut" BY <1>1, <1>4, <2>2
    <3>2. size + left = remaining BY <3>1
    <3>3. SizeOf[answered'] + remaining' = SizeOf[answered] + remaining
      BY <1>2, <1>3, <1>7, <3>2
    <3> QED BY <1>3, <1>6, <3>3, Zenon
  <2> QED BY <1>4, <2>1, <2>2 DEF CutLeavesNothing
<1>9. CutIsLast'
  <2> SUFFICES ASSUME NEW n \in 1..(Len(answered) + 1)
               PROVE  /\ answered'[n].how = "cut" => n = Len(answered')
                      /\ answered'[n].how = "skipped" =>
                           SizeOf[SubSeq(answered', 1, n - 1)] + Overhead(listed[n])
                             >= asked * CharsPerToken
    BY <1>3, <1>4, Zenon DEF CutIsLast
  <2>1. answered'[n].how = "cut" => n = Len(answered')
    BY <1>4, <1>8 DEF CutLeavesNothing
  <2>2. ASSUME answered'[n].how = "skipped"
        PROVE  SizeOf[SubSeq(answered', 1, n - 1)] + Overhead(listed[n]) >= asked * CharsPerToken
    <3>1. SubSeq(answered', 1, n - 1) = SubSeq(answered, 1, n - 1)
      BY <1>1, <1>2, <1>3, AnsweredBefore
    <3>2. CASE n = Len(answered) + 1
      <4>1. SubSeq(answered', 1, n - 1) = answered
        BY <1>1, <1>2, <3>1, <3>2, AnsweredBefore
      <4>2. how = "skipped" BY <1>1, <1>4, <2>2, <3>2
      <4>3. Looked = listed[n] BY <3>2 DEF Looked
      <4>4. Overhead(listed[n]) >= remaining /\ Overhead(listed[n]) \in Nat BY <4>2, <4>3
      <4>5. PICK o : o = Overhead(listed[n]) OBVIOUS
      <4>6. PICK b : b = asked * CharsPerToken OBVIOUS
      <4>7. SizeOf[answered] + remaining = b BY <1>6, <4>6
      <4>8. SizeOf[answered] + o >= b BY <1>2, <1>7, <4>4, <4>5, <4>7
      <4> QED BY <4>1, <4>5, <4>6, <4>8
    <3>3. CASE n # Len(answered) + 1
      <4>1. n \in 1..Len(answered) BY <1>4, <3>3
      <4>2. answered[n].how = "skipped" BY <1>4, <2>2, <4>1
      <4> QED BY <1>4, <3>1, <4>1, <4>2 DEF CutInv, CutIsLast
    <3> QED BY <3>2, <3>3
  <2> QED BY <2>1, <2>2
<1> QED BY <1>8, <1>9 DEF CutInv

\* Every action of the cap preserves CutInv.
LEMMA CutNextKeeps == CutInv /\ [CapsNext]_capsVars => CutInv'
<1> SUFFICES ASSUME CutInv, [CapsNext]_capsVars PROVE CutInv'
  OBVIOUS
<1>0. CapsInv /\ CapsInv' BY CapsNextKeeps DEF CutInv
<1>1. CASE UNCHANGED capsVars
  BY <1>0, <1>1 DEF capsVars, CutInv, CutLeavesNothing, CutIsLast
<1>2. ASSUME Looks
      PROVE  /\ Looked \in Serialized /\ JsonSize(Looked) \in Nat
             /\ Overhead(Looked) \in Nat /\ remaining \in Nat
  <2>1. /\ answered \in Seq(Answer) /\ listed \in Seq(Serialized)
        /\ remaining \in 0..(asked * CharsPerToken) /\ asked * CharsPerToken \in Nat
    BY <1>0, BudgetIsNumber DEF CapsInv, CapsTypeOK
  <2>2. Len(answered) + 1 \in 1..Len(listed)
    BY <1>2, <2>1, LenProperties DEF Looks
  <2>3. Looked \in Serialized
    BY <2>1, <2>2, ElementOfSeq DEF Looked
  <2>4. Looked.meta \in Nat /\ Looked.content \in Nat /\ Looked.cost \in Nat
    BY <2>3, CapsAssumption DEF Serialized
  <2>5. Looked.content * Looked.cost \in Nat
    BY <2>4
  <2> QED BY <2>1, <2>3, <2>4, <2>5, CapsAssumption DEF JsonSize, Overhead
<1>3. CASE TakeWhole
  <2>1. /\ Looks /\ JsonSize(Looked) <= remaining
        /\ AnswerWith("whole", JsonSize(Looked), remaining - JsonSize(Looked))
    BY <1>3 DEF TakeWhole
  <2>2. /\ JsonSize(Looked) \in Nat /\ remaining - JsonSize(Looked) \in Nat
        /\ JsonSize(Looked) + (remaining - JsonSize(Looked)) = remaining
    BY <1>2, <2>1
  <2> QED BY <1>0, <2>1, <2>2, AnsweredInTurn
<1>4. CASE SkipLarge
  <2>1. Looks /\ AnswerWith("skipped", 0, remaining) /\ Overhead(Looked) >= remaining
    BY <1>4 DEF SkipLarge
  <2>2. remaining \in Nat /\ 0 + remaining = remaining /\ Overhead(Looked) \in Nat
    BY <1>2, <2>1
  <2> QED BY <1>0, <2>1, <2>2, AnsweredInTurn
<1>5. CASE TakeCut
  <2>1. /\ Looks /\ Overhead(Looked) < remaining
        /\ AnswerWith("cut", Truncated(Looked, remaining), 0)
    BY <1>5 DEF TakeCut
  <2>2. Truncated(Looked, remaining) \in Nat
    BY <1>2, <2>1, CutFits
  <2> QED BY <1>0, <2>1, <2>2, AnsweredInTurn
<1> QED BY <1>1, <1>3, <1>4, <1>5 DEF CapsNext

\* cap_response cuts no observation but the last it answers, and skips none that
\* would fit, after those before it, with its content cut to nothing.
THEOREM OnlyTheLastIsCut == CapsSpec => []CutIsLast
<1>1. CutInv => CutIsLast BY DEF CutInv
<1> QED BY <1>1, CutStarts, CutNextKeeps, PTL DEF CapsSpec

\* The variables of the response cap keep their types.
THEOREM CapsTypeCorrect == CapsSpec => []CapsTypeOK
<1>1. CapsInv => CapsTypeOK BY DEF CapsInv
<1> QED BY <1>1, CapsInitEstablishes, CapsNextKeeps, PTL DEF CapsSpec

-----------------------------------------------------------------------------
(*****************************************************************************)
(* Limits.  No window of the clock, wherever it begins, has more requests of *)
(* one client that were let in than the limit, for every limit, window,      *)
(* cleanup age and number of clients.                                        *)
(*                                                                           *)
(* The limiter has forgotten most of what it let in; what it has are the     *)
(* last times, in the order of the clock, and whatever it forgot has left    *)
(* the window (Tracks).  MaxAge >= Window is what cleanup_old_entries needs  *)
(* for that.  What Recent keeps of a list in order is its end: that is an    *)
(* induction on the length, made with the smallest number at which it fails. *)
(*****************************************************************************)

\* What is kept of the first n times.
Keeping(f, times) ==
  f = [n \in 0..Len(times) |->
         IF n = 0 THEN <<>>
         ELSE IF now - times[n] < Window THEN Append(f[n - 1], times[n])
         ELSE f[n - 1]]

\* A function with that recursion is the only one.
LEMMA OneKeeping ==
  ASSUME NEW times, Len(times) \in Nat, NEW f, NEW g, Keeping(f, times), Keeping(g, times)
  PROVE  f[Len(times)] = g[Len(times)]
<1>. DEFINE S == {n \in 0..Len(times) : f[n] # g[n]}
<1>1. SUFFICES ASSUME S # {} PROVE FALSE
  <2>1. Len(times) \in 0..Len(times)
    OBVIOUS
  <2>. QED BY <2>1
<1>2. PICK n \in S : \A k \in S : n <= k
  <2>. HIDE DEF S
  <2>1. S \in SUBSET Nat
    BY DEF S
  <2>. QED BY <1>1, <2>1, LeastNumber
<1>3. n \in 0..Len(times) /\ f[n] # g[n]
  BY <1>2
<1>4. /\ f[n] = IF n = 0 THEN <<>>
                ELSE IF now - times[n] < Window THEN Append(f[n - 1], times[n]) ELSE f[n - 1]
      /\ g[n] = IF n = 0 THEN <<>>
                ELSE IF now - times[n] < Window THEN Append(g[n - 1], times[n]) ELSE g[n - 1]
  BY <1>3, Zenon DEF Keeping
<1>5. n # 0 /\ f[n - 1] # g[n - 1]
  BY <1>3, <1>4
<1>6. n - 1 \in S /\ n \in Nat
  BY <1>3, <1>5
<1>7. n <= n - 1
  BY <1>2, <1>6
<1>. QED BY <1>6, <1>7

\* Times in the order of the clock.
InOrder(times) ==
  /\ times \in Seq(Nat)
  /\ \A i, j \in DOMAIN times : i <= j => times[i] <= times[j]
  /\ \A i \in DOMAIN times : times[i] <= now

\* Of times in the order of the clock, all but the first few are recent.
LEMMA RecentIsSuffix ==
  ASSUME now \in Nat, NEW times, InOrder(times)
  PROVE  \E old \in 0..Len(times) :
           /\ Recent(times) = [k \in 1..(Len(times) - old) |-> times[old + k]]
           /\ Recent(times) \in Seq(Nat) /\ Len(Recent(times)) = Len(times) - old
           /\ \A i \in 1..old : now - times[i] >= Window
<1>0. Len(times) \in Nat /\ DOMAIN times = 1..Len(times) /\ \A i \in 1..Len(times) : times[i] \in Nat
  BY LenProperties, ElementOfSeq DEF InOrder
<1>00. Window \in Nat
  BY LimitsAssumption
<1>1. PICK old \in 0..Len(times) :
        \A i \in 1..Len(times) : now - times[i] < Window <=> i > old
  <2>. DEFINE S == {i \in 1..Len(times) : now - times[i] < Window}
  <2>1. CASE S = {}
    <3>1. Len(times) \in 0..Len(times) /\ \A i \in 1..Len(times) : ~(i > Len(times))
      BY <1>0
    <3>. QED BY <2>1, <3>1
  <2>2. CASE S # {}
    <3>1. PICK n \in S : \A k \in S : n <= k
      <4>. HIDE DEF S
      <4>1. S \in SUBSET Nat
        BY DEF S
      <4>. QED BY <2>2, <4>1, LeastNumber
    <3>2. n \in 1..Len(times) /\ now - times[n] < Window /\ n - 1 \in 0..Len(times)
      BY <1>0, <3>1
    <3>3. ASSUME NEW i \in 1..Len(times)
          PROVE  now - times[i] < Window <=> i > n - 1
      <4>1. CASE i > n - 1
        <5>1. n \in DOMAIN times /\ i \in DOMAIN times /\ n <= i
          BY <1>0, <3>2, <4>1
        <5>2. times[n] <= times[i]
          BY <5>1 DEF InOrder
        <5>. QED BY <1>0, <1>00, <3>2, <4>1, <5>2
      <4>2. CASE ~(i > n - 1)
        <5>1. i \notin S
          BY <1>0, <3>1, <3>2, <4>2
        <5>. QED BY <4>2, <5>1
      <4>. QED BY <4>1, <4>2
    <3>. QED BY <3>2, <3>3
  <2>. QED BY <2>1, <2>2
<1>2. PICK L \in Nat : L = Len(times)
  BY <1>0
<1>3. PICK least : \A n \in 0..L : least[n] = IF n < old THEN n ELSE old
  <2>. DEFINE l == [n \in 0..L |-> IF n < old THEN n ELSE old]
  <2>1. \A n \in 0..L : l[n] = IF n < old THEN n ELSE old
    OBVIOUS
  <2>. HIDE DEF l
  <2>. QED BY <2>1
<1>4. \A n \in 0..L : /\ n \in Nat /\ least[n] \in Nat /\ least[n] <= n
                      /\ least[n] <= old /\ n - least[n] \in Nat
                      /\ n # 0 => n - 1 \in 0..L
  BY <1>1, <1>2, <1>3
<1>. DEFINE piece(n) == [k \in 1..(n - least[n]) |-> times[least[n] + k]]
            g == [n \in 0..L |-> piece(n)]
<1>5. \A n \in 0..L : piece(n) \in Seq(Nat) /\ Len(piece(n)) = n - least[n]
  <2>. SUFFICES ASSUME NEW n \in 0..L
                PROVE  piece(n) \in Seq(Nat) /\ Len(piece(n)) = n - least[n]
    OBVIOUS
  <2>1. PICK m \in Nat : m = n - least[n]
    BY <1>4
  <2>2. \A k \in 1..m : least[n] + k \in 1..Len(times)
    BY <1>2, <1>4, <2>1
  <2>3. \A k \in 1..m : times[least[n] + k] \in Nat
    BY <1>0, <2>2
  <2>4. [k \in 1..m |-> times[least[n] + k]] \in Seq(Nat)
    BY <2>3, IsASeq
  <2>5. Len([k \in 1..m |-> times[least[n] + k]]) = m
    BY <2>1
  <2>. QED BY <2>1, <2>4, <2>5
<1>6. ASSUME NEW n \in 0..L
      PROVE  piece(n) = IF n = 0 THEN <<>>
                        ELSE IF now - times[n] < Window THEN Append(piece(n - 1), times[n])
                        ELSE piece(n - 1)
  <2>1. CASE n = 0
    <3>1. piece(n) \in Seq(Nat) /\ Len(piece(n)) = 0
      BY <1>4, <1>5, <2>1
    <3>. QED BY <2>1, <3>1, EmptySeq
  <2>2. CASE n # 0 /\ now - times[n] < Window
    <3>1. n \in 1..Len(times) /\ n - 1 \in 0..L /\ n > old
      BY <1>1, <1>2, <1>4, <2>2
    <3>2. least[n] = old /\ least[n - 1] = old
      BY <1>1, <1>3, <3>1
    <3>3. times[n] \in Nat /\ piece(n - 1) \in Seq(Nat) /\ Len(piece(n - 1)) = n - 1 - old
      BY <1>0, <1>5, <3>1, <3>2
    <3>4. PICK s : s = piece(n - 1)
      OBVIOUS
    <3>5. /\ Append(s, times[n]) \in Seq(Nat) /\ Len(Append(s, times[n])) = n - old
          /\ \A i \in 1..(n - 1 - old) : Append(s, times[n])[i] = s[i]
          /\ Append(s, times[n])[n - old] = times[n]
      <4>0. s \in Seq(Nat) /\ Len(s) = n - 1 - old
        BY <3>3, <3>4
      <4>1. /\ Append(s, times[n]) \in Seq(Nat) /\ Len(Append(s, times[n])) = Len(s) + 1
            /\ \A i \in 1..Len(s) : Append(s, times[n])[i] = s[i]
            /\ Append(s, times[n])[Len(s) + 1] = times[n]
        BY <3>3, <4>0, AppendProperties
      <4>2. Len(s) + 1 = n - old
        BY <1>4, <3>1, <4>0
      <4>. QED BY <4>0, <4>1, <4>2
    <3>6. \A i \in 1..(n - old) : piece(n)[i] = times[old + i]
      BY <3>2
    <3>7. \A i \in 1..(n - 1 - old) : s[i] = times[old + i]
      BY <3>2, <3>4
    <3>8. \A i \in 1..(n - old) : piece(n)[i] = Append(s, times[n])[i]
      <4>. SUFFICES ASSUME NEW i \in 1..(n - old)
                    PROVE  times[old + i] = Append(s, times[n])[i]
        BY <3>6
      <4>1. CASE i = n - old
        <5>1. old + i = n
          BY <3>1, <4>1
        <5>. QED BY <3>5, <4>1, <5>1
      <4>2. CASE i # n - old
        <5>1. i \in 1..(n - 1 - old)
          BY <3>1, <4>2
        <5>. QED BY <3>5, <3>7, <5>1
      <4>. QED BY <4>1, <4>2
    <3>9. piece(n) \in Seq(Nat) /\ Len(piece(n)) = n - old
      BY <1>5, <3>2
    <3>10. piece(n) = Append(s, times[n])
      <4>. HIDE DEF piece
      <4>. QED BY <3>5, <3>8, <3>9, SeqEqual
    <3>. QED BY <2>2, <3>4, <3>10
  <2>3. CASE n # 0 /\ ~(now - times[n] < Window)
    <3>1. n \in 1..Len(times) /\ n - 1 \in 0..L /\ n <= old
      BY <1>1, <1>2, <1>4, <2>3
    <3>2. least[n] = n /\ least[n - 1] = n - 1
      BY <1>1, <1>3, <3>1
    <3>3. /\ piece(n) \in Seq(Nat) /\ Len(piece(n)) = 0
          /\ piece(n - 1) \in Seq(Nat) /\ Len(piece(n - 1)) = 0
      BY <1>5, <3>1, <3>2
    <3>4. piece(n) = <<>> /\ piece(n - 1) = <<>>
      <4>. HIDE DEF piece
      <4>. QED BY <3>3, EmptySeq
    <3>. QED BY <2>3, <3>4
  <2>. QED BY <2>1, <2>2, <2>3
<1>7. Keeping(g, times)
  <2>. HIDE DEF piece
  <2>1. \A n \in 0..L : n # 0 => g[n - 1] = piece(n - 1)
    BY <1>4
  <2>2. \A n \in 0..L :
          piece(n) = IF n = 0 THEN <<>>
                     ELSE IF now - times[n] < Window THEN Append(g[n - 1], times[n])
                     ELSE g[n - 1]
    BY <1>6, <2>1
  <2>. QED BY <1>2, <2>2 DEF Keeping
<1>8. Recent(times) = piece(L)
  <2>. HIDE DEF g, piece
  <2>1. PICK f : f = CHOOSE h : Keeping(h, times)
    OBVIOUS
  <2>2. Keeping(f, times)
    BY <1>7, <2>1
  <2>3. Recent(times) = f[Len(times)]
    BY <2>1, Zenon DEF Recent, Keeping
  <2>4. f[Len(times)] = g[Len(times)]
    BY <1>0, <1>7, <2>2, OneKeeping
  <2>5. g[L] = piece(L)
    BY <1>2 DEF g
  <2>. QED BY <1>2, <2>3, <2>4, <2>5
<1>9. least[L] = old /\ L \in 0..L
  BY <1>1, <1>2, <1>3
<1>10. \A i \in 1..old : now - times[i] >= Window
  <2>. SUFFICES ASSUME NEW i \in 1..old
                PROVE  now - times[i] >= Window
    OBVIOUS
  <2>0. i \in 1..Len(times) /\ ~(i > old)
    BY <1>0, <1>1
  <2>1. times[i] <= now /\ times[i] \in Nat
    BY <1>0, <2>0 DEF InOrder
  <2>2. ~(now - times[i] < Window)
    BY <1>1, <2>0
  <2>. QED BY <1>00, <2>1, <2>2
<1>11. piece(L) \in Seq(Nat) /\ Len(piece(L)) = Len(times) - old
       /\ piece(L) = [k \in 1..(Len(times) - old) |-> times[old + k]]
  BY <1>2, <1>5, <1>9
<1>. HIDE DEF piece
<1>. QED BY <1>8, <1>10, <1>11

\* kept is what a client's list of requests has of all that were admitted: the
\* last ones, and all that are in the window.
Tracks(kept, all) ==
  \E dropped \in 0..Len(all) :
    /\ kept \in Seq(Nat) /\ Len(kept) = Len(all) - dropped
    /\ \A k \in 1..Len(kept) : kept[k] = all[dropped + k]
    /\ \A i \in 1..dropped : now - all[i] >= Window

\* What WindowHolds says of the requests admitted for one client.
Spaced(all) ==
  \A i \in DOMAIN all :
    i + MaxRequests \in DOMAIN all => all[i + MaxRequests] - all[i] >= Window

\* The last of the admitted times are in the order of the clock, too.
LEMMA TracksInOrder ==
  ASSUME now \in Nat, NEW all, InOrder(all), NEW kept, Tracks(kept, all)
  PROVE  InOrder(kept)
<1>1. PICK dropped \in 0..Len(all) :
        /\ kept \in Seq(Nat) /\ Len(kept) = Len(all) - dropped
        /\ \A k \in 1..Len(kept) : kept[k] = all[dropped + k]
  BY DEF Tracks
<1>2. /\ Len(all) \in Nat /\ DOMAIN all = 1..Len(all)
      /\ DOMAIN kept = 1..Len(kept) /\ Len(kept) \in Nat
  BY <1>1, LenProperties DEF InOrder
<1>3. \A k \in DOMAIN kept : dropped + k \in DOMAIN all /\ kept[k] = all[dropped + k]
  BY <1>1, <1>2
<1>4. ASSUME NEW i \in DOMAIN kept, NEW j \in DOMAIN kept, i <= j
      PROVE  kept[i] <= kept[j]
  <2>1. dropped + i <= dropped + j
    BY <1>1, <1>2, <1>4
  <2>2. all[dropped + i] <= all[dropped + j]
    BY <1>3, <2>1 DEF InOrder
  <2>. QED BY <1>3, <2>2
<1>5. \A i \in DOMAIN kept : kept[i] <= now
  BY <1>3 DEF InOrder
<1>. QED BY <1>1, <1>4, <1>5 DEF InOrder

\* What is recent of them is still all that is in the window.
LEMMA RecentTracks ==
  ASSUME now \in Nat, NEW all, InOrder(all), NEW kept, Tracks(kept, all)
  PROVE  Tracks(Recent(kept), all)
<1>1. PICK dropped \in 0..Len(all) :
        /\ kept \in Seq(Nat) /\ Len(kept) = Len(all) - dropped
        /\ \A k \in 1..Len(kept) : kept[k] = all[dropped + k]
        /\ \A i \in 1..dropped : now - all[i] >= Window
  BY DEF Tracks
<1>2. Len(all) \in Nat
  BY LenProperties DEF InOrder
<1>3. InOrder(kept)
  BY TracksInOrder
<1>4. PICK old \in 0..Len(kept) :
        /\ Recent(kept) = [k \in 1..(Len(kept) - old) |-> kept[old + k]]
        /\ Recent(kept) \in Seq(Nat) /\ Len(Recent(kept)) = Len(kept) - old
        /\ \A i \in 1..old : now - kept[i] >= Window
  BY <1>3, RecentIsSuffix
<1>5. dropped + old \in 0..Len(all) /\ Len(Recent(kept)) = Len(all) - (dropped + old)
  BY <1>1, <1>2, <1>4
<1>6. ASSUME NEW k \in 1..Len(Recent(kept))
      PROVE  Recent(kept)[k] = all[(dropped + old) + k]
  <2>1. k \in 1..(Len(kept) - old) /\ old + k \in 1..Len(kept)
    BY <1>1, <1>2, <1>4
  <2>2. Recent(kept)[k] = kept[old + k] /\ kept[old + k] = all[dropped + (old + k)]
    BY <1>1, <1>4, <2>1
  <2>3. dropped + (old + k) = (dropped + old) + k
    BY <1>1, <1>4, <2>1
  <2>. QED BY <2>2, <2>3
<1>7. ASSUME NEW i \in 1..(dropped + old)
      PROVE  now - all[i] >= Window
  <2>1. CASE i \in 1..dropped
    BY <1>1, <2>1
  <2>2. CASE i \notin 1..dropped
    <3>1. i - dropped \in 1..old /\ i - dropped \in 1..Len(kept) /\ dropped + (i - dropped) = i
      BY <1>1, <1>2, <1>4, <2>2
    <3>2. kept[i - dropped] = all[i]
      BY <1>1, <3>1
    <3>. QED BY <1>4, <3>1, <3>2
  <2>. QED BY <2>1, <2>2
<1>. QED BY <1>4, <1>5, <1>6, <1>7 DEF Tracks

\* One more is admitted while fewer than MaxRequests are in the window.
LEMMA AdmitTracks ==
  ASSUME now \in Nat, NEW all, InOrder(all), Spaced(all),
         NEW kept, Tracks(kept, all), Len(kept) < MaxRequests
  PROVE  /\ InOrder(Append(all, now)) /\ Spaced(Append(all, now))
         /\ Tracks(Append(kept, now), Append(all, now))
<1>0. MaxRequests \in Nat /\ MaxRequests > 0 /\ Window \in Nat
  BY LimitsAssumption
<1>1. PICK dropped \in 0..Len(all) :
        /\ kept \in Seq(Nat) /\ Len(kept) = Len(all) - dropped
        /\ \A k \in 1..Len(kept) : kept[k] = all[dropped + k]
        /\ \A i \in 1..dropped : now - all[i] >= Window
  BY DEF Tracks
<1>2. PICK new : new = Append(all, now)
  OBVIOUS
<1>3. all \in Seq(Nat) /\ Len(all) \in Nat /\ DOMAIN all = 1..Len(all)
  BY LenProperties DEF InOrder
<1>4. /\ new \in Seq(Nat) /\ Len(new) = Len(all) + 1 /\ DOMAIN new = 1..(Len(all) + 1)
      /\ \A i \in 1..Len(all) : new[i] = all[i]
      /\ new[Len(all) + 1] = now
  <2>1. /\ new \in Seq(Nat) /\ Len(new) = Len(all) + 1
        /\ \A i \in 1..Len(all) : new[i] = all[i]
        /\ new[Len(all) + 1] = now
    BY <1>2, <1>3, AppendProperties
  <2>2. DOMAIN new = 1..Len(new)
    BY <2>1, LenProperties
  <2>. QED BY <2>1, <2>2
<1>5. \A i \in DOMAIN new : new[i] <= now /\ new[i] \in Nat
  <2>1. \A i \in 1..Len(all) : all[i] <= now /\ all[i] \in Nat
    BY <1>3, ElementOfSeq DEF InOrder
  <2>2. \A i \in DOMAIN new : i \in 1..Len(all) \/ i = Len(all) + 1
    BY <1>3, <1>4
  <2>. QED BY <1>4, <2>1, <2>2
<1>6. InOrder(new)
  <2>1. ASSUME NEW i \in DOMAIN new, NEW j \in DOMAIN new, i <= j
        PROVE  new[i] <= new[j]
    <3>1. CASE j = Len(all) + 1
      BY <1>4, <1>5, <3>1
    <3>2. CASE j # Len(all) + 1
      <4>1. i \in DOMAIN all /\ j \in DOMAIN all
        BY <1>3, <1>4, <2>1, <3>2
      <4>2. all[i] <= all[j]
        BY <2>1, <4>1 DEF InOrder
      <4>. QED BY <1>3, <1>4, <4>1, <4>2
    <3>. QED BY <3>1, <3>2
  <2>. QED BY <1>4, <1>5, <2>1 DEF InOrder
<1>7. Spaced(new)
  <2>. SUFFICES ASSUME NEW i \in DOMAIN new, i + MaxRequests \in DOMAIN new
                PROVE  new[i + MaxRequests] - new[i] >= Window
    BY DEF Spaced
  <2>0. i \in 1..Len(all)
    BY <1>0, <1>3, <1>4
  <2>1. CASE i + MaxRequests \in DOMAIN all
    BY <1>3, <1>4, <2>0, <2>1 DEF Spaced
  <2>2. CASE i + MaxRequests \notin DOMAIN all
    <3>1. i + MaxRequests = Len(all) + 1
      BY <1>0, <1>3, <1>4, <2>0, <2>2
    <3>2. i \in 1..dropped
      BY <1>0, <1>1, <1>3, <2>0, <3>1
    <3>3. now - all[i] >= Window
      BY <1>1, <3>2
    <3>. QED BY <1>4, <2>0, <3>1, <3>3
  <2>. QED BY <2>1, <2>2
<1>8. Tracks(Append(kept, now), new)
  <2>1. /\ Append(kept, now) \in Seq(Nat) /\ Len(Append(kept, now)) = Len(kept) + 1
        /\ \A i \in 1..Len(kept) : Append(kept, now)[i] = kept[i]
        /\ Append(kept, now)[Len(kept) + 1] = now
    BY <1>1, AppendProperties
  <2>2. dropped \in 0..Len(new) /\ Len(Append(kept, now)) = Len(new) - dropped
    BY <1>1, <1>3, <1>4, <2>1
  <2>3. \A i \in 1..dropped : now - new[i] >= Window
    <3>1. \A i \in 1..dropped : i \in 1..Len(all)
      BY <1>1, <1>3
    <3>. QED BY <1>1, <1>4, <3>1
  <2>4. ASSUME NEW k \in 1..Len(Append(kept, now))
        PROVE  Append(kept, now)[k] = new[dropped + k]
    <3>1. CASE k = Len(kept) + 1
      <4>1. dropped + k = Len(all) + 1
        BY <1>1, <1>3, <3>1
      <4>. QED BY <1>4, <2>1, <3>1, <4>1
    <3>2. CASE k # Len(kept) + 1
      <4>1. k \in 1..Len(kept) /\ dropped + k \in 1..Len(all)
        BY <1>1, <1>3, <2>1, <3>2
      <4>. QED BY <1>1, <1>4, <2>1, <4>1
    <3>. QED BY <3>1, <3>2
  <2>. QED BY <2>1, <2>2, <2>3, <2>4 DEF Tracks
<1>. QED BY <1>2, <1>6, <1>7, <1>8

\* The clock goes on, and what has left the window stays out of it.
LEMMA ClockGoesOn ==
  ASSUME now \in Nat, now' = now + 1, NEW all, InOrder(all)
  PROVE  InOrder(all)' /\ \A kept : Tracks(kept, all) => Tracks(kept, all)'
<1>1. /\ all \in Seq(Nat) /\ Len(all) \in Nat /\ DOMAIN all = 1..Len(all)
      /\ \A i \in 1..Len(all) : all[i] \in Nat
  BY LenProperties, ElementOfSeq DEF InOrder
<1>2. Window \in Nat
  BY LimitsAssumption
<1>3. InOrder(all)'
  <2>1. \A i \in DOMAIN all : all[i] <= now'
    BY <1>1 DEF InOrder
  <2>. QED BY <2>1 DEF InOrder
<1>4. ASSUME NEW kept, Tracks(kept, all)
      PROVE  Tracks(kept, all)'
  <2>1. PICK dropped \in 0..Len(all) :
          /\ kept \in Seq(Nat) /\ Len(kept) = Len(all) - dropped
          /\ \A k \in 1..Len(kept) : kept[k] = all[dropped + k]
          /\ \A i \in 1..dropped : now - all[i] >= Window
    BY <1>4 DEF Tracks
  <2>2. ASSUME NEW i \in 1..dropped
        PROVE  now' - all[i] >= Window
    <3>1. i \in 1..Len(all)
      BY <1>1, <2>1
    <3>2. all[i] \in Nat /\ now - all[i] >= Window
      BY <1>1, <2>1, <3>1
    <3>. QED BY <1>2, <3>2
  <2>. QED BY <2>1, <2>2 DEF Tracks
<1>. QED BY <1>3, <1>4

\* What a limiter remembers of a client, against what it has admitted.
ClientInv(c) ==
  /\ InOrder(admitted[c]) /\ Spaced(admitted[c])
  /\ Tracks(entries[c].requests, admitted[c])

\* The inductive invariant of the limiters.
LimitsInv ==
  /\ LimitsTypeOK
  /\ InOrder(stamps)
  /\ \A c \in Clients : ClientInv(c)

\* Recent times are times.
LEMMA RecentTypes ==
  ASSUME now \in Nat, NEW times, InOrder(times), NEW S, times \in Seq(S)
  PROVE  Recent(times) \in Seq(S) /\ InOrder(Recent(times))
<1>1. Tracks(times, times)
  <2>1. times \in Seq(Nat) /\ Len(times) \in Nat
    BY LenProperties DEF InOrder
  <2>2. 0 \in 0..Len(times) /\ Len(times) = Len(times) - 0
    BY <2>1
  <2>3. \A k \in 1..Len(times) : 0 + k = k
    BY <2>1
  <2>4. \A i \in 1..0 : now - times[i] >= Window
    OBVIOUS
  <2>. QED BY <2>1, <2>2, <2>3, <2>4 DEF Tracks
<1>2. InOrder(Recent(times))
  BY <1>1, RecentTracks, TracksInOrder
<1>3. PICK old \in 0..Len(times) :
        /\ Recent(times) = [k \in 1..(Len(times) - old) |-> times[old + k]]
        /\ Recent(times) \in Seq(Nat) /\ Len(Recent(times)) = Len(times) - old
  BY RecentIsSuffix
<1>4. Len(times) \in Nat /\ Len(times) - old \in Nat /\ old \in Nat
  BY <1>3, LenProperties
<1>5. \A k \in 1..(Len(times) - old) : old + k \in 1..Len(times)
  BY <1>4
<1>6. \A k \in 1..(Len(times) - old) : times[old + k] \in S
  BY <1>5, ElementOfSeq
<1>7. [k \in 1..(Len(times) - old) |-> times[old + k]] \in Seq(S)
  BY <1>4, <1>6, IsASeq
<1>. QED BY <1>2, <1>3, <1>7

\* The time that goes with a stamp or a request.
LEMMA AppendInOrder ==
  ASSUME now \in Times, NEW times, InOrder(times), times \in Seq(Times)
  PROVE  Append(times, now) \in Seq(Times) /\ InOrder(Append(times, now))
<1>0. now \in Nat
  BY LimitsAssumption DEF Times
<1>1. PICK new : new = Append(times, now)
  OBVIOUS
<1>2. new \in Seq(Times)
  BY <1>1, AppendProperties
<1>3. /\ times \in Seq(Nat) /\ Len(times) \in Nat /\ DOMAIN times = 1..Len(times)
      /\ \A i \in 1..Len(times) : times[i] \in Nat /\ times[i] <= now
  BY LenProperties, ElementOfSeq DEF InOrder
<1>4. /\ new \in Seq(Nat) /\ Len(new) = Len(times) + 1
      /\ \A i \in 1..Len(times) : new[i] = times[i]
      /\ new[Len(times) + 1] = now
  BY <1>0, <1>1, <1>3, AppendProperties
<1>5. DOMAIN new = 1..(Len(times) + 1)
  BY <1>4, LenProperties
<1>6. \A i \in DOMAIN new : i \in 1..Len(times) \/ i = Len(times) + 1
  BY <1>3, <1>5
<1>7. \A i \in DOMAIN new : new[i] <= now
  BY <1>0, <1>3, <1>4, <1>6
<1>8. ASSUME NEW i \in DOMAIN new, NEW j \in DOMAIN new, i <= j
      PROVE  new[i] <= new[j]
  <2>1. CASE j = Len(times) + 1
    BY <1>4, <1>7, <2>1
  <2>2. CASE j # Len(times) + 1
    <3>1. i \in DOMAIN times /\ j \in DOMAIN times
      BY <1>3, <1>5, <1>8, <2>2
    <3>2. times[i] <= times[j]
      BY <1>8, <3>1 DEF InOrder
    <3>. QED BY <1>3, <1>4, <3>1, <3>2
  <2>. QED BY <2>1, <2>2
<1>. QED BY <1>1, <1>2, <1>4, <1>7, <1>8 DEF InOrder

\* A request that is let in.
LEMMA AdmitKeeps ==
  ASSUME LimitsInv, NEW c \in Clients, Admit(c), UNCHANGED <<stamps, noted, config, now>>
  PROVE  LimitsInv'
<1>0. now \in Times /\ now \in Nat
  BY LimitsAssumption DEF LimitsInv, LimitsTypeOK, Times
<1>1. PICK all, kept, recent : all = admitted[c] /\ kept = entries[c].requests /\ recent = Recent(kept)
  OBVIOUS
<1>2. /\ entries[c] \in Entry /\ kept \in Seq(Times) /\ entries[c].blocked_until \in 0..MaxNow + Window
      /\ all \in Seq(Times)
  BY <1>1 DEF LimitsInv, LimitsTypeOK, Entry
<1>3. InOrder(all) /\ Spaced(all) /\ Tracks(kept, all)
  BY <1>1 DEF LimitsInv, ClientInv
<1>4. InOrder(kept)
  BY <1>0, <1>3, TracksInOrder
<1>5. /\ recent \in Seq(Times) /\ InOrder(recent) /\ Tracks(recent, all)
  BY <1>0, <1>1, <1>2, <1>3, <1>4, RecentTypes, RecentTracks
<1>6. Len(recent) < MaxRequests
  <2>1. Len(recent) \in Nat /\ MaxRequests \in Nat
    BY <1>5, LenProperties, LimitsAssumption
  <2>. QED BY <1>1, <2>1 DEF Admit, Full
<1>7. /\ InOrder(Append(all, now)) /\ Spaced(Append(all, now))
      /\ Tracks(Append(recent, now), Append(all, now))
  BY <1>0, <1>3, <1>5, <1>6, AdmitTracks
<1>8. Append(all, now) \in Seq(Times) /\ Append(recent, now) \in Seq(Times)
  BY <1>0, <1>2, <1>3, <1>5, AppendInOrder
<1>9. /\ entries' = [entries EXCEPT ![c] = [entries[c] EXCEPT !.requests = Append(recent, now)]]
      /\ admitted' = [admitted EXCEPT ![c] = Append(all, now)]
      /\ told' = [told EXCEPT ![c] = 0]
  BY <1>1 DEF Admit
<1>10. [entries[c] EXCEPT !.requests = Append(recent, now)] \in Entry
  BY <1>2, <1>8 DEF Entry
<1>11. LimitsTypeOK'
  <2>1. entries' \in [Clients -> Entry]
    BY <1>9, <1>10 DEF LimitsInv, LimitsTypeOK
  <2>2. admitted' \in [Clients -> Seq(Times)]
    BY <1>8, <1>9 DEF LimitsInv, LimitsTypeOK
  <2>3. told' \in [Clients -> 0..MaxNow + Window]
    <3>1. 0 \in 0..MaxNow + Window
      BY LimitsAssumption
    <3>. QED BY <1>9, <3>1 DEF LimitsInv, LimitsTypeOK
  <2>. QED BY <2>1, <2>2, <2>3 DEF LimitsInv, LimitsTypeOK
<1>12. ASSUME NEW d \in Clients
       PROVE  ClientInv(d)'
  <2>1. entries \in [Clients -> Entry] /\ admitted \in [Clients -> Seq(Times)]
    BY DEF LimitsInv, LimitsTypeOK
  <2>2. CASE d = c
    <3>1. entries'[c] = [entries[c] EXCEPT !.requests = Append(recent, now)]
      BY <1>9, <2>1
    <3>2. entries'[c].requests = Append(recent, now) /\ admitted'[c] = Append(all, now)
      BY <1>2, <1>9, <2>1, <3>1 DEF Entry
    <3>. QED BY <1>7, <2>2, <3>2 DEF ClientInv, InOrder, Tracks, Spaced
  <2>3. CASE d # c
    <3>1. entries'[d] = entries[d] /\ admitted'[d] = admitted[d]
      BY <1>9, <2>1, <2>3
    <3>2. ClientInv(d)
      BY DEF LimitsInv
    <3>. QED BY <3>1, <3>2 DEF ClientInv, InOrder, Tracks, Spaced
  <2>. QED BY <2>2, <2>3
<1>13. InOrder(stamps)'
  BY DEF LimitsInv, InOrder
<1>. QED BY <1>11, <1>12, <1>13 DEF LimitsInv

\* Division, as far as the Retry-After header needs it.
LEMMA WholeSeconds ==
  ASSUME NEW a \in Nat, NEW b \in Nat \ {0}
  PROVE  /\ a \div b \in Nat
         /\ b * (a \div b) <= a /\ b * (a \div b) \in Nat
BY SMTT(30)

\* Steps that let nobody in: a client's requests are cut to the recent ones, or
\* were out of the window and are forgotten.
LEMMA OthersKeep ==
  ASSUME LimitsInv, LimitsTypeOK', UNCHANGED <<admitted, stamps, now>>,
         \A c \in Clients : Tracks(entries'[c].requests, admitted[c])
  PROVE  LimitsInv'
<1>1. ASSUME NEW c \in Clients
      PROVE  ClientInv(c)'
  <2>1. ClientInv(c)
    BY DEF LimitsInv
  <2>. QED BY <2>1 DEF ClientInv, InOrder, Tracks, Spaced
<1>2. InOrder(stamps)'
  BY DEF LimitsInv, InOrder
<1>. QED BY <1>1, <1>2 DEF LimitsInv

\* A request that is refused: the client may be blocked, its times stay.
LEMMA RefuseKeeps ==
  ASSUME LimitsInv, NEW c \in Clients, Refuse(c), UNCHANGED <<admitted, stamps, noted, config, now>>
  PROVE  LimitsInv'
<1>0. /\ now \in Times /\ now \in Nat /\ now <= MaxNow /\ MaxNow \in Nat /\ Window \in Nat
      /\ Second \in Nat \ {0}
  BY LimitsAssumption DEF LimitsInv, LimitsTypeOK, Times
<1>1. PICK kept, blocked : kept = entries[c].requests /\ blocked = entries[c].blocked_until
  OBVIOUS
<1>2. /\ entries[c] \in Entry /\ kept \in Seq(Times) /\ blocked \in 0..MaxNow + Window
  BY <1>1 DEF LimitsInv, LimitsTypeOK, Entry
<1>3. InOrder(admitted[c]) /\ Tracks(kept, admitted[c]) /\ \A d \in Clients : Tracks(entries[d].requests, admitted[d])
  BY <1>1 DEF LimitsInv, ClientInv
<1>4. CASE /\ Refusing(c)
           /\ told' = [told EXCEPT ![c] = now + Second * ((entries[c].blocked_until - now) \div Second)]
           /\ UNCHANGED entries
  <2>1. blocked - now \in Nat
    BY <1>0, <1>1, <1>2, <1>4 DEF Refusing
  <2>2. PICK wait \in Nat : wait = Second * ((blocked - now) \div Second) /\ wait <= blocked - now
    BY <1>0, <2>1, WholeSeconds
  <2>3. now + wait \in 0..MaxNow + Window
    BY <1>0, <1>2, <2>1, <2>2
  <2>4. told' = [told EXCEPT ![c] = now + wait]
    BY <1>1, <1>4, <2>2
  <2>5. LimitsTypeOK'
    BY <1>4, <2>3, <2>4 DEF LimitsInv, LimitsTypeOK
  <2>. QED BY <1>3, <1>4, <2>5, OthersKeep
<1>5. CASE /\ entries' = [entries EXCEPT ![c] =
                [requests |-> Recent(@.requests), blocked_until |-> now + Window]]
           /\ told' = [told EXCEPT ![c] = now + Window]
  <2>1. InOrder(kept)
    BY <1>0, <1>3, TracksInOrder
  <2>2. Recent(kept) \in Seq(Times) /\ Tracks(Recent(kept), admitted[c])
    BY <1>0, <1>2, <1>3, <2>1, RecentTypes, RecentTracks
  <2>3. now + Window \in 0..MaxNow + Window
    BY <1>0
  <2>4. PICK new : new = [requests |-> Recent(kept), blocked_until |-> now + Window]
    OBVIOUS
  <2>5. new \in Entry /\ new.requests = Recent(kept)
    BY <2>2, <2>3, <2>4 DEF Entry
  <2>6. entries' = [entries EXCEPT ![c] = new]
    BY <1>1, <1>5, <2>4
  <2>7. LimitsTypeOK'
    <3>1. entries' \in [Clients -> Entry]
      BY <2>5, <2>6 DEF LimitsInv, LimitsTypeOK
    <3>2. told' \in [Clients -> 0..MaxNow + Window]
      BY <1>5, <2>3 DEF LimitsInv, LimitsTypeOK
    <3>. QED BY <3>1, <3>2 DEF LimitsInv, LimitsTypeOK
  <2>8. \A d \in Clients : entries'[d] = IF d = c THEN new ELSE entries[d]
    BY <2>6 DEF LimitsInv, LimitsTypeOK
  <2>9. \A d \in Clients : Tracks(entries'[d].requests, admitted[d])
    BY <1>3, <2>2, <2>5, <2>8
  <2>. QED BY <2>7, <2>9, OthersKeep
<1>. QED BY <1>4, <1>5 DEF Refuse

\* cleanup_old_entries forgets only what has left the window.
LEMMA ForgettingKeeps ==
  ASSUME LimitsInv, cleanup_old_entries
  PROVE  LimitsInv'
<1>0. /\ now \in Times /\ now \in Nat /\ MaxAge \in Nat /\ Window \in Nat /\ MaxAge >= Window /\ MaxNow \in Nat
  BY LimitsAssumption DEF LimitsInv, LimitsTypeOK, Times
<1>1. NoEntry \in Entry /\ NoEntry.requests = <<>>
  <2>1. <<>> \in Seq(Times) /\ 0 \in 0..MaxNow + Window
    BY <1>0, EmptySeq
  <2>. QED BY <2>1 DEF NoEntry, Entry
<1>2. entries' = [c \in Clients |-> IF Old(c) THEN NoEntry ELSE entries[c]]
  BY DEF cleanup_old_entries
<1>3. LimitsTypeOK'
  BY <1>1, <1>2 DEF cleanup_old_entries, LimitsInv, LimitsTypeOK
<1>4. ASSUME NEW c \in Clients
      PROVE  Tracks(entries'[c].requests, admitted[c])
  <2>1. PICK all, kept : all = admitted[c] /\ kept = entries[c].requests
    OBVIOUS
  <2>2. InOrder(all) /\ Tracks(kept, all)
    BY <2>1 DEF LimitsInv, ClientInv
  <2>3. CASE ~Old(c)
    BY <1>2, <2>1, <2>2, <2>3
  <2>4. CASE Old(c)
    <3>1. PICK dropped \in 0..Len(all) :
            /\ kept \in Seq(Nat) /\ Len(kept) = Len(all) - dropped
            /\ \A k \in 1..Len(kept) : kept[k] = all[dropped + k]
            /\ \A i \in 1..dropped : now - all[i] >= Window
      BY <2>2 DEF Tracks
    <3>2. /\ all \in Seq(Nat) /\ Len(all) \in Nat /\ DOMAIN all = 1..Len(all)
          /\ \A i \in 1..Len(all) : all[i] \in Nat
      BY <2>2, LenProperties, ElementOfSeq DEF InOrder
    <3>3. \A i \in 1..Len(all) : now - all[i] >= Window
      <4>1. CASE kept = <<>>
        <5>1. dropped = Len(all)
          BY <3>1, <3>2, <4>1, EmptySeq
        <5>. QED BY <3>1, <5>1
      <4>2. CASE kept # <<>>
        <5>1. Len(kept) \in Nat \ {0}
          BY <3>1, <4>2, EmptySeq
        <5>2. dropped + Len(kept) = Len(all) /\ Len(all) \in 1..Len(all)
          BY <3>1, <3>2, <5>1
        <5>3. kept[Len(kept)] = all[Len(all)]
          BY <3>1, <5>1, <5>2
        <5>4. now - all[Len(all)] > MaxAge
          BY <2>1, <2>4, <4>2, <5>3 DEF Old, Latest
        <5>. SUFFICES ASSUME NEW i \in 1..Len(all)
                      PROVE  now - all[i] >= Window
          OBVIOUS
        <5>5. all[i] <= all[Len(all)]
          BY <2>2, <3>2, <5>2 DEF InOrder
        <5>6. \A x, y \in Nat : x <= y /\ now - y > MaxAge => now - x >= Window
          BY <1>0
        <5>. QED BY <3>2, <5>2, <5>4, <5>5, <5>6
      <4>. QED BY <4>1, <4>2
    <3>4. <<>> \in Seq(Nat) /\ Len(<<>>) = Len(all) - Len(all) /\ Len(all) \in 0..Len(all)
      BY <3>2, EmptySeq
    <3>5. \A k \in 1..Len(<<>>) : <<>>[k] = all[Len(all) + k]
      BY EmptySeq
    <3>6. Tracks(<<>>, all)
      BY <3>3, <3>4, <3>5 DEF Tracks
    <3>. QED BY <1>1, <1>2, <2>1, <2>4, <3>6
  <2>. QED BY <2>3, <2>4
<1>. QED BY <1>3, <1>4, OthersKeep DEF cleanup_old_entries

\* A capture is let in, or dropped.
LEMMA CapturingKeeps ==
  ASSUME LimitsInv, Capturing
  PROVE  LimitsInv'
<1>0. now \in Times /\ now \in Nat
  BY LimitsAssumption DEF LimitsInv, LimitsTypeOK, Times
<1>1. InOrder(stamps) /\ stamps \in Seq(Times)
  BY DEF LimitsInv, LimitsTypeOK
<1>2. Recent(stamps) \in Seq(Times) /\ InOrder(Recent(stamps))
  BY <1>0, <1>1, RecentTypes
<1>3. Append(Recent(stamps), now) \in Seq(Times) /\ InOrder(Append(Recent(stamps), now))
  BY <1>0, <1>2, AppendInOrder
<1>4. <<>> \in Seq(Times) /\ InOrder(<<>>)
  <2>1. <<>> \in Seq(Times) /\ <<>> \in Seq(Nat) /\ DOMAIN <<>> = {}
    BY EmptySeq
  <2>. QED BY <2>1 DEF InOrder
<1>5. stamps' \in {stamps, Recent(stamps), Append(Recent(stamps), now), <<>>}
  BY DEF Capturing, capture, TakeStamp, reset_key
<1>6. noted' \subseteq HookMessages /\ UNCHANGED <<entries, admitted, told, config, now>>
  BY DEF Capturing, capture, reset_key, LimitsInv, LimitsTypeOK
<1>7. stamps' \in Seq(Times) /\ InOrder(stamps')
  BY <1>1, <1>2, <1>3, <1>4, <1>5
<1>8. InOrder(stamps)'
  BY <1>6, <1>7 DEF InOrder
<1>9. \A c \in Clients : ClientInv(c)'
  <2>1. \A c \in Clients : ClientInv(c)
    BY DEF LimitsInv
  <2>. QED BY <1>6, <2>1 DEF ClientInv, InOrder, Tracks, Spaced
<1>. QED BY <1>6, <1>7, <1>8, <1>9 DEF LimitsInv, LimitsTypeOK

\* The clock goes on.
LEMMA TimePassedKeeps ==
  ASSUME LimitsInv, TimePassed
  PROVE  LimitsInv'
<1>1. /\ now \in Nat /\ now' = now + 1 /\ now' \in Times
      /\ UNCHANGED <<entries, admitted, told, stamps, noted, config>>
  BY LimitsAssumption DEF TimePassed, LimitsInv, LimitsTypeOK, Times
<1>2. ASSUME NEW c \in Clients
      PROVE  ClientInv(c)'
  <2>1. PICK all, kept : all = admitted[c] /\ kept = entries[c].requests
    OBVIOUS
  <2>2. InOrder(all) /\ Spaced(all) /\ Tracks(kept, all)
    BY <2>1 DEF LimitsInv, ClientInv
  <2>3. InOrder(all)' /\ Tracks(kept, all)'
    BY <1>1, <2>2, ClockGoesOn
  <2>4. all = admitted'[c] /\ kept = entries'[c].requests
    BY <1>1, <2>1
  <2>. QED BY <2>2, <2>3, <2>4 DEF ClientInv, InOrder, Tracks, Spaced
<1>3. InOrder(stamps)'
  <2>1. PICK times : times = stamps
    OBVIOUS
  <2>2. InOrder(times)'
    BY <1>1, <2>1, ClockGoesOn DEF LimitsInv
  <2>. QED BY <1>1, <2>1, <2>2 DEF InOrder
<1>. QED BY <1>1, <1>2, <1>3 DEF LimitsInv, LimitsTypeOK

\* The limiters start with no times.
LEMMA LimitsStart == LimitsInit => LimitsInv
<1>. SUFFICES ASSUME LimitsInit
              PROVE  LimitsInv
  OBVIOUS
<1>1. <<>> \in Seq(Times) /\ <<>> \in Seq(Nat) /\ DOMAIN <<>> = {} /\ Len(<<>>) = 0
  BY EmptySeq
<1>2. 0 \in Times /\ 0 \in 0..MaxNow + Window
  BY LimitsAssumption DEF Times
<1>3. LimitsTypeOK
  BY <1>1, <1>2 DEF LimitsInit, LimitsTypeOK, NoEntry, Entry
<1>4. InOrder(<<>>) /\ Spaced(<<>>)
  BY <1>1 DEF InOrder, Spaced
<1>5. Tracks(<<>>, <<>>)
  BY <1>1 DEF Tracks
<1>6. \A c \in Clients : admitted[c] = <<>> /\ entries[c].requests = <<>>
  BY DEF LimitsInit, NoEntry
<1>. QED BY <1>3, <1>4, <1>5, <1>6 DEF LimitsInit, LimitsInv, ClientInv

\* Every action of the limiters preserves LimitsInv.
LEMMA LimitsAlways == LimitsSpec => []LimitsInv
<1>1. LimitsInv /\ [LimitsNext]_limitVars => LimitsInv'
  <2>. SUFFICES ASSUME LimitsInv, [LimitsNext]_limitVars
                PROVE  LimitsInv'
    OBVIOUS
  <2>1. ASSUME NEW c \in Clients, is_allowed(c)
        PROVE  LimitsInv'
    BY <2>1, AdmitKeeps, RefuseKeeps DEF is_allowed
  <2>2. CASE UNCHANGED limitVars
    <3>1. \A c \in Clients : ClientInv(c)
      BY DEF LimitsInv
    <3>. QED BY <2>2, <3>1 DEF limitVars, LimitsInv, LimitsTypeOK, ClientInv, InOrder, Tracks, Spaced
  <2>. QED BY <2>1, <2>2, ForgettingKeeps, CapturingKeeps, TimePassedKeeps DEF LimitsNext, Requesting
<1>. QED BY <1>1, LimitsStart, PTL DEF LimitsSpec

\* The limiters' state is as it should be.
THEOREM LimitsTypeCorrect == LimitsSpec => []LimitsTypeOK
BY LimitsAlways, PTL DEF LimitsInv

\* Whatever refusals and cleanups come between, and for every limit, window and
\* number of clients: no window has more requests of a client than the limit
\* InMemoryRateLimiter was made with.
THEOREM WindowsHold == LimitsSpec => []WindowHolds
<1>1. LimitsInv => WindowHolds
  BY DEF LimitsInv, ClientInv, Spaced, WindowHolds
<1>. QED BY <1>1, LimitsAlways, PTL

-----------------------------------------------------------------------------
(*****************************************************************************)
(* Schedule.  No task is marked executed or failed before it was due, for    *)
(* every number of processes, ids and times.                                 *)
(*                                                                           *)
(* A process that is about to mark has read that the task was due, and the   *)
(* clock does not go back (PlannedWasSeen).                                  *)
(*****************************************************************************)

\* A process that is about to do something with a task has seen it in the
\* table, from which a row goes for good; one that is about to mark it, after
\* it was due.
PlannedWasSeen ==
  \A p \in Planners :
    planner[p].to # "none" =>
      /\ planner[p].about \in ScheduleIds
      /\ scheduled[planner[p].about].status # "absent"
      /\ planner[p].to = "execute" => scheduled[planner[p].about].at < due

\* The inductive invariant of the schedule.
ScheduleInv == ScheduleTypeOK /\ PlannedWasSeen /\ MarkedWasDue

\* The table is empty, and nobody plans anything.
LEMMA ScheduleStarts == ScheduleInit => ScheduleInv
<1> USE ScheduleAssumption
<1> QED BY DEF ScheduleInit, ScheduleInv, ScheduleTypeOK, PlannedWasSeen, MarkedWasDue,
     NoScheduledTask, ScheduledTask, ScheduleStatus, Planning, NotPlanning

\* A row that was read may be cancelled, marked or deleted by another process
\* before it is written: its scheduled_at stays, and it is never absent again.
LEMMA ScheduleRowWritten ==
  ASSUME ScheduleTypeOK, PlannedWasSeen, MarkedWasDue,
         NEW i \in ScheduleIds, NEW status \in ScheduleStatus \cup {"deleted"},
         scheduled[i].status # "absent",
         status \in {"EXECUTED", "FAILED"} => scheduled[i].at < due,
         scheduled' = [scheduled EXCEPT ![i].status = status],
         due' = due
  PROVE  /\ scheduled' \in [ScheduleIds -> ScheduledTask]
         /\ MarkedWasDue'
         /\ \A j \in ScheduleIds : /\ scheduled'[j].at = scheduled[j].at
                                   /\ scheduled[j].status # "absent" =>
                                        scheduled'[j].status # "absent"
<1>1. scheduled'[i] = [scheduled[i] EXCEPT !.status = status] BY DEF ScheduleTypeOK
<1>2. \A j \in ScheduleIds \ {i} : scheduled'[j] = scheduled[j] BY DEF ScheduleTypeOK
<1>3. scheduled[i] \in ScheduledTask BY DEF ScheduleTypeOK
<1>4. /\ scheduled'[i] \in ScheduledTask
      /\ scheduled'[i].status = status /\ scheduled'[i].at = scheduled[i].at
  BY <1>1, <1>3 DEF ScheduledTask
<1>5. scheduled' \in [ScheduleIds -> ScheduledTask] BY <1>2, <1>4 DEF ScheduleTypeOK
<1>6. MarkedWasDue' BY <1>2, <1>4 DEF MarkedWasDue
<1>7. status # "absent" BY DEF ScheduleStatus
<1> QED BY <1>2, <1>4, <1>5, <1>6, <1>7

\* A process stops planning; the others are about what they were about.
LEMMA PlanDone ==
  ASSUME ScheduleTypeOK, PlannedWasSeen, NEW p \in Planners,
         planner' = [planner EXCEPT ![p] = NotPlanning], due' = due,
         \A j \in ScheduleIds : /\ scheduled'[j].at = scheduled[j].at
                                /\ scheduled[j].status # "absent" =>
                                     scheduled'[j].status # "absent"
  PROVE  planner' \in [Planners -> Planning] /\ PlannedWasSeen'
<1>1. planner'[p] = NotPlanning /\ \A q \in Planners \ {p} : planner'[q] = planner[q]
  BY DEF ScheduleTypeOK
<1>2. planner' \in [Planners -> Planning]
  BY <1>1 DEF ScheduleTypeOK, Planning, NotPlanning
<1>3. SUFFICES ASSUME NEW q \in Planners, planner'[q].to # "none"
               PROVE  /\ planner'[q].about \in ScheduleIds
                      /\ scheduled'[planner'[q].about].status # "absent"
                      /\ planner'[q].to = "execute" => scheduled'[planner'[q].about].at < due'
  BY <1>2 DEF PlannedWasSeen
<1>4. planner'[q] = planner[q] BY <1>1, <1>3 DEF NotPlanning
<1> QED BY <1>3, <1>4 DEF PlannedWasSeen

\* A process reads a task.
LEMMA PlanBegins ==
  ASSUME ScheduleTypeOK, PlannedWasSeen, MarkedWasDue, NEW p \in Planners, NEW i \in ScheduleIds,
         NEW to \in {"cancel", "execute"}, scheduled[i].status # "absent",
         to = "execute" => scheduled[i].at < due,
         planner' = [planner EXCEPT ![p] = [about |-> i, to |-> to]],
         UNCHANGED <<scheduled, due>>
  PROVE  ScheduleInv'
<1>1. /\ planner'[p] = [about |-> i, to |-> to]
      /\ \A q \in Planners \ {p} : planner'[q] = planner[q]
  BY DEF ScheduleTypeOK
<1>2. planner' \in [Planners -> Planning] BY <1>1 DEF ScheduleTypeOK, Planning
<1>3. PlannedWasSeen' BY <1>1 DEF PlannedWasSeen
<1> QED BY <1>2, <1>3 DEF ScheduleInv, ScheduleTypeOK, MarkedWasDue

\* Every action of the schedule preserves ScheduleInv.
LEMMA ScheduleKeeps == ScheduleInv /\ [ScheduleNext]_scheduleVars => ScheduleInv'
<1> SUFFICES ASSUME ScheduleInv, [ScheduleNext]_scheduleVars PROVE ScheduleInv'
  OBVIOUS
<1> USE ScheduleAssumption
<1>0. ScheduleTypeOK /\ PlannedWasSeen /\ MarkedWasDue BY DEF ScheduleInv
<1>1. ASSUME NEW p \in Planners, NEW i \in ScheduleIds, cancel_scheduled(p, i)
      PROVE  ScheduleInv'
  <2>1. scheduled[i].status # "absent"
    BY <1>1 DEF cancel_scheduled, InTable, ScheduleStatus
  <2> QED BY <1>0, <1>1, <2>1, PlanBegins DEF cancel_scheduled
<1>2. ASSUME NEW p \in Planners, take_overdue(p)
      PROVE  ScheduleInv'
  <2>1. PICK i \in ScheduleIds :
          /\ scheduled[i].status = "PENDING" /\ scheduled[i].at < due
          /\ planner' = [planner EXCEPT ![p] = [about |-> i, to |-> "execute"]]
    BY <1>2 DEF take_overdue, get_overdue
  <2> QED BY <1>0, <1>2, <2>1, PlanBegins DEF take_overdue
<1>3. ASSUME NEW p \in Planners, NEW status \in {"CANCELLED", "EXECUTED", "FAILED"},
             planner[p].to # "none",
             status \in {"EXECUTED", "FAILED"} => planner[p].to = "execute",
             SetStatus(planner[p].about, status),
             planner' = [planner EXCEPT ![p] = NotPlanning], due' = due
      PROVE  ScheduleInv'
  <2>1. PICK i \in ScheduleIds : i = planner[p].about BY <1>0, <1>3 DEF PlannedWasSeen
  <2>2. /\ scheduled[i].status # "absent"
        /\ status \in {"EXECUTED", "FAILED"} => scheduled[i].at < due
    BY <1>0, <1>3, <2>1 DEF PlannedWasSeen
  <2>3. status \in ScheduleStatus \cup {"deleted"} BY DEF ScheduleStatus
  <2>4. /\ scheduled' \in [ScheduleIds -> ScheduledTask] /\ MarkedWasDue'
        /\ \A j \in ScheduleIds : /\ scheduled'[j].at = scheduled[j].at
                                  /\ scheduled[j].status # "absent" =>
                                       scheduled'[j].status # "absent"
    <3>1. CASE InTable(i)
      <4>1. scheduled' = [scheduled EXCEPT ![i].status = status]
        BY <1>3, <2>1, <3>1 DEF SetStatus
      <4> QED BY <1>0, <1>3, <2>2, <2>3, <4>1, ScheduleRowWritten
    <3>2. CASE ~InTable(i)
      BY <1>0, <1>3, <2>1, <3>2 DEF SetStatus, ScheduleTypeOK, MarkedWasDue
    <3> QED BY <3>1, <3>2
  <2>5. planner' \in [Planners -> Planning] /\ PlannedWasSeen'
    BY <1>0, <1>3, <2>4, PlanDone
  <2> QED BY <1>0, <1>3, <2>4, <2>5 DEF ScheduleInv, ScheduleTypeOK
<1>4. ASSUME NEW p \in Planners, cancel_task(p) PROVE ScheduleInv'
  BY <1>3, <1>4 DEF cancel_task
<1>5. ASSUME NEW p \in Planners, mark_task(p) PROVE ScheduleInv'
  BY <1>3, <1>5 DEF mark_task
<1>6. ASSUME NEW i \in ScheduleIds, add_scheduled(i) PROVE ScheduleInv'
  <2>1. PICK at \in due..MaxDue :
          scheduled' = [scheduled EXCEPT ![i] = [status |-> "PENDING", at |-> at]]
    BY <1>6 DEF add_scheduled, CreateScheduled
  <2>2. at \in 0..MaxDue BY <1>0 DEF ScheduleTypeOK
  <2>3. /\ scheduled'[i] = [status |-> "PENDING", at |-> at]
        /\ \A j \in ScheduleIds \ {i} : scheduled'[j] = scheduled[j]
    BY <1>0, <2>1 DEF ScheduleTypeOK
  <2>4. scheduled'[i] \in ScheduledTask BY <2>2, <2>3 DEF ScheduledTask, ScheduleStatus
  <2>5. scheduled' \in [ScheduleIds -> ScheduledTask]
    BY <1>0, <2>1, <2>3, <2>4 DEF ScheduleTypeOK
  <2>6. \A p \in Planners : planner[p].to # "none" => planner[p].about # i
    BY <1>0, <1>6 DEF add_scheduled, NoScheduledTask, PlannedWasSeen
  <2>7. PlannedWasSeen' BY <1>0, <1>6, <2>3, <2>6 DEF add_scheduled, PlannedWasSeen
  <2>8. MarkedWasDue' BY <1>0, <1>6, <2>3 DEF add_scheduled, MarkedWasDue
  <2> QED BY <1>0, <1>6, <2>5, <2>7, <2>8 DEF add_scheduled, ScheduleInv, ScheduleTypeOK
<1>7. ASSUME NEW i \in ScheduleIds, delete_scheduled(i) PROVE ScheduleInv'
  <2>1. scheduled[i].status # "absent"
    BY <1>7 DEF delete_scheduled, InTable, ScheduleStatus
  <2>2. /\ scheduled' \in [ScheduleIds -> ScheduledTask] /\ MarkedWasDue'
        /\ \A j \in ScheduleIds : /\ scheduled'[j].at = scheduled[j].at
                                  /\ scheduled[j].status # "absent" =>
                                       scheduled'[j].status # "absent"
    BY <1>0, <1>7, <2>1, ScheduleRowWritten DEF delete_scheduled
  <2>3. PlannedWasSeen' BY <1>0, <1>7, <2>2 DEF delete_scheduled, PlannedWasSeen
  <2> QED BY <1>0, <1>7, <2>2, <2>3 DEF delete_scheduled, ScheduleInv, ScheduleTypeOK
<1>8. CASE DueAdvances
  <2>1. due' \in 0..MaxDue /\ due' = due + 1 BY <1>0, <1>8 DEF DueAdvances, ScheduleTypeOK
  <2>2. \A i \in ScheduleIds : scheduled[i].at \in Nat
    BY <1>0 DEF ScheduleTypeOK, ScheduledTask
  <2>3. due \in Nat BY <1>0 DEF ScheduleTypeOK
  <2>4. MarkedWasDue' BY <1>0, <1>8, <2>1, <2>2, <2>3 DEF DueAdvances, MarkedWasDue
  <2>5. PlannedWasSeen' BY <1>0, <1>8, <2>1, <2>2, <2>3 DEF DueAdvances, PlannedWasSeen
  <2> QED BY <1>0, <1>8, <2>1, <2>4, <2>5 DEF DueAdvances, ScheduleInv, ScheduleTypeOK
<1>9. CASE UNCHANGED scheduleVars
  BY <1>9 DEF scheduleVars, ScheduleInv, ScheduleTypeOK, PlannedWasSeen, MarkedWasDue
<1> QED BY <1>1, <1>2, <1>4, <1>5, <1>6, <1>7, <1>8, <1>9 DEF ScheduleNext, Scheduling

\* ScheduleInv is an invariant of the schedule.
LEMMA ScheduleAlways == ScheduleSpec => []ScheduleInv
BY ScheduleStarts, ScheduleKeeps, PTL DEF ScheduleSpec

\* The variables of the schedule keep their types.
THEOREM ScheduleTypeCorrect == ScheduleSpec => []ScheduleTypeOK
<1>1. ScheduleInv => ScheduleTypeOK BY DEF ScheduleInv
<1> QED BY <1>1, ScheduleAlways, PTL

\* update_status looks at no status and nobody claims a task, and yet none is
\* marked EXECUTED or FAILED before its scheduled_at has passed.
THEOREM MarksComeDue == ScheduleSpec => []MarkedWasDue
<1>1. ScheduleInv => MarkedWasDue BY DEF ScheduleInv
<1> QED BY <1>1, ScheduleAlways, PTL

-----------------------------------------------------------------------------
(*****************************************************************************)
(* Hunts.  A hunt whose verdict is that there are no bugs has counted every  *)
(* agent that was complete, for every number of hunts and roles, whatever    *)
(* other hunts launch, write and kill.                                       *)
(*                                                                           *)
(* It counts over the roles it selected, so what has to be known is that no  *)
(* other role of it is ever complete (RolesSelected).                        *)
(*****************************************************************************)

\* Only roles a hunt has selected are launched, waited for and counted, and an
\* agent that is complete has written its file.
RolesSelected ==
  \A h \in Hunters :
    /\ hunt[h].at = "idle" => \A r \in Roles : quarry[h, r] = "none"
    /\ hunt[h].at = "init" => \A r \in Roles : quarry[h, r] = "none"
    /\ hunt[h].at \notin {"idle", "ended"} =>
         /\ hunt[h].pending \subseteq hunt[h].selected
         /\ hunt[h].spawned \subseteq hunt[h].selected
         /\ \A r \in Roles : quarry[h, r] # "none" => r \in hunt[h].selected
    /\ \A r \in Roles : quarry[h, r] = "complete" => findings[h, r] # None

\* The inductive invariant of the hunts.
HuntsInv == HuntsTypeOK /\ RolesSelected

\* What CompleteFindingsCount says of a step.
CountsComplete ==
  \A h \in Hunters :
    /\ hunt[h].at = "wait" /\ hunt'[h].at = "save"
    => \A r \in Roles :
         quarry[h, r] = "complete" /\ findings[h, r].bugs > 0
           => hunt'[h].verdict # "no_bugs"

\* No hunt has selected a role yet.
LEMMA HuntsStart == HuntsInit => HuntsInv
<1> SUFFICES ASSUME HuntsInit PROVE HuntsInv
  OBVIOUS
<1>1. NoHunt \in HuntState /\ NoHunt.at = "idle" BY DEF NoHunt, HuntState, Verdicts
<1>2. /\ \A h \in Hunters : hunt[h] = NoHunt
      /\ \A h \in Hunters, r \in Roles : quarry[h, r] = "none"
  BY DEF HuntsInit
<1>3. HuntsTypeOK BY <1>1 DEF HuntsInit, HuntsTypeOK
<1>4. RolesSelected BY <1>1, <1>2 DEF RolesSelected
<1> QED BY <1>3, <1>4 DEF HuntsInv

\* A command goes on; the other hunts are as they were.
LEMMA HuntGoesOn ==
  ASSUME HuntsInv, NEW h \in Hunters, NEW state \in HuntState,
         hunt' = [hunt EXCEPT ![h] = state], UNCHANGED <<quarry, findings>>,
         reports' \subseteq Hunters,
         state.at \notin {"idle"},
         state.at = "init" => hunt[h].at = "idle",
         state.at # "ended" =>
           /\ state.pending \subseteq state.selected /\ state.spawned \subseteq state.selected
           /\ \A r \in Roles : quarry[h, r] # "none" => r \in state.selected
  PROVE  HuntsInv'
<1>0. HuntsTypeOK /\ RolesSelected BY DEF HuntsInv
<1>1. hunt'[h] = state /\ \A g \in Hunters \ {h} : hunt'[g] = hunt[g] BY <1>0 DEF HuntsTypeOK
<1>2. hunt' \in [Hunters -> HuntState] BY <1>0, <1>1 DEF HuntsTypeOK
<1>3. HuntsTypeOK' BY <1>0, <1>2 DEF HuntsTypeOK
<1>4. RolesSelected'
  <2> SUFFICES ASSUME NEW g \in Hunters
               PROVE  /\ hunt'[g].at = "idle" => \A r \in Roles : quarry[g, r] = "none"
                      /\ hunt'[g].at = "init" => \A r \in Roles : quarry[g, r] = "none"
                      /\ hunt'[g].at \notin {"idle", "ended"} =>
                           /\ hunt'[g].pending \subseteq hunt'[g].selected
                           /\ hunt'[g].spawned \subseteq hunt'[g].selected
                           /\ \A r \in Roles : quarry[g, r] # "none" => r \in hunt'[g].selected
                      /\ \A r \in Roles : quarry[g, r] = "complete" => findings[g, r] # None
    BY DEF RolesSelected
  <2>1. CASE g = h BY <1>0, <1>1, <2>1 DEF RolesSelected
  <2>2. CASE g # h
    <3>1. hunt'[g] = hunt[g] BY <1>1, <2>2
    <3> QED BY <1>0, <3>1 DEF RolesSelected
  <2> QED BY <2>1, <2>2
<1> QED BY <1>3, <1>4 DEF HuntsInv

\* A step with which no hunt ends its counting.
LEMMA NotCounting ==
  ASSUME HuntsInv, NEW h \in Hunters, NEW state \in HuntState,
         hunt' = [hunt EXCEPT ![h] = state], state.at # "save"
  PROVE  CountsComplete
<1>1. hunt'[h] = state /\ \A g \in Hunters \ {h} : hunt'[g] = hunt[g]
  BY DEF HuntsInv, HuntsTypeOK
<1>2. \A g \in Hunters : ~(hunt[g].at = "wait" /\ hunt'[g].at = "save") BY <1>1
<1> QED BY <1>2 DEF CountsComplete

\* Every action preserves HuntsInv and counts what is complete.
LEMMA HuntsStep ==
  HuntsInv /\ [HuntsNext]_huntVars => HuntsInv' /\ (CountsComplete \/ UNCHANGED huntVars)
<1> SUFFICES ASSUME HuntsInv, [HuntsNext]_huntVars
             PROVE  HuntsInv' /\ (CountsComplete \/ UNCHANGED huntVars)
  OBVIOUS
<1> USE HuntsAssumption, FindingAssumption
<1>0. HuntsTypeOK /\ RolesSelected BY DEF HuntsInv
<1>h. \A h \in Hunters : hunt[h] \in HuntState BY <1>0 DEF HuntsTypeOK
<1>n. \A roles \in SUBSET Roles :
        /\ [NoHunt EXCEPT !.at = "init", !.selected = roles, !.pending = roles] \in HuntState
        /\ [NoHunt EXCEPT !.at = "ended", !.verdict = "aborted"] \in HuntState
  BY DEF NoHunt, HuntState, Verdicts
<1>1. ASSUME NEW h \in Hunters, bug_hunt(h) \/ quick_hunt(h)
      PROVE  HuntsInv' /\ CountsComplete
  <2>1. PICK roles \in SUBSET Roles :
          hunt' = [hunt EXCEPT ![h] =
                     [NoHunt EXCEPT !.at = "init", !.selected = roles, !.pending = roles]]
    BY <1>1 DEF bug_hunt, quick_hunt, Hunting
  <2>2. PICK state \in HuntState :
          state = [NoHunt EXCEPT !.at = "init", !.selected = roles, !.pending = roles]
    BY <1>n
  <2>3. /\ state.at = "init" /\ state.selected = roles /\ state.pending = roles
        /\ state.spawned = {}
    BY <2>2 DEF NoHunt
  <2>4. hunt[h].at = "idle" /\ UNCHANGED <<quarry, findings, reports>>
    BY <1>1 DEF bug_hunt, quick_hunt
  <2>5. \A r \in Roles : quarry[h, r] = "none" BY <1>0, <2>4 DEF RolesSelected
  <2>6. reports' \subseteq Hunters BY <1>0, <2>4 DEF HuntsTypeOK
  <2>7. hunt' = [hunt EXCEPT ![h] = state] BY <2>1, <2>2
  <2> HIDE <2>1, <2>2
  <2> QED BY <2>3, <2>4, <2>5, <2>6, <2>7, HuntGoesOn, NotCounting
<1>a. ASSUME NEW h \in Hunters, Abort(h), hunt[h].at # "idle",
             UNCHANGED <<quarry, findings, reports>>
      PROVE  HuntsInv' /\ CountsComplete
  <2>1. PICK state : state = [hunt[h] EXCEPT !.at = "ended", !.verdict = "aborted"] OBVIOUS
  <2>2. state \in HuntState /\ state.at = "ended" BY <1>h, <2>1 DEF HuntState, Verdicts
  <2>3. hunt' = [hunt EXCEPT ![h] = state] BY <1>a, <2>1 DEF Abort, Hunting
  <2>4. reports' \subseteq Hunters BY <1>0, <1>a DEF HuntsTypeOK
  <2> HIDE <2>1
  <2> QED BY <1>a, <2>2, <2>3, <2>4, HuntGoesOn, NotCounting
<1>2. ASSUME NEW h \in Hunters, InitHunt(h)
      PROVE  HuntsInv' /\ CountsComplete
  <2>1. CASE hunt' = [hunt EXCEPT ![h] = [hunt[h] EXCEPT !.at = "spawn"]]
    <3>1. PICK state : state = [hunt[h] EXCEPT !.at = "spawn"] OBVIOUS
    <3>2. /\ state \in HuntState /\ state.at = "spawn" /\ state.pending = hunt[h].pending
          /\ state.spawned = hunt[h].spawned /\ state.selected = hunt[h].selected
      BY <1>h, <3>1 DEF HuntState
    <3>3. hunt' = [hunt EXCEPT ![h] = state] BY <2>1, <3>1
    <3>4. reports' \subseteq Hunters /\ UNCHANGED <<quarry, findings>>
      BY <1>0, <1>2 DEF InitHunt, HuntsTypeOK
    <3>5. /\ state.pending \subseteq state.selected /\ state.spawned \subseteq state.selected
          /\ \A r \in Roles : quarry[h, r] # "none" => r \in state.selected
      BY <1>0, <1>2, <3>2 DEF InitHunt, RolesSelected
    <3> HIDE <3>1
    <3> QED BY <3>2, <3>3, <3>4, <3>5, HuntGoesOn, NotCounting
  <2> QED BY <1>2, <1>a, <2>1 DEF InitHunt, Hunting
<1>3. ASSUME NEW h \in Hunters, AllSpawned(h)
      PROVE  HuntsInv' /\ CountsComplete
  <2>1. CASE hunt' = [hunt EXCEPT ![h] =
                        [hunt[h] EXCEPT !.at = "wait", !.pending = hunt[h].spawned]]
    <3>1. PICK state : state = [hunt[h] EXCEPT !.at = "wait", !.pending = hunt[h].spawned]
      OBVIOUS
    <3>2. /\ state \in HuntState /\ state.at = "wait" /\ state.pending = hunt[h].spawned
          /\ state.spawned = hunt[h].spawned /\ state.selected = hunt[h].selected
      BY <1>h, <3>1 DEF HuntState
    <3>3. hunt' = [hunt EXCEPT ![h] = state] BY <2>1, <3>1
    <3>4. reports' \subseteq Hunters /\ UNCHANGED <<quarry, findings>>
      BY <1>0, <1>3 DEF AllSpawned, HuntsTypeOK
    <3>5. /\ state.pending \subseteq state.selected /\ state.spawned \subseteq state.selected
          /\ \A r \in Roles : quarry[h, r] # "none" => r \in state.selected
      BY <1>0, <1>3, <3>2 DEF AllSpawned, RolesSelected
    <3> HIDE <3>1
    <3> QED BY <3>2, <3>3, <3>4, <3>5, HuntGoesOn, NotCounting
  <2> QED BY <1>3, <1>a, <2>1 DEF AllSpawned, Hunting
<1>4. ASSUME NEW h \in Hunters, NEW r \in Roles, Wait(h, r)
      PROVE  HuntsInv' /\ CountsComplete
  <2>1. PICK state : state = [hunt[h] EXCEPT !.pending = hunt[h].pending \ {r}] OBVIOUS
  <2>2. /\ state \in HuntState /\ state.at = hunt[h].at
        /\ state.pending = hunt[h].pending \ {r}
        /\ state.spawned = hunt[h].spawned /\ state.selected = hunt[h].selected
    BY <1>h, <2>1 DEF HuntState
  <2>3. hunt' = [hunt EXCEPT ![h] = state] BY <1>4, <2>1 DEF Wait, Hunting
  <2>4. reports' \subseteq Hunters /\ UNCHANGED <<quarry, findings>> /\ hunt[h].at = "wait"
    BY <1>0, <1>4 DEF Wait, HuntsTypeOK
  <2>5. /\ state.pending \subseteq state.selected /\ state.spawned \subseteq state.selected
        /\ \A q \in Roles : quarry[h, q] # "none" => q \in state.selected
    BY <1>0, <2>2, <2>4 DEF RolesSelected
  <2> HIDE <2>1
  <2> QED BY <2>2, <2>3, <2>4, <2>5, HuntGoesOn, NotCounting
<1>5. ASSUME NEW h \in Hunters, Consolidate(h)
      PROVE  HuntsInv' /\ CountsComplete
  <2>0. PICK counted : counted = {findings[h, r] : r \in hunt[h].selected} \ {None} OBVIOUS
  <2>1. PICK state : state = [hunt[h] EXCEPT !.at = "save", !.verdict = Verdict(counted)]
    OBVIOUS
  <2>a. Verdict(counted) \in {"no_bugs", "fail", "pass"} BY DEF Verdict
  <2>2. /\ state \in HuntState /\ state.at = "save" /\ state.pending = hunt[h].pending
        /\ state.spawned = hunt[h].spawned /\ state.selected = hunt[h].selected
        /\ state.verdict = Verdict(counted)
    BY <1>h, <2>1, <2>a DEF HuntState, Verdicts
  <2>3. hunt' = [hunt EXCEPT ![h] = state] BY <1>5, <2>0, <2>1 DEF Consolidate, Hunting
  <2>4. reports' \subseteq Hunters /\ UNCHANGED <<quarry, findings>> /\ hunt[h].at = "wait"
    BY <1>0, <1>5 DEF Consolidate, HuntsTypeOK
  <2>5. /\ state.pending \subseteq state.selected /\ state.spawned \subseteq state.selected
        /\ \A q \in Roles : quarry[h, q] # "none" => q \in state.selected
    BY <1>0, <2>2, <2>4 DEF RolesSelected
  <2>6. HuntsInv'
    <3> HIDE <2>0, <2>1
    <3> QED BY <2>2, <2>3, <2>4, <2>5, HuntGoesOn
  <2>7. hunt'[h] = state /\ \A g \in Hunters \ {h} : hunt'[g] = hunt[g]
    BY <1>0, <2>3 DEF HuntsTypeOK
  <2>8. \A n \in {0, 1} : n > 0 => n # 0 OBVIOUS
  <2>9. CountsComplete
    <3> SUFFICES ASSUME NEW g \in Hunters, hunt[g].at = "wait", hunt'[g].at = "save",
                        NEW r \in Roles, quarry[g, r] = "complete", findings[g, r].bugs > 0
                 PROVE  hunt'[g].verdict # "no_bugs"
      BY DEF CountsComplete
    <3>1. g = h BY <2>7
    <3>2. r \in hunt[h].selected /\ findings[h, r] # None
      BY <1>0, <2>4, <3>1 DEF RolesSelected
    <3>3. findings[h, r] \in counted BY <2>0, <3>2
    <3>4. findings[h, r].bugs # 0
      <4>1. findings[h, r] \in Finding BY <1>0, <3>2 DEF HuntsTypeOK
      <4>2. findings[h, r].bugs \in {0, 1} BY <4>1 DEF Finding
      <4>3. findings[h, r].bugs > 0 BY <3>1
      <4> QED BY <2>8, <4>2, <4>3, Zenon
    <3>5. Verdict(counted) # "no_bugs" BY <3>3, <3>4 DEF Verdict
    <3> QED BY <2>2, <2>7, <3>1, <3>5
  <2> QED BY <2>6, <2>9
<1>6. ASSUME NEW h \in Hunters, SaveReport(h)
      PROVE  HuntsInv' /\ CountsComplete
  <2>1. PICK state : state = [hunt[h] EXCEPT !.at = "cleanup"] OBVIOUS
  <2>2. /\ state \in HuntState /\ state.at = "cleanup" /\ state.pending = hunt[h].pending
        /\ state.spawned = hunt[h].spawned /\ state.selected = hunt[h].selected
    BY <1>h, <2>1 DEF HuntState
  <2>3. hunt' = [hunt EXCEPT ![h] = state] BY <1>6, <2>1 DEF SaveReport, Hunting
  <2>4. reports' \subseteq Hunters /\ UNCHANGED <<quarry, findings>> /\ hunt[h].at = "save"
    BY <1>0, <1>6 DEF SaveReport, HuntsTypeOK
  <2>5. /\ state.pending \subseteq state.selected /\ state.spawned \subseteq state.selected
        /\ \A q \in Roles : quarry[h, q] # "none" => q \in state.selected
    BY <1>0, <2>2, <2>4 DEF RolesSelected
  <2> HIDE <2>1
  <2> QED BY <2>2, <2>3, <2>4, <2>5, HuntGoesOn, NotCounting
<1>7. ASSUME NEW h \in Hunters, KillAll(h)
      PROVE  HuntsInv' /\ CountsComplete
  <2>1. PICK state : state = [hunt[h] EXCEPT !.at = "ended", !.printed = TRUE] OBVIOUS
  <2>2. state \in HuntState /\ state.at = "ended" BY <1>h, <2>1 DEF HuntState
  <2>3. hunt' = [hunt EXCEPT ![h] = state] BY <1>7, <2>1 DEF KillAll, Hunting
  <2>4. hunt'[h] = state /\ \A g \in Hunters \ {h} : hunt'[g] = hunt[g]
    BY <1>0, <2>3 DEF HuntsTypeOK
  <2>5. /\ quarry' = [x \in Hunters \X Roles |->
                        IF quarry[x] = "running" THEN "killed" ELSE quarry[x]]
        /\ UNCHANGED <<findings, reports>>
    BY <1>7 DEF KillAll
  <2>6. HuntsTypeOK'
    <3>1. hunt' \in [Hunters -> HuntState] BY <1>0, <2>2, <2>3 DEF HuntsTypeOK
    <3>2. quarry' \in [Hunters \X Roles -> {"none", "running", "complete", "killed"}]
      BY <1>0, <2>5 DEF HuntsTypeOK
    <3> QED BY <1>0, <2>5, <3>1, <3>2 DEF HuntsTypeOK
  <2>7. \A g \in Hunters, r \in Roles :
          /\ quarry'[g, r] = "none" <=> quarry[g, r] = "none"
          /\ quarry'[g, r] = "complete" <=> quarry[g, r] = "complete"
    BY <2>5
  <2>8. RolesSelected'
    <3> SUFFICES ASSUME NEW g \in Hunters
                 PROVE  /\ hunt'[g].at = "idle" => \A r \in Roles : quarry'[g, r] = "none"
                        /\ hunt'[g].at = "init" => \A r \in Roles : quarry'[g, r] = "none"
                        /\ hunt'[g].at \notin {"idle", "ended"} =>
                             /\ hunt'[g].pending \subseteq hunt'[g].selected
                             /\ hunt'[g].spawned \subseteq hunt'[g].selected
                             /\ \A r \in Roles : quarry'[g, r] # "none" => r \in hunt'[g].selected
                        /\ \A r \in Roles : quarry'[g, r] = "complete" => findings'[g, r] # None
      BY DEF RolesSelected
    <3>1. \A r \in Roles : quarry'[g, r] = "complete" => findings'[g, r] # None
      BY <1>0, <2>5, <2>7 DEF RolesSelected
    <3>2. CASE g = h BY <2>2, <2>4, <3>1, <3>2
    <3>3. CASE g # h
      <4>1. hunt'[g] = hunt[g] BY <2>4, <3>3
      <4> QED BY <1>0, <2>7, <3>1, <4>1 DEF RolesSelected
    <3> QED BY <3>2, <3>3
  <2> HIDE <2>1
  <2> QED BY <2>2, <2>3, <2>6, <2>8, NotCounting DEF HuntsInv
<1>8. ASSUME NEW h \in Hunters, HunterDies(h)
      PROVE  HuntsInv' /\ CountsComplete
  <2>1. PICK state \in HuntState : state = [NoHunt EXCEPT !.at = "ended", !.verdict = "aborted"]
    BY <1>n
  <2>2. state.at = "ended" BY <2>1 DEF NoHunt
  <2>3. hunt' = [hunt EXCEPT ![h] = state] BY <1>8, <2>1 DEF HunterDies, Hunting
  <2>4. reports' \subseteq Hunters /\ UNCHANGED <<quarry, findings>>
    BY <1>0, <1>8 DEF HunterDies, HuntsTypeOK
  <2> HIDE <2>1
  <2> QED BY <2>2, <2>3, <2>4, HuntGoesOn, NotCounting
<1>9. ASSUME NEW h \in Hunters, NEW r \in Roles, SpawnHunter(h, r)
      PROVE  HuntsInv' /\ CountsComplete
  <2>0. hunt[h].at = "spawn" /\ r \in hunt[h].pending /\ UNCHANGED <<findings, reports>>
    BY <1>9 DEF SpawnHunter
  <2>s. /\ hunt[h].pending \subseteq hunt[h].selected /\ hunt[h].spawned \subseteq hunt[h].selected
        /\ \A q \in Roles : quarry[h, q] # "none" => q \in hunt[h].selected
    BY <1>0, <2>0 DEF RolesSelected
  <2>1. CASE /\ quarry' = [quarry EXCEPT ![<<h, r>>] = "running"]
             /\ Hunting(h, [hunt[h] EXCEPT !.pending = hunt[h].pending \ {r},
                                           !.spawned = hunt[h].spawned \cup {r}])
    <3>1. PICK state : state = [hunt[h] EXCEPT !.pending = hunt[h].pending \ {r},
                                               !.spawned = hunt[h].spawned \cup {r}]
      OBVIOUS
    <3>2. /\ state \in HuntState /\ state.at = "spawn"
          /\ state.pending = hunt[h].pending \ {r} /\ state.spawned = hunt[h].spawned \cup {r}
          /\ state.selected = hunt[h].selected
      BY <1>h, <2>0, <3>1 DEF HuntState
    <3>3. hunt' = [hunt EXCEPT ![h] = state] BY <2>1, <3>1 DEF Hunting
    <3>4. hunt'[h] = state /\ \A g \in Hunters \ {h} : hunt'[g] = hunt[g]
      BY <1>0, <3>3 DEF HuntsTypeOK
    <3>5. quarry \in [Hunters \X Roles -> {"none", "running", "complete", "killed"}]
      BY <1>0 DEF HuntsTypeOK
    <3>6. /\ quarry' \in [Hunters \X Roles -> {"none", "running", "complete", "killed"}]
          /\ quarry'[h, r] = "running"
          /\ \A g \in Hunters, q \in Roles : <<g, q>> # <<h, r>> => quarry'[g, q] = quarry[g, q]
      BY <2>1, <3>5
    <3>7. HuntsTypeOK'
      <4>1. hunt' \in [Hunters -> HuntState] BY <1>0, <3>2, <3>3 DEF HuntsTypeOK
      <4> QED BY <1>0, <2>0, <3>6, <4>1 DEF HuntsTypeOK
    <3>8. RolesSelected'
      <4> SUFFICES ASSUME NEW g \in Hunters
                   PROVE  /\ hunt'[g].at = "idle" => \A q \in Roles : quarry'[g, q] = "none"
                          /\ hunt'[g].at = "init" => \A q \in Roles : quarry'[g, q] = "none"
                          /\ hunt'[g].at \notin {"idle", "ended"} =>
                               /\ hunt'[g].pending \subseteq hunt'[g].selected
                               /\ hunt'[g].spawned \subseteq hunt'[g].selected
                               /\ \A q \in Roles : quarry'[g, q] # "none" => q \in hunt'[g].selected
                          /\ \A q \in Roles : quarry'[g, q] = "complete" => findings'[g, q] # None
        BY DEF RolesSelected
      <4>1. \A q \in Roles : quarry'[g, q] = "complete" => findings'[g, q] # None
        BY <1>0, <2>0, <3>6 DEF RolesSelected
      <4>2. CASE g = h
        <5>1. \A q \in Roles : quarry'[h, q] # "none" => q \in state.selected
          BY <2>0, <2>s, <3>2, <3>6
        <5>2. state.pending \subseteq state.selected /\ state.spawned \subseteq state.selected
          BY <2>0, <2>s, <3>2
        <5> QED BY <3>2, <3>4, <4>1, <4>2, <5>1, <5>2
      <4>3. CASE g # h
        <5>1. hunt'[g] = hunt[g] /\ \A q \in Roles : quarry'[g, q] = quarry[g, q]
          BY <3>4, <3>6, <4>3
        <5> QED BY <1>0, <4>1, <5>1 DEF RolesSelected
      <4> QED BY <4>2, <4>3
    <3> HIDE <3>1
    <3> QED BY <3>2, <3>3, <3>7, <3>8, NotCounting DEF HuntsInv
  <2>2. CASE Hunting(h, [hunt[h] EXCEPT !.pending = hunt[h].pending \ {r}]) /\ UNCHANGED quarry
    <3>1. PICK state : state = [hunt[h] EXCEPT !.pending = hunt[h].pending \ {r}] OBVIOUS
    <3>2. /\ state \in HuntState /\ state.at = "spawn"
          /\ state.pending = hunt[h].pending \ {r}
          /\ state.spawned = hunt[h].spawned /\ state.selected = hunt[h].selected
      BY <1>h, <2>0, <3>1 DEF HuntState
    <3>3. hunt' = [hunt EXCEPT ![h] = state] BY <2>2, <3>1 DEF Hunting
    <3>4. reports' \subseteq Hunters BY <1>0, <2>0 DEF HuntsTypeOK
    <3>5. /\ state.pending \subseteq state.selected /\ state.spawned \subseteq state.selected
          /\ \A q \in Roles : quarry[h, q] # "none" => q \in state.selected
      BY <2>s, <3>2
    <3> HIDE <3>1
    <3> QED BY <2>0, <2>2, <3>2, <3>3, <3>4, <3>5, HuntGoesOn, NotCounting
  <2> QED BY <1>9, <2>1, <2>2 DEF SpawnHunter
<1>10. ASSUME NEW h \in Hunters, NEW r \in Roles, AgentWrites(h, r)
       PROVE  HuntsInv' /\ CountsComplete
  <2>1. PICK f \in Finding : findings' = [findings EXCEPT ![<<h, r>>] = f]
    BY <1>10 DEF AgentWrites
  <2>2. /\ quarry[h, r] = "running" /\ UNCHANGED <<hunt, reports>>
        /\ quarry' = quarry \/ quarry' = [quarry EXCEPT ![<<h, r>>] = "complete"]
    BY <1>10 DEF AgentWrites
  <2>3. /\ findings' \in [Hunters \X Roles -> Finding \cup {None}]
        /\ findings'[h, r] = f
        /\ \A g \in Hunters, q \in Roles : <<g, q>> # <<h, r>> => findings'[g, q] = findings[g, q]
    BY <1>0, <2>1 DEF HuntsTypeOK
  <2>4. /\ quarry' \in [Hunters \X Roles -> {"none", "running", "complete", "killed"}]
        /\ quarry'[h, r] \in {"running", "complete"}
        /\ \A g \in Hunters, q \in Roles : <<g, q>> # <<h, r>> => quarry'[g, q] = quarry[g, q]
    BY <1>0, <2>2 DEF HuntsTypeOK
  <2>5. HuntsTypeOK' BY <1>0, <2>2, <2>3, <2>4 DEF HuntsTypeOK
  <2>6. RolesSelected'
    <3> SUFFICES ASSUME NEW g \in Hunters
                 PROVE  /\ hunt[g].at = "idle" => \A q \in Roles : quarry'[g, q] = "none"
                        /\ hunt[g].at = "init" => \A q \in Roles : quarry'[g, q] = "none"
                        /\ hunt[g].at \notin {"idle", "ended"} =>
                             /\ hunt[g].pending \subseteq hunt[g].selected
                             /\ hunt[g].spawned \subseteq hunt[g].selected
                             /\ \A q \in Roles : quarry'[g, q] # "none" => q \in hunt[g].selected
                        /\ \A q \in Roles : quarry'[g, q] = "complete" => findings'[g, q] # None
      BY <2>2 DEF RolesSelected
    <3>1. \A q \in Roles : quarry'[g, q] = "complete" => findings'[g, q] # None
      <4>1. f # None BY FindingAssumption
      <4> SUFFICES ASSUME NEW q \in Roles, quarry'[g, q] = "complete"
                   PROVE  findings'[g, q] # None
        OBVIOUS
      <4>2. CASE <<g, q>> = <<h, r>> BY <2>3, <4>1, <4>2
      <4>3. CASE <<g, q>> # <<h, r>>
        <5>1. quarry[g, q] = "complete" /\ findings'[g, q] = findings[g, q] BY <2>3, <2>4, <4>3
        <5> QED BY <1>0, <5>1 DEF RolesSelected
      <4> QED BY <4>2, <4>3
    <3>2. \A q \in Roles : (quarry'[g, q] = "none") <=> (quarry[g, q] = "none")
      BY <2>2, <2>4
    <3> QED BY <1>0, <3>1, <3>2 DEF RolesSelected
  <2>7. CountsComplete
    <3>1. \A g \in Hunters : ~(hunt[g].at = "wait" /\ hunt'[g].at = "save") BY <2>2
    <3> QED BY <3>1 DEF CountsComplete
  <2> QED BY <2>5, <2>6, <2>7 DEF HuntsInv
<1>11. CASE UNCHANGED huntVars
  BY <1>0, <1>11 DEF huntVars, HuntsInv, HuntsTypeOK, RolesSelected
<1> QED BY <1>1, <1>2, <1>3, <1>4, <1>5, <1>6, <1>7, <1>8, <1>9, <1>10, <1>11 DEF HuntsNext

\* HuntsInv is an invariant of the hunts.
LEMMA HuntsAlways == HuntsSpec => []HuntsInv
<1>1. HuntsInv /\ [HuntsNext]_huntVars => HuntsInv' BY HuntsStep
<1> QED BY <1>1, HuntsStart, PTL DEF HuntsSpec

\* The variables of the bug hunts keep their types.
THEOREM HuntsTypeCorrect == HuntsSpec => []HuntsTypeOK
<1>1. HuntsInv => HuntsTypeOK BY DEF HuntsInv
<1> QED BY <1>1, HuntsAlways, PTL

\* The verdict of a hunt counts the findings of every agent that was complete,
\* whatever the other hunts launch, write and kill meanwhile.
THEOREM CompleteFindingsCounted == HuntsSpec => CompleteFindingsCount
<1>1. HuntsInv /\ [HuntsNext]_huntVars => [CountsComplete]_huntVars BY HuntsStep
<1> QED BY <1>1, HuntsAlways, PTL DEF HuntsSpec, CompleteFindingsCount, CountsComplete

-----------------------------------------------------------------------------
(*****************************************************************************)
(* Sessions.  A project has one active session at most while one process at a*)
(* time works on sessions and no projects are merged, whatever a process dies*)
(* in the middle of.                                                         *)
(*****************************************************************************)

LEMMA SessionsStart == SessionsInit => SessionsTypeOK
<1>1. 0 \in 0..MaxClock
  BY SessionsAssumption
<1>2. NoWorkSession \in WorkSession /\ NotCalling \in SessionCall
  BY <1>1 DEF NoWorkSession, WorkSession, NotCalling, SessionCall
<1>. QED BY <1>1, <1>2 DEF SessionsInit, SessionsTypeOK

\* A session that is ended, whichever it is, is a session.
LEMMA EndedTypes ==
  ASSUME SessionsTypeOK, NEW id, NEW summary \in {"user", "auto"},
         workSessions' = EndedWith(id, summary)
  PROVE  workSessions' \in [Numbers -> WorkSession]
<1>1. CASE id \in Numbers
  <2>1. [workSessions[id] EXCEPT !.ended = TRUE, !.summary = summary] \in WorkSession
    BY <1>1 DEF SessionsTypeOK, WorkSession
  <2>. QED BY <2>1 DEF EndedWith, SessionsTypeOK
<1>2. CASE id \notin Numbers
  BY <1>2 DEF EndedWith, SessionsTypeOK
<1>. QED BY <1>1, <1>2

LEMMA SessionsKept == SessionsTypeOK /\ [SessionsNext]_workSessionVars => SessionsTypeOK'
<1>. SUFFICES ASSUME SessionsTypeOK, SessionsNext PROVE SessionsTypeOK'
  BY DEF SessionsTypeOK, workSessionVars
<1>0. /\ starting \in [Users -> SessionCall] /\ workSessions \in [Numbers -> WorkSession]
      /\ clock \in 0..MaxClock /\ MaxClock \in Nat
  BY SessionsAssumption DEF SessionsTypeOK
<1>n. NotCalling \in SessionCall /\ NoWorkSession \in WorkSession
  BY <1>0 DEF NotCalling, SessionCall, NoWorkSession, WorkSession
<1>1. ASSUME NEW p \in Users, NEW project \in SessionProjects, start_session(p, project)
      PROVE  SessionsTypeOK'
  <2>1. [NotCalling EXCEPT !.at = "create", !.project = project, !.since = clock] \in SessionCall
    BY <1>0 DEF NotCalling, SessionCall
  <2>2. ASSUME NEW n \in Numbers
        PROVE  [NotCalling EXCEPT !.at = "auto_end", !.project = project, !.id = n] \in SessionCall
    <3>1. PICK aCall \in SessionCall : aCall = NotCalling
      BY <1>n
    <3>2. [aCall EXCEPT !.at = "auto_end", !.project = project, !.id = n] \in SessionCall
      BY <2>2, <3>1 DEF SessionCall
    <3>. QED BY <3>1, <3>2
  <2>3. \E aCall \in SessionCall : starting' = [starting EXCEPT ![p] = aCall]
    BY <1>1, <2>1, <2>2 DEF start_session, LastStarted, Active
  <2>. QED BY <1>0, <1>1, <2>3 DEF start_session, SessionsTypeOK
<1>2. ASSUME NEW p \in Users, AutoEnd(p) PROVE SessionsTypeOK'
  <2>1. [starting[p] EXCEPT !.at = "create", !.since = clock] \in SessionCall
    BY <1>0 DEF SessionCall
  <2>2. starting' = [starting EXCEPT ![p] = [starting[p] EXCEPT !.at = "create", !.since = clock]]
    BY <1>0, <1>2 DEF AutoEnd
  <2>3. workSessions' \in [Numbers -> WorkSession]
    BY <1>2, EndedTypes DEF AutoEnd
  <2>. QED BY <1>0, <1>2, <2>1, <2>2, <2>3 DEF AutoEnd, SessionsTypeOK
<1>3. ASSUME NEW p \in Users, CreateWorkSession(p) PROVE SessionsTypeOK'
  <2>1. PICK n \in Numbers, started \in starting[p].since..clock :
          workSessions' = [workSessions EXCEPT ![n] =
            [NoWorkSession EXCEPT !.project = starting[p].project, !.started = started]]
    BY <1>3 DEF CreateWorkSession
  <2>2. starting[p].since \in 0..MaxClock /\ starting[p].project \in SessionProjects \cup {None}
    BY <1>0 DEF SessionCall
  <2>3. started \in 0..MaxClock
    BY <1>0, <2>2
  <2>4. [NoWorkSession EXCEPT !.project = starting[p].project, !.started = started] \in WorkSession
    BY <2>2, <2>3 DEF NoWorkSession, WorkSession
  <2>. QED BY <1>0, <1>3, <1>n, <2>1, <2>4 DEF CreateWorkSession, SessionsTypeOK
<1>4. ASSUME NEW p \in Users, NEW project \in SessionProjects, NEW hybrid \in BOOLEAN,
             session_end(p, project, hybrid)
      PROVE  SessionsTypeOK'
  <2>1. ASSUME NEW n \in Numbers
        PROVE  [NotCalling EXCEPT !.at = "end", !.id = n, !.again = hybrid] \in SessionCall
    <3>1. PICK aCall \in SessionCall : aCall = NotCalling
      BY <1>n
    <3>2. [aCall EXCEPT !.at = "end", !.id = n, !.again = hybrid] \in SessionCall
      BY <1>4, <2>1, <3>1 DEF SessionCall
    <3>. QED BY <3>1, <3>2
  <2>2. \E aCall \in SessionCall : starting' = [starting EXCEPT ![p] = aCall]
    BY <1>4, <2>1 DEF session_end, LastStarted, Active
  <2>. QED BY <1>0, <1>4, <2>2 DEF session_end, SessionsTypeOK
<1>5. ASSUME NEW p \in Users, end_session(p) PROVE SessionsTypeOK'
  <2>1. workSessions' \in [Numbers -> WorkSession]
    BY <1>5, EndedTypes DEF end_session
  <2>. QED BY <1>0, <1>5, <1>n, <2>1 DEF end_session, SessionsTypeOK
<1>6. ASSUME NEW p \in Users, dispatch_session_end(p) PROVE SessionsTypeOK'
  <2>1. workSessions' \in [Numbers -> WorkSession]
    BY <1>0, <1>6, EndedTypes DEF dispatch_session_end
  <2>2. [starting[p] EXCEPT !.again = FALSE] \in SessionCall
    BY <1>0 DEF SessionCall
  <2>3. \/ starting' = [starting EXCEPT ![p] = NotCalling]
        \/ starting' = [starting EXCEPT ![p] = [starting[p] EXCEPT !.again = FALSE]]
    BY <1>0, <1>6 DEF dispatch_session_end
  <2>. QED BY <1>0, <1>6, <1>n, <2>1, <2>2, <2>3 DEF dispatch_session_end, SessionsTypeOK
<1>7. ASSUME NEW p, NEW n, memory_session_end(p, n) PROVE SessionsTypeOK'
  <2>1. workSessions' \in [Numbers -> WorkSession]
    BY <1>7, EndedTypes DEF memory_session_end
  <2>. QED BY <1>0, <1>7, <2>1 DEF memory_session_end, SessionsTypeOK
<1>8. ASSUME NEW source \in SessionProjects, NEW canonical \in SessionProjects,
             merge_sessions(source, canonical)
      PROVE  SessionsTypeOK'
  <2>1. \A n \in Numbers : [workSessions[n] EXCEPT !.project = canonical] \in WorkSession
    BY <1>0 DEF WorkSession
  <2>. QED BY <1>0, <1>8, <2>1 DEF merge_sessions, SessionsTypeOK
<1>9. ASSUME NEW p \in Users, UserDies(p) PROVE SessionsTypeOK'
  BY <1>0, <1>9, <1>n DEF UserDies, SessionsTypeOK
<1>10. CASE ClockTicks
  BY <1>0, <1>10 DEF ClockTicks, SessionsTypeOK
<1>. QED BY <1>1, <1>2, <1>3, <1>4, <1>5, <1>6, <1>7, <1>8, <1>9, <1>10
     DEF SessionsNext, SessionCommand

\* The types of the work sessions.
LEMMA SessionsTypeCorrect == SessionsSpec => []SessionsTypeOK
BY SessionsStart, SessionsKept, PTL DEF SessionsSpec

-----------------------------------------------------------------------------
(* One process at a time *)

\* At most one process is in the middle of a command.
OthersIdle == \A p, q \in Users : starting[p].at # "idle" /\ starting[q].at # "idle" => p = q

\* What a start has seen of its project is still so: the session to end is the
\* only active one, and before the new one is created there is none.
Knows(p) ==
  /\ starting[p].at = "auto_end" =>
       starting[p].project \in SessionProjects /\ Active(starting[p].project) = {starting[p].id}
  /\ starting[p].at = "create" =>
       starting[p].project \in SessionProjects /\ Active(starting[p].project) = {}
  /\ starting[p].at = "end" => starting[p].id \in Numbers

StartsKnow == \A p \in Users : Knows(p)

TurnsInv == SessionsTypeOK /\ OthersIdle /\ StartsKnow /\ OneActiveSession

LEMMA TurnsStart == SessionsInit => TurnsInv
<1>. SUFFICES ASSUME SessionsInit PROVE TurnsInv
  OBVIOUS
<1>1. \A p \in Users : starting[p].at = "idle"
  BY DEF SessionsInit, NotCalling
<1>2. \A n \in Numbers : workSessions[n].project = None
  BY DEF SessionsInit, NoWorkSession
<1>3. OneActiveSession
  BY <1>2, SessionsAssumption DEF OneActiveSession, Active
<1>. QED BY <1>1, <1>3, SessionsStart DEF TurnsInv, OthersIdle, StartsKnow, Knows

\* Sessions that end leave no session active that was not.
LEMMA EndedActive ==
  ASSUME SessionsTypeOK, NEW id \in Numbers, NEW summary, workSessions' = EndedWith(id, summary),
         NEW project
  PROVE  Active(project)' = Active(project) \ {id}
<1>1. \A n \in Numbers :
        /\ workSessions'[n].project = workSessions[n].project
        /\ workSessions'[n].ended = IF n = id THEN TRUE ELSE workSessions[n].ended
  BY DEF SessionsTypeOK, EndedWith, WorkSession
<1>. QED BY <1>1 DEF Active

\* A command is its process's own.
LEMMA OnlyOwnCommand ==
  ASSUME SessionsTypeOK, NEW p \in Users, SessionCommand(p)
  PROVE  \A q \in Users \ {p} : starting'[q] = starting[q]
<1>1. starting' = starting \/ \E o : starting' = [starting EXCEPT ![p] = o]
  BY DEF SessionCommand, start_session, AutoEnd, CreateWorkSession, session_end, end_session,
         dispatch_session_end, memory_session_end, UserDies
<1>. QED BY <1>1 DEF SessionsTypeOK

\* A step of p, when nobody else is in the middle of a command.
LEMMA TurnKeeps ==
  ASSUME TurnsInv, NEW p \in Users, SessionCommand(p),
         \A q \in Users \ {p} : starting'[q].at = "idle"
  PROVE  TurnsInv'
<1>0. /\ SessionsTypeOK /\ OthersIdle /\ StartsKnow /\ OneActiveSession
      /\ starting \in [Users -> SessionCall] /\ starting[p] \in SessionCall
  BY DEF TurnsInv, SessionsTypeOK
<1>1. SessionsTypeOK'
  BY <1>0, SessionsKept DEF SessionsNext
<1>2. OthersIdle'
  BY DEF OthersIdle
<1>3. \* What is left: p's own start, and the sessions that are active.
      ASSUME Knows(p)', OneActiveSession'
      PROVE  TurnsInv'
  <2>1. StartsKnow'
    BY <1>3 DEF StartsKnow, Knows
  <2>. QED BY <1>1, <1>2, <1>3, <2>1 DEF TurnsInv
<1>5. ASSUME NEW id \in Numbers, NEW summary, workSessions' = EndedWith(id, summary)
      PROVE  OneActiveSession'
  <2>1. \A project \in SessionProjects : Active(project)' \subseteq Active(project)
    BY <1>0, <1>5, EndedActive
  <2>. QED BY <1>0, <2>1 DEF OneActiveSession
<1>6. ASSUME workSessions' = workSessions
      PROVE  OneActiveSession'
  BY <1>0, <1>6 DEF OneActiveSession, Active
<1>7. CASE \E project \in SessionProjects : start_session(p, project)
  <2>1. PICK project \in SessionProjects : start_session(p, project)
    BY <1>7
  <2>2. workSessions' = workSessions
    BY <2>1 DEF start_session
  <2>3. CASE Active(project) = {}
    <3>1. starting'[p] = [NotCalling EXCEPT !.at = "create", !.project = project, !.since = clock]
      BY <1>0, <2>1, <2>3 DEF start_session
    <3>2. starting'[p].at = "create" /\ starting'[p].project = project
      BY <3>1 DEF NotCalling
    <3>3. Knows(p)'
      BY <2>2, <2>3, <3>2 DEF Knows, Active
    <3>. QED BY <1>3, <1>6, <2>2, <3>3
  <2>4. CASE Active(project) # {}
    <3>1. PICK n \in LastStarted(project) :
            starting'[p] = [NotCalling EXCEPT !.at = "auto_end", !.project = project, !.id = n]
      BY <1>0, <2>1, <2>4 DEF start_session
    <3>2. starting'[p].at = "auto_end" /\ starting'[p].project = project /\ starting'[p].id = n
      BY <3>1 DEF NotCalling
    <3>3. n \in Active(project)
      BY <3>1 DEF LastStarted
    <3>4. Active(project) = {n}
      BY <1>0, <3>3 DEF OneActiveSession
    <3>5. Knows(p)'
      BY <2>2, <3>2, <3>4 DEF Knows, Active
    <3>. QED BY <1>3, <1>6, <2>2, <3>5
  <2>. QED BY <2>3, <2>4
<1>8. CASE \E project \in SessionProjects, hybrid \in BOOLEAN : session_end(p, project, hybrid)
  <2>1. workSessions' = workSessions
    BY <1>8 DEF session_end
  <2>2. starting'[p].at = "end" /\ starting'[p].id \in Numbers
    BY <1>0, <1>8 DEF session_end, NotCalling, LastStarted, Active
  <2>3. Knows(p)'
    BY <2>2 DEF Knows
  <2>. QED BY <1>3, <1>6, <2>1, <2>3
<1>9. CASE \E n \in Numbers : memory_session_end(p, n)
  <2>1. PICK n \in Numbers : workSessions' = EndedWith(n, "user") /\ starting' = starting
    BY <1>9 DEF memory_session_end
  <2>2. starting[p].at = "idle"
    BY <1>9 DEF memory_session_end
  <2>3. Knows(p)'
    BY <2>1, <2>2 DEF Knows
  <2>. QED BY <1>3, <1>5, <2>1, <2>3
<1>10. CASE AutoEnd(p)
  <2>1. /\ starting[p].at = "auto_end" /\ workSessions' = EndedWith(starting[p].id, "auto")
        /\ starting'[p] = [starting[p] EXCEPT !.at = "create", !.since = clock]
    BY <1>0, <1>10 DEF AutoEnd
  <2>2. /\ starting[p].project \in SessionProjects
        /\ Active(starting[p].project) = {starting[p].id}
    BY <1>0, <2>1 DEF StartsKnow, Knows
  <2>3. starting[p].id \in Numbers
    BY <2>2 DEF Active
  <2>4. starting'[p].at = "create" /\ starting'[p].project = starting[p].project
    BY <1>0, <2>1 DEF SessionCall
  <2>5. PICK project \in SessionProjects : project = starting[p].project
    BY <2>2
  <2>6. Active(project)' = {}
    BY <1>0, <2>1, <2>2, <2>3, <2>5, EndedActive
  <2>7. Knows(p)'
    BY <2>4, <2>5, <2>6 DEF Knows, Active
  <2>. QED BY <1>3, <1>5, <2>1, <2>3, <2>7
<1>11. CASE CreateWorkSession(p)
  <2>1. PICK n \in Numbers, started \in starting[p].since..clock :
          /\ workSessions[n] = NoWorkSession
          /\ workSessions' = [workSessions EXCEPT ![n] =
               [NoWorkSession EXCEPT !.project = starting[p].project, !.started = started]]
    BY <1>11 DEF CreateWorkSession
  <2>2. starting[p].at = "create" /\ starting'[p].at = "idle"
    BY <1>0, <1>11 DEF CreateWorkSession, NotCalling
  <2>3. Active(starting[p].project) = {}
    BY <1>0, <2>2 DEF StartsKnow, Knows
  <2>4. /\ workSessions'[n].project = starting[p].project
        /\ \A m \in Numbers \ {n} : workSessions'[m] = workSessions[m]
    BY <1>0, <2>1 DEF SessionsTypeOK, NoWorkSession
  <2>5. ASSUME NEW project \in SessionProjects
        PROVE  Active(project)' \subseteq
                 IF project = starting[p].project THEN {n} ELSE Active(project)
    BY <2>3, <2>4 DEF Active
  <2>6. OneActiveSession'
    BY <1>0, <2>5 DEF OneActiveSession
  <2>7. Knows(p)'
    BY <2>2 DEF Knows
  <2>. QED BY <1>3, <2>6, <2>7
<1>12. CASE end_session(p) \/ dispatch_session_end(p)
  <2>1. starting[p].at = "end" /\ starting'[p].at \in {"idle", "end"}
    BY <1>0, <1>12 DEF end_session, dispatch_session_end, NotCalling, SessionCall
  <2>2. workSessions' = workSessions \/ workSessions' = EndedWith(starting[p].id, "user")
    BY <1>12 DEF end_session, dispatch_session_end
  <2>3. starting[p].id \in Numbers
    BY <1>0, <2>1 DEF StartsKnow, Knows
  <2>4. starting'[p].at = "end" => starting'[p].id = starting[p].id
    BY <1>0, <1>12 DEF end_session, dispatch_session_end, NotCalling, SessionCall
  <2>5. Knows(p)'
    BY <2>1, <2>3, <2>4 DEF Knows
  <2>. QED BY <1>3, <1>5, <1>6, <2>2, <2>3, <2>5
<1>13. CASE UserDies(p)
  <2>1. workSessions' = workSessions /\ starting'[p].at = "idle"
    BY <1>0, <1>13 DEF UserDies, NotCalling
  <2>2. Knows(p)'
    BY <2>1 DEF Knows
  <2>. QED BY <1>3, <1>6, <2>1, <2>2
<1>. QED BY <1>7, <1>8, <1>9, <1>10, <1>11, <1>12, <1>13 DEF SessionCommand

\* A step that leaves the table and the commands alone.
LEMMA QuietKeepsTurns ==
  TurnsInv /\ SessionsTypeOK' /\ workSessions' = workSessions /\ starting' = starting => TurnsInv'
BY DEF TurnsInv, OthersIdle, StartsKnow, Knows, OneActiveSession, Active



-----------------------------------------------------------------------------
(*****************************************************************************)
(* Dispatch.  What a hook file holds is a list of rules, so that the rule the*)
(* runner is at is one, or it has come to the end.                           *)
(*****************************************************************************)

LEMMA HookRecords ==
  ASSUME NEW at \in {"idle", "rules", "work"}, NEW event \in HookEvents \cup {None}, NEW rule \in Nat,
         NEW tries \in 0..RetryAttempts, NEW raised \in BOOLEAN
  PROVE  [at |-> at, event |-> event, rule |-> rule, tries |-> tries, raised |-> raised] \in Hooking
BY DEF Hooking

LEMMA HookBegins ==
  ASSUME NEW h \in Hooking, NEW event \in HookEvents \cup {None}, NEW at \in {"idle", "rules", "work"}
  PROVE  /\ [h EXCEPT !.at = at, !.event = event] \in Hooking
         /\ [h EXCEPT !.at = at, !.event = event].rule = h.rule
         /\ [h EXCEPT !.at = at, !.event = event].at = at
<1>1. PICK g : g = [h EXCEPT !.at = at, !.event = event]
  OBVIOUS
<1>2. g \in Hooking /\ g.rule = h.rule /\ g.at = at
  BY <1>1 DEF Hooking
<1>. QED BY <1>1, <1>2

LEMMA HookRaises ==
  ASSUME NEW h \in Hooking, NEW raised \in BOOLEAN
  PROVE  [h EXCEPT !.raised = raised] \in Hooking /\ [h EXCEPT !.raised = raised].at = h.at
BY DEF Hooking

LEMMA DispatchTypesStart == DispatchInit => DispatchTypeOK
<1>1. 0 \in 0..RetryAttempts
  BY DispatchAssumption
<1>2. NotHooking \in Hooking /\ NotHooking.at = "idle"
  BY <1>1, HookRecords DEF NotHooking
<1>. QED BY <1>2 DEF DispatchInit, DispatchTypeOK

LEMMA DispatchTypesKept == DispatchTypeOK /\ [DispatchNext]_hookVars => DispatchTypeOK'
<1>. SUFFICES ASSUME DispatchTypeOK, [DispatchNext]_hookVars PROVE DispatchTypeOK'
  OBVIOUS
<1>0. /\ hooks \in HookFiles \cup {None, Broken} /\ hooking \in Hooking
      /\ rules = None \/ rules \in Seq(Rule)
      /\ 0 \in 0..RetryAttempts /\ RetryAttempts \in Nat
  BY DispatchAssumption DEF DispatchTypeOK
<1>1. NotHooking \in Hooking /\ NotHooking.at = "idle"
  BY <1>0, HookRecords DEF NotHooking
<1>r. NotHooking.rule = 1
  BY DEF NotHooking
<1>2. CASE UNCHANGED hookVars
  BY <1>2 DEF hookVars, DispatchTypeOK
<1>3. ASSUME NEW event \in HookEvents, dispatch(event) PROVE DispatchTypeOK'
  <2>1. CASE rules = None /\ hooks = Broken
    <3>0. PICK g : g = [NotHooking EXCEPT !.at = "work", !.event = event]
      OBVIOUS
    <3>1. g \in Hooking /\ g.at = "work"
      BY <1>1, <3>0, HookBegins
    <3>2. hooking' = [NotHooking EXCEPT !.at = "work", !.event = event, !.raised = TRUE]
      BY <1>3, <2>1, Zenon DEF dispatch
    <3>3. hooking' = [g EXCEPT !.raised = TRUE] /\ hooks' = hooks /\ rules' = rules
      BY <1>3, <2>1, <3>0, <3>2 DEF dispatch
    <3>4. \A raised \in BOOLEAN : hooking' = [g EXCEPT !.raised = raised] => hooking' \in Hooking /\ hooking'.at = "work"
      BY <3>1, HookRaises
    <3>5. hooking' \in Hooking /\ hooking'.at = "work"
      BY <3>3, <3>4, Zenon
    <3>. QED BY <1>0, <3>3, <3>5 DEF DispatchTypeOK
  <2>2. CASE ~(rules = None /\ hooks = Broken)
    <3>0. PICK h : h = [NotHooking EXCEPT !.at = "rules", !.event = event]
      OBVIOUS
    <3>1. h \in Hooking /\ h.rule = 1
      <4>0. PICK n : n = NotHooking
        OBVIOUS
      <4>2. n \in Hooking /\ h = [n EXCEPT !.at = "rules", !.event = event]
        BY <1>1, <3>0, <4>0
      <4>3. h \in Hooking /\ h.rule = n.rule
        BY <4>2, HookBegins
      <4>1. h \in Hooking /\ h.rule = NotHooking.rule
        BY <4>0, <4>3
      <4>. QED BY <1>r, <4>1
    <3>2. hooking' = h /\ rules' = (IF rules = None THEN Loaded(hooks) ELSE rules) /\ hooks' = hooks
      <4>1. /\ hooking' = [NotHooking EXCEPT !.at = "rules", !.event = event]
            /\ rules' = (IF rules = None THEN Loaded(hooks) ELSE rules) /\ hooks' = hooks
        BY <1>3, <2>2, Zenon DEF dispatch
      <4>. QED BY <3>0, <4>1, Zenon
    <3>3. rules' \in Seq(Rule) /\ rules' # None
      <4>1. CASE rules = None
        <5>1. hooks \in HookFiles \cup {None}
          BY <1>0, <2>2, <4>1
        <5>2. <<>> \in Seq(Rule)
          BY EmptySeq
        <5>. QED BY <3>2, <4>1, <5>1, <5>2, DispatchAssumption DEF Loaded
      <4>2. CASE rules # None
        BY <1>0, <3>2, <4>2
      <4>. QED BY <4>1, <4>2
    <3>4. 1 \in 1..Len(rules') + 1
      BY <3>3, LenProperties
    <3>. QED BY <1>0, <3>1, <3>2, <3>3, <3>4 DEF DispatchTypeOK
  <2>. QED BY <2>1, <2>2
<1>4. ASSUME NEW h \in Hooking, hooking' = h, UNCHANGED <<hooks, rules>>,
             h.at = "rules" => rules # None /\ h.rule \in 1..Len(rules) + 1
      PROVE  DispatchTypeOK'
  BY <1>0, <1>4 DEF DispatchTypeOK
<1>5. ASSUME NEW raised \in BOOLEAN, WorkAfter(raised), UNCHANGED <<hooks, rules>> PROVE DispatchTypeOK'
  <2>1. PICK h : h = [hooking EXCEPT !.at = "work", !.raised = raised]
    OBVIOUS
  <2>2. h \in Hooking /\ h.at = "work"
    BY <1>0, <2>1 DEF Hooking
  <2>. QED BY <1>4, <1>5, <2>1, <2>2 DEF WorkAfter
<1>6. ASSUME AtRule
      PROVE  /\ rules # None /\ hooking.rule \in Nat /\ hooking.rule + 1 \in 1..Len(rules) + 1
             /\ hooking.rule \in 1..Len(rules) + 1 /\ hooking.at = "rules"
  <2>1. rules \in Seq(Rule) /\ hooking.rule \in 1..Len(rules) + 1 /\ hooking.rule <= Len(rules)
        /\ rules # None
    BY <1>0, <1>6 DEF AtRule, DispatchTypeOK
  <2>2. Len(rules) \in Nat
    BY <2>1, LenProperties
  <2>. QED BY <1>6, <2>1, <2>2 DEF AtRule
<1>7. ASSUME AtRule, NEW tries \in 0..RetryAttempts, UNCHANGED <<hooks, rules>>,
             NEW rule \in {hooking.rule, hooking.rule + 1},
             hooking' = [hooking EXCEPT !.rule = rule, !.tries = tries]
      PROVE  DispatchTypeOK'
  <2>1. PICK h : h = [hooking EXCEPT !.rule = rule, !.tries = tries]
    OBVIOUS
  <2>2. rule \in Nat
    BY <1>6, <1>7
  <2>3. h \in Hooking /\ h.rule = rule
    BY <1>0, <1>7, <2>1, <2>2 DEF Hooking
  <2>. QED BY <1>4, <1>6, <1>7, <2>1, <2>3
<1>8. /\ hooking.tries \in 0..RetryAttempts
      /\ hooking = [hooking EXCEPT !.rule = hooking.rule, !.tries = hooking.tries]
  BY <1>0 DEF Hooking
<1>9. CASE DispatchEnds
  BY <1>5, <1>9 DEF DispatchEnds
<1>10. CASE SkipRule
  <2>1. hooking' = [hooking EXCEPT !.rule = hooking.rule + 1, !.tries = hooking.tries]
    BY <1>0, <1>10 DEF SkipRule, Hooking
  <2>. QED BY <1>7, <1>8, <1>10, <2>1 DEF SkipRule
<1>11. CASE RunAction
  <2>1. \/ WorkAfter(TRUE)
        \/ /\ hooking.tries + 1 < RetryAttempts
           /\ hooking' = [hooking EXCEPT !.tries = hooking.tries + 1]
        \/ hooking' = [hooking EXCEPT !.rule = hooking.rule + 1, !.tries = 0]
    BY <1>11 DEF RunAction
  <2>2. CASE /\ hooking.tries + 1 < RetryAttempts
             /\ hooking' = [hooking EXCEPT !.tries = hooking.tries + 1]
    <3>1. hooking.tries + 1 \in 0..RetryAttempts
      BY <1>0, <1>8, <2>2
    <3>2. hooking' = [hooking EXCEPT !.rule = hooking.rule, !.tries = hooking.tries + 1]
      BY <1>0, <2>2 DEF Hooking
    <3>. QED BY <1>7, <1>11, <3>1, <3>2 DEF RunAction
  <2>. QED BY <1>0, <1>5, <1>7, <1>11, <2>1, <2>2 DEF RunAction
<1>12. CASE EditHooks
  BY <1>0, <1>12 DEF EditHooks, DispatchTypeOK
<1>13. CASE CommandEnds
  BY <1>0, <1>1, <1>13 DEF CommandEnds, DispatchTypeOK
<1>. QED BY <1>2, <1>3, <1>9, <1>10, <1>11, <1>12, <1>13 DEF DispatchNext

\* The types of the hooks.
THEOREM DispatchTypeCorrect == DispatchSpec => []DispatchTypeOK
BY DispatchTypesStart, DispatchTypesKept, PTL DEF DispatchSpec

-----------------------------------------------------------------------------
(*****************************************************************************)
(* Templates.  Saving keeps one row to an id, because a discovery has an id  *)
(* of its own kind and a uuid is a number not given out yet.                 *)
(*****************************************************************************)

\* Rows of templates with one row to an id, made with the first k uuids.
RowsOK(someRows, k) ==
  /\ someRows \in Seq(Template)
  /\ \A i, j \in DOMAIN someRows : SameId(someRows[i], someRows[j]) => i = j
  /\ \A i \in DOMAIN someRows : someRows[i].own <= k

TemplatesInv == TemplatesTypeOK /\ RowsOK(templates, saved)

LEMMA SameIdFacts ==
  /\ \A s : SameId(s, s)
  /\ \A s, t : SameId(s, t) => SameId(t, s) /\ s.own = t.own
  /\ \A s, t, u : SameId(s, t) /\ SameId(t, u) => SameId(s, u)
BY DEF SameId

LEMMA SavedKeeps ==
  ASSUME NEW k \in 0..MaxSaved, NEW someRows, RowsOK(someRows, k),
         NEW t \in Template, t.own <= k
  PROVE  RowsOK(Saved(someRows, t), k)
<1>1. someRows \in [1..Len(someRows) -> Template] /\ DOMAIN someRows = 1..Len(someRows) /\ Len(someRows) \in Nat
  BY DEF RowsOK
<1>2. CASE \E i \in DOMAIN someRows : SameId(someRows[i], t)
  <2>. PICK new : new = [i \in DOMAIN someRows |-> IF SameId(someRows[i], t) THEN t ELSE someRows[i]]
    OBVIOUS
  <2>1. Saved(someRows, t) = new
    BY <1>2 DEF Saved
  <2>2. new \in [1..Len(someRows) -> Template]
    BY <1>1
  <2>3. new \in Seq(Template) /\ DOMAIN new = 1..Len(someRows)
    BY <1>1, <2>2, SeqDef
  <2>4. \A i \in DOMAIN new : SameId(someRows[i], new[i]) /\ new[i].own <= k
    BY <1>1, <2>3, SameIdFacts DEF RowsOK
  <2>5. \A i, j \in DOMAIN new : SameId(new[i], new[j]) => i = j
    <3> SUFFICES ASSUME NEW i \in DOMAIN new, NEW j \in DOMAIN new, SameId(new[i], new[j])
                 PROVE  i = j
      OBVIOUS
    <3>1. SameId(someRows[i], new[i]) /\ SameId(someRows[j], new[j]) /\ SameId(new[j], someRows[j])
      BY <2>4, SameIdFacts
    <3>2. SameId(someRows[i], someRows[j])
      BY <3>1, SameIdFacts
    <3> QED
      BY <3>2, <1>1, <2>3 DEF RowsOK
  <2> QED
    BY <2>1, <2>3, <2>4, <2>5 DEF RowsOK
<1>3. CASE \A i \in DOMAIN someRows : ~SameId(someRows[i], t)
  <2>. PICK new : new = Append(someRows, t)
    OBVIOUS
  <2>1. Saved(someRows, t) = new
    BY <1>3 DEF Saved
  <2>2. new \in Seq(Template) /\ DOMAIN new = 1..Len(someRows) + 1 /\ new[Len(someRows) + 1] = t
        /\ \A i \in 1..Len(someRows) : new[i] = someRows[i]
    BY <1>1, AppendProperties DEF RowsOK
  <2>3. \A i \in DOMAIN new : i = Len(someRows) + 1 \/ i \in DOMAIN someRows
    BY <1>1, <2>2
  <2>4. \A i \in DOMAIN new : new[i].own <= k
    BY <1>1, <2>2, <2>3 DEF RowsOK
  <2>5. \A i \in DOMAIN someRows : ~SameId(new[i], t) /\ ~SameId(t, new[i])
    BY <1>1, <1>3, <2>2, SameIdFacts
  <2>6. \A i, j \in DOMAIN new : SameId(new[i], new[j]) => i = j
    BY <1>1, <2>2, <2>3, <2>5 DEF RowsOK
  <2> QED
    BY <2>1, <2>2, <2>4, <2>6 DEF RowsOK
<1> QED
  BY <1>2, <1>3

\* A sequence without its element d.
LEMMA WithoutOne ==
  ASSUME NEW S, NEW seq \in Seq(S), NEW d \in 1..Len(seq)
  PROVE  LET new == SubSeq(seq, 1, d - 1) \o SubSeq(seq, d + 1, Len(seq))
         IN  /\ new \in Seq(S)
             /\ Len(new) = Len(seq) - 1
             /\ \A i \in 1..Len(seq) - 1 : new[i] = IF i < d THEN seq[i] ELSE seq[i + 1]
<1>1. PICK n \in Nat : n = Len(seq)
  OBVIOUS
<1>2. d \in Nat /\ 1 <= d /\ d <= n
  BY <1>1
<1>3. PICK front : front = SubSeq(seq, 1, d - 1)
  OBVIOUS
<1>4. PICK rest : rest = SubSeq(seq, d + 1, n)
  OBVIOUS
<1>5. front \in Seq(S) /\ Len(front) = d - 1 /\ \A i \in 1..d - 1 : front[i] = seq[i]
  BY <1>1, <1>2, <1>3, SubSeqProperties
<1>6. rest \in Seq(S) /\ Len(rest) = n - d /\ \A i \in 1..n - d : rest[i] = seq[d + i]
  BY <1>1, <1>2, <1>4, SubSeqProperties
<1>7. PICK new : new = front \o rest
  OBVIOUS
<1>8. new \in Seq(S) /\ Len(new) = Len(front) + Len(rest)
      /\ \A i \in 1..Len(front) + Len(rest) :
           new[i] = IF i <= Len(front) THEN front[i] ELSE rest[i - Len(front)]
  <2>1. front \in Seq(S) /\ rest \in Seq(S)
    BY <1>5, <1>6
  <2> QED
    BY <2>1, <1>7, ConcatProperties
<1>9. Len(new) = n - 1
  BY <1>2, <1>5, <1>6, <1>8
<1>10. ASSUME NEW i \in 1..n - 1
       PROVE  new[i] = IF i < d THEN seq[i] ELSE seq[i + 1]
  <2>1. CASE i < d
    BY <1>2, <1>5, <1>6, <1>8, <2>1
  <2>2. CASE ~(i < d)
    <3>1. i - (d - 1) \in 1..n - d /\ d + (i - (d - 1)) = i + 1
          /\ i \in 1..(d - 1) + (n - d) /\ ~(i <= d - 1)
      BY <1>2, <2>2
    <3>2. new[i] = rest[i - (d - 1)]
      BY <3>1, <1>5, <1>6, <1>8
    <3>3. rest[i - (d - 1)] = seq[i + 1]
      BY <3>1, <1>6
    <3> QED
      BY <3>2, <3>3, <2>2
  <2> QED
    BY <2>1, <2>2
<1> QED
  BY <1>1, <1>3, <1>4, <1>7, <1>8, <1>9, <1>10

LEMMA RemovedKeeps ==
  ASSUME NEW k \in 0..MaxSaved, NEW someRows, RowsOK(someRows, k), NEW d \in DOMAIN someRows
  PROVE  RowsOK(Removed(someRows, d), k)
<1>1. someRows \in Seq(Template) /\ DOMAIN someRows = 1..Len(someRows) /\ Len(someRows) \in Nat
  <2>1. someRows \in Seq(Template)
    BY DEF RowsOK
  <2> QED
    BY <2>1, LenProperties
<1>2. PICK n \in Nat : n = Len(someRows)
  BY <1>1
<1>3. d \in 1..n /\ DOMAIN someRows = 1..n
  BY <1>1, <1>2
<1>4. PICK new : new = Removed(someRows, d)
  OBVIOUS
<1>5. new \in Seq(Template) /\ Len(new) = n - 1
      /\ \A i \in 1..n - 1 : new[i] = IF i < d THEN someRows[i] ELSE someRows[i + 1]
  BY <1>1, <1>2, <1>3, <1>4, WithoutOne DEF Removed
<1>6. DOMAIN new = 1..n - 1
  BY <1>5, LenProperties
<1>7. PICK from : from = [i \in 1..n - 1 |-> IF i < d THEN i ELSE i + 1]
  OBVIOUS
<1>8. \A i \in 1..n - 1 : from[i] \in 1..n /\ new[i] = someRows[from[i]]
  BY <1>2, <1>3, <1>5, <1>7
<1>9. \A i, j \in 1..n - 1 : from[i] = from[j] => i = j
  BY <1>2, <1>3, <1>7
<1>10. \A i \in DOMAIN new : new[i].own <= k
  BY <1>3, <1>6, <1>8 DEF RowsOK
<1>11. \A i, j \in DOMAIN new : SameId(new[i], new[j]) => i = j
  BY <1>3, <1>6, <1>8, <1>9 DEF RowsOK
<1> QED
  BY <1>4, <1>5, <1>10, <1>11 DEF RowsOK

\* Rows that are changed in place keep their ids.
LEMMA EditedKeeps ==
  ASSUME NEW k \in 0..MaxSaved, NEW someRows, RowsOK(someRows, k),
         NEW new \in [DOMAIN someRows -> Template],
         \A i \in DOMAIN someRows : SameId(new[i], someRows[i])
  PROVE  RowsOK(new, k)
<1>1. DOMAIN someRows = 1..Len(someRows) /\ Len(someRows) \in Nat
  BY DEF RowsOK
<1>2. new \in Seq(Template) /\ DOMAIN new = DOMAIN someRows
  BY <1>1, SeqDef
<1>3. \A i \in DOMAIN new : new[i].own <= k
  BY <1>2, SameIdFacts DEF RowsOK
<1>4. \A i, j \in DOMAIN new : SameId(new[i], new[j]) => i = j
  <2> SUFFICES ASSUME NEW i \in DOMAIN new, NEW j \in DOMAIN new, SameId(new[i], new[j])
               PROVE  i = j
    OBVIOUS
  <2>1. SameId(someRows[i], new[i]) /\ SameId(new[j], someRows[j])
    BY <1>2, SameIdFacts
  <2>2. SameId(someRows[i], someRows[j])
    BY <2>1, SameIdFacts
  <2> QED
    BY <2>2, <1>2 DEF RowsOK
<1> QED
  BY <1>2, <1>3, <1>4 DEF RowsOK

LEMMA DiscoveriesAreTemplates ==
  ASSUME TemplatesInv, NEW inProject \in BOOLEAN
  PROVE  /\ Discoveries(inProject) \subseteq Template
         /\ \A t \in Discoveries(inProject) : t.own = 0
         /\ \A s, t \in Discoveries(inProject) : SameId(s, t) => s = t
<1>1. ASSUME NEW n \in TemplateNames, NEW s \in TemplateScopes, s \in Found(n, inProject)
      PROVE  Readable(s, n)
  BY <1>1 DEF Found
<1>2. ASSUME NEW n \in TemplateNames, NEW s \in TemplateScopes, Readable(s, n)
      PROVE  templateFiles[s][n].member \in Member
  <2>1. templateFiles[s][n] \in TemplateFile
    BY <1>2 DEF TemplatesInv, TemplatesTypeOK, Readable
  <2> QED
    BY <2>1 DEF TemplateFile
<1>3. ASSUME NEW t \in Discoveries(inProject)
      PROVE  \E n \in TemplateNames, s \in TemplateScopes :
               /\ s \in Found(n, inProject) /\ t = Discovered(n, s)
  BY DEF Discoveries
<1>4. ASSUME NEW t \in Discoveries(inProject)
      PROVE  t \in Template /\ t.own = 0
  <2>1. PICK n \in TemplateNames, s \in TemplateScopes :
          s \in Found(n, inProject) /\ t = Discovered(n, s)
    BY <1>3
  <2>2. templateFiles[s][n].member \in Member
    BY <2>1, <1>1, <1>2
  <2>3. 0 \in 0..MaxSaved
    BY TemplatesAssumption
  <2> QED
    BY <2>1, <2>2, <2>3 DEF Discovered, Template
<1>5. ASSUME NEW s \in Discoveries(inProject), NEW t \in Discoveries(inProject), SameId(s, t)
      PROVE  s = t
  <2>1. PICK n \in TemplateNames, a \in TemplateScopes : s = Discovered(n, a)
    BY <1>3
  <2>2. PICK m \in TemplateNames, b \in TemplateScopes : t = Discovered(m, b)
    BY <1>3
  <2>3. n = m /\ a = b
    BY <1>5, <2>1, <2>2 DEF Discovered, SameId
  <2> QED
    BY <2>1, <2>2, <2>3
<1> QED
  BY <1>4, <1>5

LEMMA DiscoverKeeps ==
  ASSUME TemplatesInv, NEW inProject \in BOOLEAN, discover_templates(inProject)
  PROVE  RowsOK(templates', saved)
<1>a. PICK found : found = Discoveries(inProject)
  OBVIOUS
<1>b. PICK new : new = {t \in found : \A i \in TemplateRows : ~SameId(templates[i], t)}
  OBVIOUS
<1>c. PICK kept : kept = [i \in TemplateRows |->
                    IF \E t \in found : SameId(templates[i], t)
                    THEN CHOOSE t \in found : SameId(templates[i], t)
                    ELSE templates[i]]
  OBVIOUS
<1>1. PICK order \in [1..Cardinality(new) -> new] :
        /\ \A i, j \in DOMAIN order : order[i] = order[j] => i = j
        /\ templates' = kept \o order
  BY <1>a, <1>b, <1>c DEF discover_templates
<1>2. found \subseteq Template /\ (\A t \in found : t.own = 0)
      /\ \A s, t \in found : SameId(s, t) => s = t
  BY <1>a, DiscoveriesAreTemplates
<1>3. RowsOK(templates, saved) /\ saved \in 0..MaxSaved /\ saved \in Nat
  BY TemplatesAssumption DEF TemplatesInv, TemplatesTypeOK
<1>4. templates \in [DOMAIN templates -> Template]
  BY <1>3 DEF RowsOK
<1>5. kept \in [DOMAIN templates -> Template]
      /\ \A i \in DOMAIN templates : SameId(kept[i], templates[i])
  <2>1. ASSUME NEW i \in DOMAIN templates
        PROVE  kept[i] \in Template /\ SameId(kept[i], templates[i])
    <3>1. CASE \E t \in found : SameId(templates[i], t)
      <4>1. kept[i] = CHOOSE t \in found : SameId(templates[i], t)
        BY <1>c, <3>1 DEF TemplateRows
      <4>2. kept[i] \in found /\ SameId(templates[i], kept[i])
        BY <3>1, <4>1
      <4> QED
        BY <4>2, <1>2, SameIdFacts
    <3>2. CASE ~ \E t \in found : SameId(templates[i], t)
      <4>1. kept[i] = templates[i]
        BY <1>c, <3>2 DEF TemplateRows
      <4> QED
        BY <4>1, <1>4, SameIdFacts
    <3> QED
      BY <3>1, <3>2
  <2> QED
    BY <1>c, <2>1 DEF TemplateRows
<1>6. RowsOK(kept, saved)
  BY <1>3, <1>5, EditedKeeps
<1>7. order \in Seq(Template) /\ Len(order) \in Nat /\ DOMAIN order = 1..Len(order)
  <2>1. IsFiniteSet(new)
    <3>1. IsFiniteSet(TemplateNames \X TemplateScopes)
      <4>1. IsFiniteSet(TemplateScopes)
        <5>1. IsFiniteSet({"USER"}) /\ IsFiniteSet({"PROJECT"})
          BY FS_Singleton
        <5>2. TemplateScopes = {"USER"} \cup {"PROJECT"}
          BY DEF TemplateScopes
        <5> QED
          BY <5>1, <5>2, FS_Union
      <4> QED
        BY <4>1, FS_Product, TemplatesAssumption
    <3>. PICK places : places = {ns \in TemplateNames \X TemplateScopes :
             /\ ns[2] \in Found(ns[1], inProject)
             /\ \A i \in Existing(templates, ns[1]) : templates[i].scope # ns[2]}
      OBVIOUS
    <3>2. IsFiniteSet(places)
      BY <3>1, FS_Subset
    <3>. PICK at : at = [ns \in places |-> Discovered(ns[1], ns[2])]
      OBVIOUS
    <3>3. found = {at[ns] : ns \in places}
      BY <1>a DEF Discoveries
    <3>4. IsFiniteSet({at[ns] : ns \in places})
      <4>1. at \in Surjection(places, {at[ns] : ns \in places})
        BY DEF Surjection
      <4> QED
        BY <4>1, <3>2, FS_Surjection
    <3> QED
      <4>1. new \subseteq found /\ IsFiniteSet(found)
        BY <1>b, <3>3, <3>4
      <4> QED
        BY <4>1, FS_Subset
  <2>2. Cardinality(new) \in Nat
    BY <2>1, FS_CardinalityType
  <2>3. new \subseteq Template
    BY <1>b, <1>2
  <2>4. order \in [1..Cardinality(new) -> Template]
    BY <2>3
  <2>5. order \in Seq(Template)
    <3>. PICK k \in Nat : k = Cardinality(new)
      BY <2>2
    <3> QED
      BY <2>4, SeqDef
  <2> QED
    BY <2>5
<1>8. kept \in Seq(Template) /\ Len(kept) \in Nat /\ DOMAIN kept = 1..Len(kept)
  BY <1>6 DEF RowsOK
<1>d. PICK all : all = kept \o order
  OBVIOUS
<1>9. all \in Seq(Template) /\ DOMAIN all = 1..Len(kept) + Len(order)
      /\ (\A i \in 1..Len(kept) : all[i] = kept[i])
      /\ \A i \in 1..Len(order) : all[Len(kept) + i] = order[i]
  <2>1. all \in Seq(Template) /\ Len(all) = Len(kept) + Len(order)
        /\ \A i \in 1..Len(kept) + Len(order) :
             all[i] = IF i <= Len(kept) THEN kept[i] ELSE order[i - Len(kept)]
    <3>1. kept \in Seq(Template) /\ order \in Seq(Template)
      BY <1>7, <1>8
    <3> QED
      BY <1>d, <3>1, ConcatProperties
  <2>2. DOMAIN all = 1..Len(all)
    BY <2>1
  <2>3. \A i \in 1..Len(kept) : all[i] = kept[i]
    BY <2>1, <1>7, <1>8
  <2>4. ASSUME NEW i \in 1..Len(order)
        PROVE  all[Len(kept) + i] = order[i]
    <3>1. Len(kept) + i \in 1..Len(kept) + Len(order) /\ ~(Len(kept) + i <= Len(kept))
          /\ (Len(kept) + i) - Len(kept) = i
      BY <1>7, <1>8
    <3> QED
      BY <3>1, <2>1
  <2> QED
    BY <2>1, <2>2, <2>3, <2>4
<1>10. ASSUME NEW i \in DOMAIN all
       PROVE  \/ i \in DOMAIN kept /\ all[i] = kept[i]
              \/ \E o \in DOMAIN order : i = Len(kept) + o /\ all[i] = order[o]
  <2>1. CASE i <= Len(kept)
    BY <1>7, <1>8, <1>9, <2>1
  <2>2. CASE ~(i <= Len(kept))
    <3>1. i - Len(kept) \in DOMAIN order /\ i = Len(kept) + (i - Len(kept))
      BY <1>7, <1>8, <1>9, <2>2
    <3> QED
      BY <3>1, <1>7, <1>9
  <2> QED
    BY <2>1, <2>2
<1>11. \A o \in DOMAIN order : order[o] \in found /\ order[o].own = 0
  BY <1>b, <1>2
<1>12. \A i \in DOMAIN all : all[i].own <= saved
  <2>1. \A i \in DOMAIN kept : kept[i].own <= saved
    BY <1>6 DEF RowsOK
  <2> QED
    <3> SUFFICES ASSUME NEW i \in DOMAIN all
                 PROVE  all[i].own <= saved
      OBVIOUS
    <3>1. CASE i \in DOMAIN kept /\ all[i] = kept[i]
      BY <2>1, <3>1
    <3>2. CASE \E o \in DOMAIN order : i = Len(kept) + o /\ all[i] = order[o]
      <4>1. all[i].own = 0
        BY <3>2, <1>11
      <4> QED
        BY <4>1, <1>3
    <3> QED
      BY <3>1, <3>2, <1>10
<1>13. \A i \in DOMAIN kept, o \in DOMAIN order :
         ~SameId(kept[i], order[o]) /\ ~SameId(order[o], kept[i])
  <2> SUFFICES ASSUME NEW i \in DOMAIN kept, NEW o \in DOMAIN order
               PROVE  ~SameId(kept[i], order[o])
    BY SameIdFacts
  <2>1. ~SameId(templates[i], order[o])
    BY <1>5, <1>b DEF TemplateRows
  <2>2. SameId(templates[i], kept[i])
    BY <1>5, SameIdFacts
  <2> QED
    BY <2>1, <2>2, SameIdFacts
<1>14. \A i, j \in DOMAIN all : SameId(all[i], all[j]) => i = j
  <2> SUFFICES ASSUME NEW i \in DOMAIN all, NEW j \in DOMAIN all, SameId(all[i], all[j])
               PROVE  i = j
    OBVIOUS
  <2>1. CASE i \in DOMAIN kept /\ all[i] = kept[i]
    <3>1. j \in DOMAIN kept /\ all[j] = kept[j]
      BY <2>1, <1>10, <1>13
    <3> QED
      BY <2>1, <3>1, <1>6 DEF RowsOK
  <2>2. CASE \E o \in DOMAIN order : i = Len(kept) + o /\ all[i] = order[o]
    <3>1. PICK o \in DOMAIN order : i = Len(kept) + o /\ all[i] = order[o]
      BY <2>2
    <3>2. PICK q \in DOMAIN order : j = Len(kept) + q /\ all[j] = order[q]
      BY <3>1, <1>10, <1>13
    <3>3. order[o] = order[q]
      BY <3>1, <3>2, <1>2, <1>11
    <3>4. o = q
      BY <3>3, <1>1
    <3> QED
      BY <3>1, <3>2, <3>4
  <2> QED
    BY <2>1, <2>2, <1>10
<1> QED
  BY <1>1, <1>d, <1>9, <1>12, <1>14 DEF RowsOK

\* A row toggled, or taken out of its team.
LEMMA StatusKeeps ==
  ASSUME TemplatesInv, NEW i \in TemplateRows
  PROVE  RowsOK(Toggled(templates, i), saved)
<1>1. RowsOK(templates, saved) /\ saved \in 0..MaxSaved
  BY DEF TemplatesInv, TemplatesTypeOK
<1>2. PICK t : t = templates[i]
  OBVIOUS
<1>3. t \in Template
  BY <1>1, <1>2 DEF RowsOK, TemplateRows
<1>4. PICK status \in {"ACTIVE", "DISABLED"} :
        status = IF t.status = "ACTIVE" THEN "DISABLED" ELSE "ACTIVE"
  OBVIOUS
<1>5. PICK u : u = [t EXCEPT !.status = status]
  OBVIOUS
<1>6. u \in Template /\ SameId(u, t)
  BY <1>3, <1>4, <1>5 DEF Template, SameId
<1>7. PICK new : new = [templates EXCEPT ![i] = u]
  OBVIOUS
<1>8. Toggled(templates, i) = new
  BY <1>2, <1>4, <1>5, <1>7 DEF Toggled
<1>9. templates \in [TemplateRows -> Template]
  BY <1>1 DEF RowsOK, TemplateRows
<1>10. new \in [TemplateRows -> Template] /\ \A j \in TemplateRows : SameId(new[j], templates[j])
  BY <1>2, <1>6, <1>7, <1>9, SameIdFacts
<1>11. RowsOK(new, saved)
  BY <1>1, <1>10, EditedKeeps DEF TemplateRows
<1> QED
  BY <1>8, <1>11

LEMMA LeaveKeeps ==
  ASSUME TemplatesInv, NEW t \in Teams, delete_team(t)
  PROVE  RowsOK(templates', saved)
<1>1. RowsOK(templates, saved) /\ saved \in 0..MaxSaved
  BY DEF TemplatesInv, TemplatesTypeOK
<1>2. PICK new : new = [i \in TemplateRows |->
          IF i \in OfTeam(t) THEN [templates[i] EXCEPT !.member = NoTeam] ELSE templates[i]]
  OBVIOUS
<1>3. templates' = templates \/ templates' = new
  BY <1>2 DEF delete_team
<1>4. templates \in [TemplateRows -> Template]
  BY <1>1 DEF RowsOK, TemplateRows
<1>5. ASSUME NEW i \in TemplateRows
      PROVE  new[i] \in Template /\ SameId(new[i], templates[i])
  <2>1. PICK row \in Template : row = templates[i]
    BY <1>4
  <2>2. PICK left : left = [row EXCEPT !.member = NoTeam]
    OBVIOUS
  <2>3. NoTeam \in Member
    BY DEF Member
  <2>4. left \in Template /\ SameId(left, row)
    BY <2>2, <2>3 DEF Template, SameId
  <2>5. new[i] = left \/ new[i] = row
    BY <1>2, <2>1, <2>2
  <2> QED
    BY <2>1, <2>4, <2>5, SameIdFacts
<1>6. RowsOK(new, saved)
  <2>1. new \in [TemplateRows -> Template]
    BY <1>2, <1>5
  <2> QED
    BY <2>1, <1>1, <1>5, EditedKeeps DEF TemplateRows
<1> QED
  BY <1>1, <1>3, <1>6

LEMMA SaveKeepsRows ==
  ASSUME TemplatesInv, NEW n \in TemplateNames, NEW described \in BOOLEAN, NEW member \in Member,
         save_template(n, described, member)
  PROVE  RowsOK(templates', saved') /\ saved' \in 0..MaxSaved
<1>1. RowsOK(templates, saved) /\ saved \in 0..MaxSaved /\ MaxSaved \in Nat
  BY TemplatesAssumption DEF TemplatesInv, TemplatesTypeOK
<1>2. PICK t : t = [own \in 0..MaxSaved |->
                      [name |-> n, scope |-> "USER", own |-> own, status |-> "ACTIVE",
                       member |-> member]]
  OBVIOUS
<1>3. \A own \in 0..MaxSaved : t[own] \in Template /\ t[own].own = own
  BY <1>2 DEF Template, TemplateScopes
<1>4. PICK same : same = {i \in get_by_name(n) : templates[i].scope = "USER"}
  OBVIOUS
<1>5. \A i \in same : i \in DOMAIN templates /\ templates[i].own \in 0..MaxSaved
                      /\ templates[i].own <= saved
  <2> SUFFICES ASSUME NEW i \in same
               PROVE  i \in DOMAIN templates /\ templates[i].own \in 0..MaxSaved
                      /\ templates[i].own <= saved
    OBVIOUS
  <2>1. i \in DOMAIN templates
    BY <1>4 DEF get_by_name, Named
  <2>2. templates[i] \in Template
    BY <2>1, <1>1 DEF RowsOK
  <2> QED
    BY <2>1, <2>2, <1>1 DEF RowsOK, Template
<1>6. \/ \E i \in same : templates' = Saved(templates, t[templates[i].own]) /\ saved' = saved
      \/ /\ saved < MaxSaved /\ saved' = saved + 1
         /\ templates' = Saved(templates, t[saved + 1])
      \/ templates' = templates /\ saved' = saved
  <2>1. \A own \in 0..MaxSaved :
          t[own] = [name |-> n, scope |-> "USER", own |-> own, status |-> "ACTIVE",
                    member |-> member]
    BY <1>2
  <2>2. saved < MaxSaved => saved + 1 \in 0..MaxSaved
    BY <1>1
  <2> QED
    BY <2>1, <2>2, <1>4, <1>5 DEF save_template
<1>7. CASE \E i \in same : templates' = Saved(templates, t[templates[i].own]) /\ saved' = saved
  <2>1. PICK i \in same : templates' = Saved(templates, t[templates[i].own]) /\ saved' = saved
    BY <1>7
  <2>2. PICK own \in 0..MaxSaved : own = templates[i].own /\ own <= saved
    BY <1>5
  <2>3. RowsOK(Saved(templates, t[own]), saved)
    BY <2>2, <1>1, <1>3, SavedKeeps
  <2> QED
    BY <2>1, <2>2, <2>3, <1>1
<1>8. CASE /\ saved < MaxSaved /\ saved' = saved + 1
           /\ templates' = Saved(templates, t[saved + 1])
  <2>1. PICK k \in 0..MaxSaved : k = saved + 1
    BY <1>1, <1>8
  <2>2. RowsOK(templates, k)
    <3>1. \A i \in DOMAIN templates : templates[i].own \in 0..MaxSaved /\ templates[i].own <= saved
      <4> SUFFICES ASSUME NEW i \in DOMAIN templates
                   PROVE  templates[i].own \in 0..MaxSaved /\ templates[i].own <= saved
        OBVIOUS
      <4>1. templates[i] \in Template
        BY <1>1 DEF RowsOK
      <4> QED
        BY <4>1, <1>1 DEF RowsOK, Template
    <3>2. \A i \in DOMAIN templates : templates[i].own <= k
      BY <3>1, <2>1, <1>1
    <3> QED
      BY <3>2, <1>1 DEF RowsOK
  <2>3. RowsOK(Saved(templates, t[k]), k)
    BY <2>1, <2>2, <1>3, SavedKeeps
  <2> QED
    BY <2>1, <2>3, <1>8
<1> QED
  BY <1>1, <1>6, <1>7, <1>8

LEMMA FilesKeepType ==
  ASSUME TemplatesInv, NEW s \in TemplateScopes, NEW n \in TemplateNames,
         NEW aFile \in TemplateFile \cup {None},
         templateFiles' = [templateFiles EXCEPT ![s][n] = aFile]
  PROVE  templateFiles' \in [TemplateScopes -> [TemplateNames -> TemplateFile \cup {None}]]
<1>1. PICK F : F = TemplateFile \cup {None}
  OBVIOUS
<1>2. templateFiles \in [TemplateScopes -> [TemplateNames -> F]] /\ aFile \in F
  BY <1>1 DEF TemplatesInv, TemplatesTypeOK
<1>3. PICK dir : dir = [templateFiles[s] EXCEPT ![n] = aFile]
  OBVIOUS
<1>4. dir \in [TemplateNames -> F]
  BY <1>2, <1>3
<1>5. templateFiles' = [templateFiles EXCEPT ![s] = dir]
  BY <1>3
<1>6. templateFiles' \in [TemplateScopes -> [TemplateNames -> F]]
  BY <1>2, <1>4, <1>5
<1> QED
  BY <1>1, <1>6

LEMMA TemplatesStep ==
  ASSUME TemplatesInv, [TemplatesNext]_templateVars
  PROVE  TemplatesInv'
<1>1. RowsOK(templates, saved) /\ saved \in 0..MaxSaved
  BY DEF TemplatesInv, TemplatesTypeOK
<1>2. /\ RowsOK(templates', saved') /\ saved' \in 0..MaxSaved
      /\ templateFiles' \in [TemplateScopes -> [TemplateNames -> TemplateFile \cup {None}]]
      /\ teams' \in [Teams -> {"none", "there", "gone"}]
      => TemplatesInv'
  BY DEF TemplatesInv, TemplatesTypeOK, RowsOK, TemplateRows
<1>3. /\ templateFiles \in [TemplateScopes -> [TemplateNames -> TemplateFile \cup {None}]]
      /\ teams \in [Teams -> {"none", "there", "gone"}]
  BY DEF TemplatesInv, TemplatesTypeOK
<1>4. CASE UNCHANGED templateVars
  BY <1>1, <1>2, <1>3, <1>4 DEF templateVars
<1>5. ASSUME NEW inProject \in BOOLEAN, discover_templates(inProject)
      PROVE  TemplatesInv'
  <2>1. RowsOK(templates', saved)
    BY <1>5, DiscoverKeeps
  <2>2. UNCHANGED <<templateFiles, teams, saved>>
    BY <1>5 DEF discover_templates
  <2> QED
    BY <1>1, <1>2, <1>3, <2>1, <2>2
<1>6. ASSUME NEW n \in TemplateNames, NEW described \in BOOLEAN, NEW member \in Member,
             save_template(n, described, member)
      PROVE  TemplatesInv'
  <2>1. RowsOK(templates', saved') /\ saved' \in 0..MaxSaved
    BY <1>6, SaveKeepsRows
  <2>2. PICK aFile : aFile = [described |-> described, member |-> member]
    OBVIOUS
  <2>3. aFile \in TemplateFile
    BY <2>2, Zenon DEF TemplateFile
  <2>4. "USER" \in TemplateScopes
    BY DEF TemplateScopes
  <2>5. templateFiles' = [templateFiles EXCEPT !["USER"][n] = aFile] /\ UNCHANGED teams
    BY <1>6, <2>2, Zenon DEF save_template, WriteFile
  <2>6. templateFiles' \in [TemplateScopes -> [TemplateNames -> TemplateFile \cup {None}]]
    BY <2>3, <2>4, <2>5, FilesKeepType
  <2> QED
    BY <1>2, <1>3, <2>1, <2>5, <2>6
<1>7. ASSUME NEW n \in TemplateNames, delete_template(n)
      PROVE  TemplatesInv'
  <2>1. PICK i \in get_by_name(n) : templates' \in {Removed(templates, i), templates}
    BY <1>7 DEF delete_template
  <2>2. i \in DOMAIN templates
    BY DEF get_by_name, Named
  <2>3. RowsOK(templates', saved)
    BY <2>1, <2>2, <1>1, RemovedKeeps
  <2>4. UNCHANGED <<teams, saved>> /\ Unlink("USER", n)
    BY <1>7 DEF delete_template
  <2>5. "USER" \in TemplateScopes
    BY DEF TemplateScopes
  <2>6. templateFiles' \in [TemplateScopes -> [TemplateNames -> TemplateFile \cup {None}]]
    BY <2>4, <2>5, FilesKeepType DEF Unlink
  <2> QED
    BY <1>1, <1>2, <1>3, <2>3, <2>4, <2>6
<1>8. ASSUME NEW n \in TemplateNames, toggle_template(n)
      PROVE  TemplatesInv'
  <2>1. PICK i \in get_by_name(n) : templates' = Toggled(templates, i)
    BY <1>8 DEF toggle_template
  <2>2. i \in TemplateRows
    BY DEF get_by_name, Named, TemplateRows
  <2>3. RowsOK(templates', saved)
    BY <2>1, <2>2, StatusKeeps
  <2>4. UNCHANGED <<templateFiles, teams, saved>>
    BY <1>8 DEF toggle_template
  <2> QED
    BY <1>1, <1>2, <1>3, <2>3, <2>4
<1>9. ASSUME NEW s \in TemplateScopes, NEW n \in TemplateNames, EditFile(s, n)
      PROVE  TemplatesInv'
  <2>1. PICK described \in BOOLEAN :
          templateFiles' = [templateFiles EXCEPT ![s][n] =
            IF @ = None THEN [described |-> described, member |-> NoTeam] ELSE None]
    BY <1>9 DEF EditFile
  <2>2. PICK new : new = [described |-> described, member |-> NoTeam]
    OBVIOUS
  <2>3. new \in TemplateFile
    <3>1. NoTeam \in Member
      BY DEF Member
    <3> QED
      BY <2>2, <3>1, Zenon DEF TemplateFile
  <2>4. PICK aFile : aFile = IF templateFiles[s][n] = None THEN new ELSE None
    OBVIOUS
  <2>5. aFile \in TemplateFile \cup {None}
    BY <2>3, <2>4
  <2>6. templateFiles' = [templateFiles EXCEPT ![s][n] = aFile]
    BY <2>1, <2>2, <2>4
  <2>7. UNCHANGED <<templates, teams, saved>>
    BY <1>9 DEF EditFile
  <2>8. templateFiles' \in [TemplateScopes -> [TemplateNames -> TemplateFile \cup {None}]]
    BY <2>5, <2>6, FilesKeepType
  <2> QED
    BY <1>1, <1>2, <1>3, <2>7, <2>8
<1>10. ASSUME NEW t \in Teams, create_team(t)
       PROVE  TemplatesInv'
  BY <1>1, <1>2, <1>3, <1>10 DEF create_team
<1>11. ASSUME NEW t \in Teams, delete_team(t)
       PROVE  TemplatesInv'
  <2>1. RowsOK(templates', saved)
    BY <1>11, LeaveKeeps
  <2>2. UNCHANGED <<templateFiles, saved>> /\ teams' \in [Teams -> {"none", "there", "gone"}]
    BY <1>3, <1>11 DEF delete_team
  <2> QED
    BY <1>1, <1>2, <1>3, <2>1, <2>2
<1> QED
  BY <1>4, <1>5, <1>6, <1>7, <1>8, <1>9, <1>10, <1>11 DEF TemplatesNext

\* Types, and one row to an id, whatever is saved, discovered, edited, enabled,
\* disabled and deleted.
THEOREM TemplatesTypeCorrect == TemplatesSpec => []TemplatesTypeOK
<1>1. TemplatesInit => TemplatesInv
  <2> SUFFICES ASSUME TemplatesInit
               PROVE  TemplatesInv
    OBVIOUS
  <2>1. templates = <<>> /\ saved = 0 /\ saved \in 0..MaxSaved
    BY TemplatesAssumption DEF TemplatesInit
  <2>2. RowsOK(templates, saved)
    BY <2>1 DEF RowsOK
  <2> QED
    BY <2>1, <2>2 DEF TemplatesInv, TemplatesTypeOK, TemplatesInit, RowsOK, TemplateRows
<1>2. TemplatesInv /\ [TemplatesNext]_templateVars => TemplatesInv'
  BY TemplatesStep
<1>3. TemplatesInv => TemplatesTypeOK
  BY DEF TemplatesInv
<1> QED
  BY <1>1, <1>2, <1>3, PTL DEF TemplatesSpec

=============================================================================
