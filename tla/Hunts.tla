------------------------------- MODULE Hunts -------------------------------
(***************************************************************************)
(* memory workflow bug-hunt: agents of up to three roles are launched with *)
(* tmux-live, waited for one after the other, and their findings files are *)
(* counted into a verdict.  The files, the session names and the topic of  *)
(* the report carry the id of the hunt.                                    *)
(*                                                                         *)
(* tmux-live is not part of the repository: launch either starts a session *)
(* or fails, wait returns when the agent has ended, after 600 seconds, or  *)
(* with an error nobody looks at, and kill-all ends every session.  A      *)
(* finding is a "## Bug #" header, or a structured one with a severity.    *)
(***************************************************************************)
EXTENDS Nothing, Naturals, FiniteSets

CONSTANTS
  Hunters,   \* bug-hunt commands, each with its hunt id
  Roles,     \* ripper, walker, sniper
  Ripper     \* the role of a quick hunt

ASSUME HuntsAssumption == Ripper \in Roles

VARIABLES
  hunt,      \* each command
  quarry,    \* the agent of each role of each hunt
  findings,  \* the findings files
  reports    \* hunts whose report is in the memory

huntVars == <<hunt, quarry, findings, reports>>

-----------------------------------------------------------------------------

\* A findings file: whether it has a bug header, and a structured one that is
\* CRITICAL; HIGH only words the verdict.
Finding == [bugs : {0, 1}, critical : BOOLEAN]
NoFindings == [bugs |-> 0, critical |-> FALSE]

ASSUME FindingAssumption == None \notin Finding

Verdicts == {"none", "aborted", "no_bugs", "fail", "pass"}

\* selected: its roles; pending: those it still launches or waits for.
HuntState ==
  [at       : {"idle", "init", "spawn", "wait", "save", "cleanup", "ended"},
   selected : SUBSET Roles,
   spawned  : SUBSET Roles,
   pending  : SUBSET Roles,
   verdict  : Verdicts,
   printed  : BOOLEAN]
NoHunt ==
  [at |-> "idle", selected |-> {}, spawned |-> {}, pending |-> {}, verdict |-> "none",
   printed |-> FALSE]

\* The type invariant.
HuntsTypeOK ==
  /\ hunt \in [Hunters -> HuntState]
  /\ quarry \in [Hunters \X Roles -> {"none", "running", "complete", "killed"}]
  /\ findings \in [Hunters \X Roles -> Finding \cup {None}]
  /\ reports \subseteq Hunters

HuntsInit ==
  /\ hunt = [h \in Hunters |-> NoHunt]
  /\ quarry = [x \in Hunters \X Roles |-> "none"]
  /\ findings = [x \in Hunters \X Roles |-> None]
  /\ reports = {}

-----------------------------------------------------------------------------

Hunting(h, state) == hunt' = [hunt EXCEPT ![h] = state]

\* The roles named, or all; --intensity quick has one.
bug_hunt(h) ==
  /\ hunt[h].at = "idle"
  /\ \E roles \in (SUBSET Roles) \ {{}} :
       Hunting(h, [NoHunt EXCEPT !.at = "init", !.selected = roles, !.pending = roles])
  /\ UNCHANGED <<quarry, findings, reports>>

quick_hunt(h) ==
  /\ hunt[h].at = "idle"
  /\ Hunting(h, [NoHunt EXCEPT !.at = "init", !.selected = {Ripper}, !.pending = {Ripper}])
  /\ UNCHANGED <<quarry, findings, reports>>

Abort(h) == Hunting(h, [hunt[h] EXCEPT !.at = "ended", !.verdict = "aborted"])

\* tmux-live init.
InitHunt(h) ==
  /\ hunt[h].at = "init"
  /\ Hunting(h, [hunt[h] EXCEPT !.at = "spawn"]) \/ Abort(h)
  /\ UNCHANGED <<quarry, findings, reports>>

\* tmux-live launch; a role that cannot be launched is left out.
SpawnHunter(h, r) ==
  /\ hunt[h].at = "spawn" /\ r \in hunt[h].pending
  /\ \/ /\ quarry' = [quarry EXCEPT ![<<h, r>>] = "running"]
        /\ Hunting(h, [hunt[h] EXCEPT !.pending = @ \ {r}, !.spawned = @ \cup {r}])
     \/ /\ Hunting(h, [hunt[h] EXCEPT !.pending = @ \ {r}])
        /\ UNCHANGED quarry
  /\ UNCHANGED <<findings, reports>>

AllSpawned(h) ==
  /\ hunt[h].at = "spawn" /\ hunt[h].pending = {}
  /\ IF hunt[h].spawned = {}
     THEN Abort(h)
     ELSE Hunting(h, [hunt[h] EXCEPT !.at = "wait", !.pending = hunt[h].spawned])
  /\ UNCHANGED <<quarry, findings, reports>>

\* tmux-live wait: its result is not looked at.
Wait(h, r) ==
  /\ hunt[h].at = "wait" /\ r \in hunt[h].pending
  /\ Hunting(h, [hunt[h] EXCEPT !.pending = @ \ {r}])
  /\ UNCHANGED <<quarry, findings, reports>>

\* Without a "## Bug #" header nothing was found, whatever else was written.
Verdict(counted) ==
  IF \A f \in counted : f.bugs = 0 THEN "no_bugs"
  ELSE IF \E f \in counted : f.critical THEN "fail" ELSE "pass"

\* The files of every role selected are copied and counted.
Consolidate(h) ==
  /\ hunt[h].at = "wait" /\ hunt[h].pending = {}
  /\ Hunting(h, [hunt[h] EXCEPT
       !.at = "save",
       !.verdict = Verdict({findings[h, r] : r \in hunt[h].selected} \ {None})])
  /\ UNCHANGED <<quarry, findings, reports>>

\* MemoryService.save under the topic of the hunt; a failure is a warning.
SaveReport(h) ==
  /\ hunt[h].at = "save"
  /\ reports' \in {reports, reports \cup {h}}
  /\ Hunting(h, [hunt[h] EXCEPT !.at = "cleanup"])
  /\ UNCHANGED <<quarry, findings>>

\* tmux-live kill-all, then the verdict.
KillAll(h) ==
  /\ hunt[h].at = "cleanup"
  /\ quarry' = [x \in Hunters \X Roles |-> IF quarry[x] = "running" THEN "killed" ELSE quarry[x]]
  /\ Hunting(h, [hunt[h] EXCEPT !.at = "ended", !.printed = TRUE])
  /\ UNCHANGED <<findings, reports>>

\* The process ends early; its agents stay.
HunterDies(h) ==
  /\ hunt[h].at \notin {"idle", "ended"}
  /\ Hunting(h, [NoHunt EXCEPT !.at = "ended", !.verdict = "aborted"])
  /\ UNCHANGED <<quarry, findings, reports>>

\* An agent writes its file as it goes on, and marks it complete at the end.
AgentWrites(h, r) ==
  /\ quarry[h, r] = "running"
  /\ \E f \in Finding :
       /\ IF findings[h, r] = None THEN f = NoFindings ELSE f.bugs >= findings[h, r].bugs
       /\ findings' = [findings EXCEPT ![<<h, r>>] = f]
  /\ quarry' = quarry \/ quarry' = [quarry EXCEPT ![<<h, r>>] = "complete"]
  /\ UNCHANGED <<hunt, reports>>

HuntsNext ==
  \E h \in Hunters :
    \/ bug_hunt(h) \/ quick_hunt(h) \/ InitHunt(h) \/ AllSpawned(h)
    \/ \E r \in Roles : SpawnHunter(h, r) \/ Wait(h, r) \/ AgentWrites(h, r)
    \/ Consolidate(h) \/ SaveReport(h) \/ KillAll(h) \/ HunterDies(h)

HuntsSpec == HuntsInit /\ [][HuntsNext]_huntVars

-----------------------------------------------------------------------------
(* Properties *)

\* What a hunt reads before it counts is not lost to a role that failed, an
\* agent that was too slow or the kill-all of another hunt: a verdict of "no
\* bugs" means that no agent whose file was complete when the counting began
\* had written a bug header.
CompleteFindingsCount ==
  [][\A h \in Hunters :
       /\ hunt[h].at = "wait" /\ hunt'[h].at = "save"
       => \A r \in Roles :
            quarry[h, r] = "complete" /\ findings[h, r].bugs > 0
              => hunt'[h].verdict # "no_bugs"]_huntVars

\* "PASS - no bugs found": every agent of the hunt came to its end.
NoBugsMeansAllLooked ==
  \A h \in Hunters :
    hunt[h].printed /\ hunt[h].verdict = "no_bugs" => \A r \in hunt[h].selected : quarry[h, r] = "complete"

=============================================================================
