----------------------------- MODULE MCServices -----------------------------
(***************************************************************************)
(* TaskBoard, Sync with Memory, Workflow, Agents, Messaging, Schema,       *)
(* Telemetry and the smaller services for TLC.  They share no state, so a  *)
(* behaviour looks at one part of one of them:                             *)
(*   "tasks"      the task board;                                           *)
(*   "store"      every front end of the memory, nothing is synced;         *)
(*   "push"       saves with a title, updates and deletions of one project, *)
(*                pushed by one process at a time, and pulled;              *)
(*   "race"       saves under topics, pushed by two processes at once;      *)
(*   "file"       as push, with sync export and sync import;                *)
(*   "exec"       workflow execute by two shells;                           *)
(*   "ship"       outline to ship to the main branch, by one shell at a     *)
(*                time, without --use-worktree;                             *)
(*   "trees"      workflow ship and the workspace commands by two shells,   *)
(*                and one worktree besides the main one;                    *)
(*   "agents"     the agent managers; no sweep goes on beside the last      *)
(*                attempt;                                                  *)
(*   "api"        the sessions of the API server, and its collector,        *)
(*                without the last attempt;                                 *)
(*   "inbox"      the message store, with two processes, and a clock that   *)
(*                goes on once;                                             *)
(*   "panes"      the same with the files and panes of the short protocol   *)
(*                and the hybrid front end, two messages, and no clock;     *)
(*   "starts"     migrations, with processes that die and rows that break   *)
(*                a unique index; "upgrade" without;                        *)
(*   "events"     telemetry;                                                *)
(*   "work"       work sessions, by processes that overlap; "turns" by one  *)
(*                at a time, and no merge;                                  *)
(*   "promises"   promise contracts, with two API servers;                  *)
(*   "schedule"   scheduled tasks;                                          *)
(*   "breaker"    with "letters" and "retries" the three parts of           *)
(*                Resilience;                                               *)
(*   "limits"     the API's rate limiter; "captures" the memory hook's;     *)
(*   "templates"  agent templates and teams;                                *)
(*   "hooks"      the dispatch of events to hooks;                          *)
(*   "hunts"      one bug hunt, or two of one role;                         *)
(*   "vault"      an export and an import of what was saved before, with    *)
(*                blanks; one that dies, or passes the file over, and       *)
(*                another, of the last note of its machine;                 *)
(*   "diffs"      memory diff, of any small table;                          *)
(*   "caps"       the answers of the MCP tools.                             *)
(***************************************************************************)
EXTENDS TaskBoard, Sync, Workflow, Agents, Messaging, Schema, Telemetry, Sessions,
        Contracts, Schedule, Resilience, Limits, Templates, Dispatch,
        Hunts, Vault, Diff, Caps, TLC

CONSTANTS Parts, LightProject, Pusher

ASSUME ServicesAssumption == LightProject \in Projects /\ Pusher \in Pushers

VARIABLE part

MemoryParts == {"store", "push", "race", "file"}
WorkflowParts == {"exec", "ship", "trees"}
AgentParts == {"agents", "api"}
MessagingParts == {"inbox", "panes"}
SchemaParts == {"starts", "upgrade"}
SessionParts == {"work", "turns"}
ResilienceParts == {"breaker", "letters", "retries"}
LimitParts == {"limits", "captures"}

servicesVars ==
  <<part, taskVars, syncVars, workflowVars, agentVars, messagingVars, schemaVars,
    telemetryVars, workSessionVars, contractVars, scheduleVars, resilienceVars, limitVars,
    templateVars, hookVars, huntVars, vaultVars, diffVars, capsVars>>

\* The shape of migrations 001, 008 and 012; that of 001 and 012.
ThreeScripts == << <<"again", "again">>, <<"once", "unique">>, <<"once", "again">> >>
TwoScripts == << <<"again", "again">>, <<"once", "again">> >>

\* Hooks: one for the event before the work of a command, with each policy, and
\* one for every event.
StartHook(policy, critical, blocked) ==
  [on |-> {"start"}, policy |-> policy, critical |-> critical, blocked |-> blocked]
AnyHook == [StartHook("abort", TRUE, FALSE) EXCEPT !.on = {"start", "complete"}]
TwoHooks ==
  { <<StartHook(policy, critical, blocked), AnyHook>> :
      policy \in {"abort", "continue", "retry"}, critical, blocked \in BOOLEAN }

\* A blank content, and one with blanks around another.
StripTexts ==
  [text \in Texts |-> IF text = "blank" THEN None ELSE IF text = " x" THEN "x" ELSE text]

\* Topics with one path.
OneStem == [t \in NoteTopics |-> CHOOSE u \in NoteTopics : TRUE]

UsualConfig == [enabled |-> FALSE, policy |-> "important_only", limited |-> TRUE]

ServicesInit ==
  /\ part \in Parts
  /\ TaskInit /\ SyncInit /\ WorkflowInit /\ AgentsInit /\ MessagingInit
  /\ SchemaInit /\ TelemetryInit
  /\ SessionsInit /\ ContractsInit /\ ScheduleInit /\ ResilienceInit
  /\ LimitsInit /\ (part # "captures" => config = UsualConfig)
  /\ TemplatesInit
  /\ DispatchInit /\ (part # "hooks" => hooks = None)
  /\ HuntsInit /\ VaultInit
  /\ DiffInit /\ (part # "diffs" => table = [i \in RowIds |-> None])
  /\ CapsInit /\ (part # "caps" => asked = 0 /\ listed = <<>>)

-----------------------------------------------------------------------------

Light(p) ==
  \/ \E content \in Contents, title \in Titles, topic \in TopicsOrNone :
       cli_save(p, content, title, topic, LightProject)
  \/ \E i \in Ids \ fresh :
       \/ \E content \in Contents, topic \in TopicsOrNone :
            cli_update(p, i, content, topic, None)
       \/ delete_observation(p, i)

MemoryPart ==
  \/ \E p \in Writers :
       /\ \/ part = "store" /\ Command(p)
          \/ part \in {"push", "file"} /\ Light(p)
          \/ /\ part = "race"
             /\ \E content \in Contents, topic \in Topics :
                  cli_save(p, content, None, topic, LightProject)
          \/ Step(p)
       /\ UNCHANGED <<pushVars, pullVars, fileVars>>
  \/ part = "push" /\ (Push(Pusher) \/ Pull)
  \/ part = "race" /\ \E p \in Pushers : Push(p)
  \/ part = "file" /\ File

OneTree == \A n \in Workspaces \ {BaseName} : tree'[n] = "absent"

OtherShellsIdle(p) == \A q \in Shells \ {p} : shell[q].at = "idle"

WorkflowPart ==
  \/ \E p \in Shells :
       \/ part = "exec" /\ Executing(p)
       \/ /\ part = "ship" /\ OtherShellsIdle(p)
          /\ (Executing(p) \/ Shipping(p)) 
          /\ ~shell'[p].aside /\ shell'[p].target \in {None, Main}
       \/ part = "trees" /\ (Shipping(p) \/ Housekeeping(p)) /\ OneTree
       \/ ShellDies(p)
  \/ part = "exec" /\ \E l \in Launches : LeaseExpires(l) \/ AgentEnds(l)
  \/ part # "exec" /\ \/ AbortMerge
                      \/ \E n \in Workspaces :
                           EditTree(n) \/ \E work \in Work : CommitTree(n, work)

AgentPart ==
  \/ /\ part = "agents" /\ \E m \in Managers : Managing(m) \/ Shared(m)
     /\ claim'[MaxAttempts].status = "ABSENT" \/ \A m \in Managers : orphans'[m] = {}
  \/ part = "api" /\ (Serving \/ Shared(Server)) /\ claim'[MaxAttempts].status = "ABSENT"
  \/ \E a \in Attempts \ {MaxAttempts} : ClaimExpires(a) \/ SessionEnds(a)

MessagingPart ==
  \/ part = "inbox" /\ ((\E q \in Peers : Storing(q)) \/ (TimePasses /\ aged' = 1))
  \/ part = "panes" /\ \/ \E q \in Peers :
                            (Storing(q) \/ Dispatching(q) \/ Noticing(q)) /\ sent' <= 2
                       \/ \E i \in Inboxes : WindowChanges(i)

SchemaPart ==
  \/ part = "starts" /\ SchemaNext
  \/ part = "upgrade" /\ \E p \in Starters : Migrating(p)

SessionPart ==
  \/ part = "work" /\ SessionsNext
  \/ \E p \in Users :
       part = "turns" /\ SessionCommand(p) /\ \A q \in Users \ {p} : starting[q].at = "idle"
  \/ ClockTicks

ResiliencePart ==
  \/ part = "breaker" /\ \/ \E t \in Threads : Breaking(t)
                         \/ reset_circuit \/ RecoveryElapses
  \/ part = "letters" /\ DeadLetters
  \/ part = "retries" /\ \E t \in Threads : retry_sync(t) \/ Attempt(t)

HuntPart ==
  /\ HuntsNext
  /\ \/ \E h \in Hunters : \A g \in Hunters \ {h} : hunt'[g].at = "idle"
     \/ \A h \in Hunters : hunt'[h].selected = {Ripper} \/ hunt'[h].at = "idle"

VaultPart ==
  /\ import.at # "done"
  /\ \/ /\ vault = <<>> /\ SaveHere
        /\ \A i \in Kept("here")' :
             LET obs == notes'["here"][i]
             IN obs.content = " x" \/ (obs.content = "blank" /\ obs.title = None)
     \/ vault = <<>> /\ export_obsidian
     \/ vault # <<>> /\ DeleteHere
     \/ Importing
     \/ Cardinality(Kept("here")) = 1 /\ Kept("there") = {} /\ ImportFails

LimitPart ==
  \/ part = "limits" /\ Requesting
  \/ part = "captures" /\ Capturing
  \/ TimePassed

-----------------------------------------------------------------------------

NoTasks == UNCHANGED taskVars
NoMemory == UNCHANGED syncVars
NoWorkflow == UNCHANGED workflowVars
NoAgents == UNCHANGED agentVars
NoMessages == UNCHANGED messagingVars
NoSchema == UNCHANGED schemaVars
NoTelemetry == UNCHANGED telemetryVars
NoSessions == UNCHANGED workSessionVars
NoContracts == UNCHANGED contractVars
NoSchedule == UNCHANGED scheduleVars
NoResilience == UNCHANGED resilienceVars
NoLimits == UNCHANGED limitVars
NoTemplates == UNCHANGED templateVars
NoHooks == UNCHANGED hookVars
NoHunts == UNCHANGED huntVars
NoVault == UNCHANGED vaultVars
NoDiffs == UNCHANGED diffVars
NoCaps == UNCHANGED capsVars

NoLarge ==
  NoTasks /\ NoMemory /\ NoWorkflow /\ NoAgents /\ NoMessages /\ NoSchema /\ NoTelemetry

NoSmall ==
  NoSessions /\ NoContracts /\ NoSchedule /\ NoResilience /\ NoLimits /\ NoTemplates /\ NoHooks
  /\ NoHunts /\ NoVault /\ NoDiffs /\ NoCaps

ServicesNext ==
  \/ /\ part = "tasks" /\ TaskNext
     /\ NoMemory /\ NoWorkflow /\ NoAgents /\ NoMessages /\ NoSchema /\ NoTelemetry
     /\ NoSmall
     /\ UNCHANGED part
  \/ /\ part \in MemoryParts /\ MemoryPart
     /\ NoTasks /\ NoWorkflow /\ NoAgents /\ NoMessages /\ NoSchema /\ NoTelemetry
     /\ NoSmall
     /\ UNCHANGED part
  \/ /\ part \in WorkflowParts /\ WorkflowPart
     /\ NoTasks /\ NoMemory /\ NoAgents /\ NoMessages /\ NoSchema /\ NoTelemetry
     /\ NoSmall
     /\ UNCHANGED part
  \/ /\ part \in AgentParts /\ AgentPart
     /\ NoTasks /\ NoMemory /\ NoWorkflow /\ NoMessages /\ NoSchema /\ NoTelemetry
     /\ NoSmall
     /\ UNCHANGED part
  \/ /\ part \in MessagingParts /\ MessagingPart
     /\ NoTasks /\ NoMemory /\ NoWorkflow /\ NoAgents /\ NoSchema /\ NoTelemetry
     /\ NoSmall
     /\ UNCHANGED part
  \/ /\ part \in SchemaParts /\ SchemaPart
     /\ NoTasks /\ NoMemory /\ NoWorkflow /\ NoAgents /\ NoMessages /\ NoTelemetry
     /\ NoSmall
     /\ UNCHANGED part
  \/ /\ part = "events" /\ TelemetryNext
     /\ NoTasks /\ NoMemory /\ NoWorkflow /\ NoAgents /\ NoMessages /\ NoSchema
     /\ NoSmall
     /\ UNCHANGED part
  \/ /\ part \in SessionParts /\ SessionPart
     /\ NoLarge
     /\ NoContracts /\ NoSchedule /\ NoResilience /\ NoLimits /\ NoTemplates /\ NoHooks
     /\ NoHunts /\ NoVault /\ NoDiffs /\ NoCaps
     /\ UNCHANGED part
  \/ /\ part = "promises" /\ ContractsNext
     /\ NoLarge
     /\ NoSessions /\ NoSchedule /\ NoResilience /\ NoLimits /\ NoTemplates /\ NoHooks
     /\ NoHunts /\ NoVault /\ NoDiffs /\ NoCaps
     /\ UNCHANGED part
  \/ /\ part = "schedule" /\ ScheduleNext
     /\ NoLarge
     /\ NoSessions /\ NoContracts /\ NoResilience /\ NoLimits /\ NoTemplates /\ NoHooks
     /\ NoHunts /\ NoVault /\ NoDiffs /\ NoCaps
     /\ UNCHANGED part
  \/ /\ part \in ResilienceParts /\ ResiliencePart
     /\ NoLarge
     /\ NoSessions /\ NoContracts /\ NoSchedule /\ NoLimits /\ NoTemplates /\ NoHooks
     /\ NoHunts /\ NoVault /\ NoDiffs /\ NoCaps
     /\ UNCHANGED part
  \/ /\ part \in LimitParts /\ LimitPart
     /\ NoLarge
     /\ NoSessions /\ NoContracts /\ NoSchedule /\ NoResilience /\ NoTemplates /\ NoHooks
     /\ NoHunts /\ NoVault /\ NoDiffs /\ NoCaps
     /\ UNCHANGED part
  \/ /\ part = "templates" /\ TemplatesNext
     /\ NoLarge
     /\ NoSessions /\ NoContracts /\ NoSchedule /\ NoResilience /\ NoLimits /\ NoHooks
     /\ NoHunts /\ NoVault /\ NoDiffs /\ NoCaps
     /\ UNCHANGED part
  \/ /\ part = "hooks" /\ DispatchNext
     /\ NoLarge
     /\ NoSessions /\ NoContracts /\ NoSchedule /\ NoResilience /\ NoLimits /\ NoTemplates
     /\ NoHunts /\ NoVault /\ NoDiffs /\ NoCaps
     /\ UNCHANGED part
  \/ /\ part = "hunts" /\ HuntPart
     /\ NoLarge
     /\ NoSessions /\ NoContracts /\ NoSchedule /\ NoResilience /\ NoLimits /\ NoTemplates
     /\ NoHooks /\ NoVault /\ NoDiffs /\ NoCaps
     /\ UNCHANGED part
  \/ /\ part = "vault" /\ VaultPart
     /\ NoLarge
     /\ NoSessions /\ NoContracts /\ NoSchedule /\ NoResilience /\ NoLimits /\ NoTemplates
     /\ NoHooks /\ NoHunts /\ NoDiffs /\ NoCaps
     /\ UNCHANGED part
  \/ /\ part = "diffs" /\ DiffNext
     /\ NoLarge
     /\ NoSessions /\ NoContracts /\ NoSchedule /\ NoResilience /\ NoLimits /\ NoTemplates
     /\ NoHooks /\ NoHunts /\ NoVault /\ NoCaps
     /\ UNCHANGED part
  \/ /\ part = "caps" /\ CapsNext
     /\ NoLarge
     /\ NoSessions /\ NoContracts /\ NoSchedule /\ NoResilience /\ NoLimits /\ NoTemplates
     /\ NoHooks /\ NoHunts /\ NoVault /\ NoDiffs
     /\ UNCHANGED part

ServicesSpec == ServicesInit /\ [][ServicesNext]_servicesVars

\* Two values are the processes of every module and the ids and contents of
\* Memory, too; each module is symmetric in them.
ServicesSymmetry == Permutations(Procs)

\* The type invariant of the module the behaviour is about.
ServicesTypeOK ==
  /\ part = "tasks" => TaskTypeOK
  /\ part \in MemoryParts => SyncTypeOK
  /\ part \in WorkflowParts => WorkflowTypeOK
  /\ part \in AgentParts => AgentsTypeOK
  /\ part \in MessagingParts => MessagingTypeOK
  /\ part \in SchemaParts => SchemaTypeOK
  /\ part = "events" => TelemetryTypeOK
  /\ part \in SessionParts => SessionsTypeOK
  /\ part = "promises" => ContractsTypeOK
  /\ part = "schedule" => ScheduleTypeOK
  /\ part \in ResilienceParts => ResilienceTypeOK
  /\ part \in LimitParts => LimitsTypeOK
  /\ part = "templates" => TemplatesTypeOK
  /\ part = "hooks" => DispatchTypeOK
  /\ part = "hunts" => HuntsTypeOK
  /\ part = "vault" => VaultTypeOK
  /\ part = "diffs" => DiffTypeOK
  /\ part = "caps" => CapsTypeOK

\* What work sessions keep when no two processes overlap.
TurnsKeepOneSession == part = "turns" => OneActiveSession

=============================================================================
