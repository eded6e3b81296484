-------------------------- MODULE MCServicesProofs --------------------------
(***************************************************************************)
(* All services together: since they share no state, what is proved of     *)
(* each of them is true of MCServices.                                     *)
(***************************************************************************)
EXTENDS MCServices, TaskBoardProofs, StoresProofs, ServicesProofs, TLAPS

-----------------------------------------------------------------------------
(*****************************************************************************)
(* The services together.  A step of a part is a step of the module the part *)
(* is about, and leaves the state of the others alone, so that what holds of *)
(* each module holds of whichever one a behaviour looks at.                  *)
(*****************************************************************************)

\* The commands of the smaller parts are commands of the memory.
LEMMA LightIsCommand ==
  ASSUME NEW p, Light(p)
  PROVE  Command(p)
<1>1. LightProject \in Scopes /\ None \in Scopes
  BY ServicesAssumption DEF Scopes
<1>2. CASE \E content \in Contents, title \in Titles, topic \in TopicsOrNone :
              cli_save(p, content, title, topic, LightProject)
  BY <1>1, <1>2 DEF Command, TitlesOrNone
<1>3. CASE \E i \in Ids \ fresh, content \in Contents, topic \in TopicsOrNone :
              cli_update(p, i, content, topic, None)
  BY <1>1, <1>3 DEF Command
<1>4. CASE \E i \in Ids \ fresh : delete_observation(p, i)
  BY <1>4 DEF Command
<1>. QED BY <1>2, <1>3, <1>4 DEF Light

LEMMA MemoryPartIsSync == MemoryPart => SyncNext
<1>. SUFFICES ASSUME MemoryPart PROVE SyncNext
  OBVIOUS
<1>1. ASSUME NEW content, NEW topic, NEW p,
             content \in Contents, topic \in Topics, cli_save(p, content, None, topic, LightProject)
      PROVE  Command(p)
  <2>1. LightProject \in Scopes /\ topic \in TopicsOrNone /\ None \in TitlesOrNone
    BY <1>1, ServicesAssumption DEF Scopes, TopicsOrNone, TitlesOrNone
  <2>. QED BY <1>1, <2>1 DEF Command
<1>. QED BY <1>1, LightIsCommand, ServicesAssumption DEF MemoryPart, SyncNext

LEMMA WorkflowPartIsWorkflow == WorkflowPart => WorkflowNext
BY DEF WorkflowPart, WorkflowNext, Outside

LEMMA AgentPartIsAgents == AgentPart => AgentsNext
BY DEF AgentPart, AgentsNext, AgentProcs

LEMMA MessagingPartIsMessaging == MessagingPart => MessagingNext
BY DEF MessagingPart, MessagingNext

LEMMA SmallPartsAreNext ==
  /\ SchemaPart => SchemaNext
  /\ SessionPart => SessionsNext
  /\ ResiliencePart => ResilienceNext
  /\ LimitPart => LimitsNext
  /\ HuntPart => HuntsNext
  /\ VaultPart => VaultNext
<1>1. SchemaPart => SchemaNext
  BY DEF SchemaPart, SchemaNext
<1>2. SessionPart => SessionsNext
  BY DEF SessionPart, SessionsNext
<1>3. ResiliencePart => ResilienceNext
  BY DEF ResiliencePart, ResilienceNext
<1>4. LimitPart => LimitsNext
  BY DEF LimitPart, LimitsNext
<1>5. HuntPart => HuntsNext
  BY DEF HuntPart
<1>6. VaultPart => VaultNext
  BY DEF VaultPart, VaultNext
<1>. QED BY <1>1, <1>2, <1>3, <1>4, <1>5, <1>6

LargeStep ==
  /\ [TaskNext]_taskVars /\ [SyncNext]_syncVars /\ [WorkflowNext]_workflowVars
  /\ [AgentsNext]_agentVars /\ [MessagingNext]_messagingVars /\ [SchemaNext]_schemaVars
  /\ [TelemetryNext]_telemetryVars

SmallStep ==
  /\ [SessionsNext]_workSessionVars /\ [ContractsNext]_contractVars
  /\ [ScheduleNext]_scheduleVars /\ [ResilienceNext]_resilienceVars
  /\ [LimitsNext]_limitVars /\ [TemplatesNext]_templateVars /\ [DispatchNext]_hookVars
  /\ [HuntsNext]_huntVars /\ [VaultNext]_vaultVars /\ [DiffNext]_diffVars
  /\ [CapsNext]_capsVars

\* Every step of the services is a step or a stutter of each of them.
LEMMA PartsStep == [ServicesNext]_servicesVars => LargeStep /\ SmallStep /\ UNCHANGED part
<1>1. NoLarge => LargeStep
  BY DEF NoLarge, LargeStep, NoTasks, NoMemory, NoWorkflow, NoAgents, NoMessages, NoSchema,
         NoTelemetry
<1>2. NoSmall => SmallStep
  BY DEF NoSmall, SmallStep, NoSessions, NoContracts, NoSchedule, NoResilience, NoLimits,
         NoTemplates, NoHooks, NoHunts, NoVault, NoDiffs, NoCaps
<1>3. UNCHANGED servicesVars => NoLarge /\ NoSmall /\ UNCHANGED part
  BY DEF servicesVars, NoLarge, NoTasks, NoMemory, NoWorkflow, NoAgents, NoMessages, NoSchema,
         NoTelemetry, NoSmall, NoSessions, NoContracts, NoSchedule, NoResilience, NoLimits,
         NoTemplates, NoHooks, NoHunts, NoVault, NoDiffs, NoCaps
<1>4. ServicesNext => (NoLarge \/ LargeStep) /\ (NoSmall \/ SmallStep) /\ UNCHANGED part
  BY MemoryPartIsSync, WorkflowPartIsWorkflow, AgentPartIsAgents, MessagingPartIsMessaging,
     SmallPartsAreNext
     DEF ServicesNext, LargeStep, SmallStep, NoTasks, NoMemory, NoWorkflow, NoAgents, NoMessages,
         NoSchema, NoTelemetry, NoSessions, NoContracts, NoSchedule, NoResilience, NoLimits,
         NoTemplates, NoHooks, NoHunts, NoVault, NoDiffs, NoCaps
<1>. QED BY <1>1, <1>2, <1>3, <1>4

\* A behaviour of the services is a behaviour of each of them, so every theorem
\* about one of the modules is about MCServices, too.
LEMMA ServicesBehave ==
  ServicesSpec =>
    /\ TaskSpec /\ SyncSpec /\ WorkflowSpec /\ AgentsSpec /\ MessagingSpec /\ SchemaSpec
    /\ TelemetrySpec /\ SessionsSpec /\ ContractsSpec /\ ScheduleSpec /\ ResilienceSpec
    /\ LimitsSpec /\ TemplatesSpec /\ DispatchSpec /\ HuntsSpec /\ VaultSpec /\ DiffSpec /\ CapsSpec
<1>1. ServicesSpec => TaskSpec
  <2>1. ServicesInit => TaskInit
    BY DEF ServicesInit
  <2>2. [ServicesNext]_servicesVars => [TaskNext]_taskVars
    BY PartsStep DEF LargeStep, SmallStep
  <2>. QED BY <2>1, <2>2, PTL DEF ServicesSpec, TaskSpec
<1>2. ServicesSpec => SyncSpec
  <2>1. ServicesInit => SyncInit
    BY DEF ServicesInit
  <2>2. [ServicesNext]_servicesVars => [SyncNext]_syncVars
    BY PartsStep DEF LargeStep, SmallStep
  <2>. QED BY <2>1, <2>2, PTL DEF ServicesSpec, SyncSpec
<1>3. ServicesSpec => WorkflowSpec
  <2>1. ServicesInit => WorkflowInit
    BY DEF ServicesInit
  <2>2. [ServicesNext]_servicesVars => [WorkflowNext]_workflowVars
    BY PartsStep DEF LargeStep, SmallStep
  <2>. QED BY <2>1, <2>2, PTL DEF ServicesSpec, WorkflowSpec
<1>4. ServicesSpec => AgentsSpec
  <2>1. ServicesInit => AgentsInit
    BY DEF ServicesInit
  <2>2. [ServicesNext]_servicesVars => [AgentsNext]_agentVars
    BY PartsStep DEF LargeStep, SmallStep
  <2>. QED BY <2>1, <2>2, PTL DEF ServicesSpec, AgentsSpec
<1>5. ServicesSpec => MessagingSpec
  <2>1. ServicesInit => MessagingInit
    BY DEF ServicesInit
  <2>2. [ServicesNext]_servicesVars => [MessagingNext]_messagingVars
    BY PartsStep DEF LargeStep, SmallStep
  <2>. QED BY <2>1, <2>2, PTL DEF ServicesSpec, MessagingSpec
<1>6. ServicesSpec => SchemaSpec
  <2>1. ServicesInit => SchemaInit
    BY DEF ServicesInit
  <2>2. [ServicesNext]_servicesVars => [SchemaNext]_schemaVars
    BY PartsStep DEF LargeStep, SmallStep
  <2>. QED BY <2>1, <2>2, PTL DEF ServicesSpec, SchemaSpec
<1>7. ServicesSpec => TelemetrySpec
  <2>1. ServicesInit => TelemetryInit
    BY DEF ServicesInit
  <2>2. [ServicesNext]_servicesVars => [TelemetryNext]_telemetryVars
    BY PartsStep DEF LargeStep, SmallStep
  <2>. QED BY <2>1, <2>2, PTL DEF ServicesSpec, TelemetrySpec
<1>8. ServicesSpec => SessionsSpec
  <2>1. ServicesInit => SessionsInit
    BY DEF ServicesInit
  <2>2. [ServicesNext]_servicesVars => [SessionsNext]_workSessionVars
    BY PartsStep DEF LargeStep, SmallStep
  <2>. QED BY <2>1, <2>2, PTL DEF ServicesSpec, SessionsSpec
<1>9. ServicesSpec => ContractsSpec
  <2>1. ServicesInit => ContractsInit
    BY DEF ServicesInit
  <2>2. [ServicesNext]_servicesVars => [ContractsNext]_contractVars
    BY PartsStep DEF LargeStep, SmallStep
  <2>. QED BY <2>1, <2>2, PTL DEF ServicesSpec, ContractsSpec
<1>10. ServicesSpec => ScheduleSpec
  <2>1. ServicesInit => ScheduleInit
    BY DEF ServicesInit
  <2>2. [ServicesNext]_servicesVars => [ScheduleNext]_scheduleVars
    BY PartsStep DEF LargeStep, SmallStep
  <2>. QED BY <2>1, <2>2, PTL DEF ServicesSpec, ScheduleSpec
<1>11. ServicesSpec => ResilienceSpec
  <2>1. ServicesInit => ResilienceInit
    BY DEF ServicesInit
  <2>2. [ServicesNext]_servicesVars => [ResilienceNext]_resilienceVars
    BY PartsStep DEF LargeStep, SmallStep
  <2>. QED BY <2>1, <2>2, PTL DEF ServicesSpec, ResilienceSpec
<1>12. ServicesSpec => LimitsSpec
  <2>1. ServicesInit => LimitsInit
    BY DEF ServicesInit
  <2>2. [ServicesNext]_servicesVars => [LimitsNext]_limitVars
    BY PartsStep DEF LargeStep, SmallStep
  <2>. QED BY <2>1, <2>2, PTL DEF ServicesSpec, LimitsSpec
<1>13. ServicesSpec => TemplatesSpec
  <2>1. ServicesInit => TemplatesInit
    BY DEF ServicesInit
  <2>2. [ServicesNext]_servicesVars => [TemplatesNext]_templateVars
    BY PartsStep DEF LargeStep, SmallStep
  <2>. QED BY <2>1, <2>2, PTL DEF ServicesSpec, TemplatesSpec
<1>14. ServicesSpec => DispatchSpec
  <2>1. ServicesInit => DispatchInit
    BY DEF ServicesInit
  <2>2. [ServicesNext]_servicesVars => [DispatchNext]_hookVars
    BY PartsStep DEF LargeStep, SmallStep
  <2>. QED BY <2>1, <2>2, PTL DEF ServicesSpec, DispatchSpec
<1>15. ServicesSpec => HuntsSpec
  <2>1. ServicesInit => HuntsInit
    BY DEF ServicesInit
  <2>2. [ServicesNext]_servicesVars => [HuntsNext]_huntVars
    BY PartsStep DEF LargeStep, SmallStep
  <2>. QED BY <2>1, <2>2, PTL DEF ServicesSpec, HuntsSpec
<1>16. ServicesSpec => VaultSpec
  <2>1. ServicesInit => VaultInit
    BY DEF ServicesInit
  <2>2. [ServicesNext]_servicesVars => [VaultNext]_vaultVars
    BY PartsStep DEF LargeStep, SmallStep
  <2>. QED BY <2>1, <2>2, PTL DEF ServicesSpec, VaultSpec
<1>17. ServicesSpec => DiffSpec
  <2>1. ServicesInit => DiffInit
    BY DEF ServicesInit
  <2>2. [ServicesNext]_servicesVars => [DiffNext]_diffVars
    BY PartsStep DEF LargeStep, SmallStep
  <2>. QED BY <2>1, <2>2, PTL DEF ServicesSpec, DiffSpec
<1>18. ServicesSpec => CapsSpec
  <2>1. ServicesInit => CapsInit
    BY DEF ServicesInit
  <2>2. [ServicesNext]_servicesVars => [CapsNext]_capsVars
    BY PartsStep DEF LargeStep, SmallStep
  <2>. QED BY <2>1, <2>2, PTL DEF ServicesSpec, CapsSpec
<1>. QED
  BY <1>1, <1>2, <1>3, <1>4, <1>5, <1>6, <1>7, <1>8, <1>9, <1>10, <1>11, <1>12, <1>13, <1>14, <1>15, <1>16, <1>17, <1>18

\* Whatever part of the services a behaviour looks at, the state of its module
\* stays within its types, for all values of the constants.
THEOREM ServicesTypeCorrect == ServicesSpec => []ServicesTypeOK
<1>1. /\ TaskTypeOK /\ SyncTypeOK /\ WorkflowTypeOK /\ AgentsTypeOK /\ MessagingTypeOK
      /\ SchemaTypeOK /\ TelemetryTypeOK /\ SessionsTypeOK /\ ContractsTypeOK /\ ScheduleTypeOK
      /\ ResilienceTypeOK /\ LimitsTypeOK /\ TemplatesTypeOK /\ DispatchTypeOK /\ HuntsTypeOK
      /\ VaultTypeOK /\ DiffTypeOK /\ CapsTypeOK
      => ServicesTypeOK
  BY DEF ServicesTypeOK
<1>2. AgentsSpec => []AgentsTypeOK
  <2>1. AgentsInv => AgentsTypeOK
    BY DEF AgentsInv
  <2>. QED BY <2>1, AgentsInvariant, PTL
<1>. QED
  BY <1>1, <1>2, ServicesBehave, TaskTypeCorrect, SyncTypeCorrect, WorkflowTypeCorrect,
     MessagingTypeCorrect, SchemaTypeCorrect, TelemetryTypeCorrect, SessionsTypeCorrect,
     ContractsTypeCorrect, ScheduleTypeCorrect, ResilienceTypeCorrect, LimitsTypeCorrect,
     TemplatesTypeCorrect, DispatchTypeCorrect, HuntsTypeCorrect, VaultTypeCorrect,
     DiffTypeCorrect, CapsTypeCorrect, PTL

LEMMA TurnsKept ==
  (part = "turns" => TurnsInv) /\ [ServicesNext]_servicesVars => (part = "turns" => TurnsInv)'
<1>. SUFFICES ASSUME part = "turns" => TurnsInv, [ServicesNext]_servicesVars, part' = "turns"
              PROVE  TurnsInv'
  OBVIOUS
<1>1. part = "turns" /\ TurnsInv
  BY PartsStep
<1>2. CASE NoSessions
  <2>1. SessionsTypeOK'
    BY <1>1, <1>2 DEF NoSessions, workSessionVars, TurnsInv, SessionsTypeOK
  <2>. QED BY <1>1, <1>2, <2>1, QuietKeepsTurns DEF NoSessions, workSessionVars
<1>3. CASE SessionPart
  <2>1. CASE ClockTicks
    <3>1. SessionsTypeOK'
      BY <1>1, <2>1, SessionsKept DEF SessionsNext, TurnsInv
    <3>2. workSessions' = workSessions /\ starting' = starting
      BY <2>1 DEF ClockTicks
    <3>. QED BY <1>1, <3>1, <3>2, QuietKeepsTurns
  <2>2. ASSUME ~ClockTicks
        PROVE  TurnsInv'
    <3>1. PICK p \in Users : SessionCommand(p) /\ \A q \in Users \ {p} : starting[q].at = "idle"
      BY <1>1, <1>3, <2>2 DEF SessionPart
    <3>2. \A q \in Users \ {p} : starting'[q] = starting[q]
      BY <1>1, <3>1, OnlyOwnCommand DEF TurnsInv
    <3>. QED BY <1>1, <3>1, <3>2, TurnKeeps
  <2>. QED BY <2>1, <2>2
<1>. QED BY <1>2, <1>3 DEF ServicesNext, servicesVars, NoSmall, NoSessions

\* Work sessions by one process at a time: a project has one active session at
\* most, whatever a process dies in the middle of.
THEOREM TurnsKeepOne == ServicesSpec => []TurnsKeepOneSession
<1>1. ServicesInit => (part = "turns" => TurnsInv)
  BY TurnsStart DEF ServicesInit
<1>2. (part = "turns" => TurnsInv) => TurnsKeepOneSession
  BY DEF TurnsInv, TurnsKeepOneSession
<1>. QED BY <1>1, <1>2, TurnsKept, PTL DEF ServicesSpec

=============================================================================
