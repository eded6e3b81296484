------------------------------ MODULE Sessions ------------------------------
(***************************************************************************)
(* Work sessions: SessionService over SessionRepositoryImpl, as memory     *)
(* session start and end, the MCP tools and the hybrid dispatcher use it.  *)
(*                                                                         *)
(* start_session is three transactions: find the active session of the     *)
(* project, end it, create the new one.  Nothing in the table keeps a      *)
(* project from having two active sessions.  A session is active while     *)
(* ended_at is NULL, and the active one is the last that was started; two  *)
(* may have been started in the same millisecond.                          *)
(*                                                                         *)
(* A hybrid start that the server does not do, or does not answer, raises  *)
(* a TypeError in dispatch_session_start: it is the server's start alone.  *)
(***************************************************************************)
EXTENDS Nothing, Naturals

CONSTANTS
  Users,            \* processes that start and end sessions, the server among them
  SessionProjects,  \* projects
  MaxSessions,      \* bound: sessions created
  MaxClock          \* bound: the clock

ASSUME SessionsAssumption ==
  /\ None \notin SessionProjects
  /\ MaxSessions \in Nat /\ MaxClock \in Nat

VARIABLES
  workSessions,  \* the table sessions
  starting,      \* what each process is in the middle of
  clock          \* the time

workSessionVars == <<workSessions, starting, clock>>

-----------------------------------------------------------------------------

Numbers == 1..MaxSessions

\* project: None for a row that does not exist; summary: who wrote it last.
WorkSession ==
  [project : SessionProjects \cup {None},
   started : 0..MaxClock,
   ended   : BOOLEAN,
   summary : {"none", "user", "auto"}]

NoWorkSession == [project |-> None, started |-> 0, ended |-> FALSE, summary |-> "none"]

\* id: the session found active; since: when start_session last looked at the
\* table; again: the dispatcher ends the session itself if no answer comes.
SessionCall ==
  [at      : {"idle", "auto_end", "create", "end"},
   project : SessionProjects \cup {None},
   id      : Numbers \cup {None},
   since   : 0..MaxClock,
   again   : BOOLEAN]

NotCalling == [at |-> "idle", project |-> None, id |-> None, since |-> 0, again |-> FALSE]

\* The type invariant.
SessionsTypeOK ==
  /\ workSessions \in [Numbers -> WorkSession]
  /\ starting \in [Users -> SessionCall]
  /\ clock \in 0..MaxClock

SessionsInit ==
  /\ workSessions = [n \in Numbers |-> NoWorkSession]
  /\ starting = [p \in Users |-> NotCalling]
  /\ clock = 0

-----------------------------------------------------------------------------
(* SessionRepositoryImpl *)

Active(project) ==
  {n \in Numbers : workSessions[n].project = project /\ ~workSessions[n].ended}

\* ORDER BY started_at DESC LIMIT 1
LastStarted(project) ==
  {n \in Active(project) :
     \A m \in Active(project) : workSessions[m].started <= workSessions[n].started}

\* UPDATE ... WHERE id = ?, whether the session had ended or not.
EndedWith(id, summary) ==
  [workSessions EXCEPT ![id] = [@ EXCEPT !.ended = TRUE, !.summary = summary]]

-----------------------------------------------------------------------------
(* SessionService *)

\* start_session: is there an active session?
start_session(p, project) ==
  /\ starting[p].at = "idle"
  /\ IF Active(project) = {}
     THEN starting' = [starting EXCEPT ![p] =
            [NotCalling EXCEPT !.at = "create", !.project = project, !.since = clock]]
     ELSE \E n \in LastStarted(project) :
            starting' = [starting EXCEPT ![p] =
              [NotCalling EXCEPT !.at = "auto_end", !.project = project, !.id = n]]
  /\ UNCHANGED <<workSessions, clock>>

\* ... it is ended ...
AutoEnd(p) ==
  /\ starting[p].at = "auto_end"
  /\ workSessions' = EndedWith(starting[p].id, "auto")
  /\ starting' = [starting EXCEPT ![p] = [@ EXCEPT !.at = "create", !.since = clock]]
  /\ UNCHANGED clock

\* ... and the new one created, with the time read in between.
CreateWorkSession(p) ==
  /\ starting[p].at = "create"
  /\ \E n \in Numbers, started \in starting[p].since..clock :
       /\ workSessions[n] = NoWorkSession
       /\ \A m \in Numbers : workSessions[m] = NoWorkSession => n <= m
       /\ workSessions' = [workSessions EXCEPT ![n] =
            [NoWorkSession EXCEPT !.project = starting[p].project, !.started = started]]
  /\ starting' = [starting EXCEPT ![p] = NotCalling]
  /\ UNCHANGED clock

\* memory session end: get_active, then end_session, itself or through the
\* hybrid dispatcher.
session_end(p, project, hybrid) ==
  /\ starting[p].at = "idle"
  /\ \E n \in LastStarted(project) :
       starting' = [starting EXCEPT ![p] =
         [NotCalling EXCEPT !.at = "end", !.id = n, !.again = hybrid]]
  /\ UNCHANGED <<workSessions, clock>>

\* SessionService.end_session
end_session(p) ==
  /\ starting[p].at = "end" /\ ~starting[p].again
  /\ workSessions' = EndedWith(starting[p].id, "user")
  /\ starting' = [starting EXCEPT ![p] = NotCalling]
  /\ UNCHANGED clock

\* The server ends the session, and answers or not, or does not; without an
\* answer the dispatcher calls end_session itself.
dispatch_session_end(p) ==
  /\ starting[p].at = "end" /\ starting[p].again
  /\ \/ /\ workSessions' = EndedWith(starting[p].id, "user")
        /\ starting' \in {[starting EXCEPT ![p] = NotCalling],
                          [starting EXCEPT ![p].again = FALSE]}
     \/ starting' = [starting EXCEPT ![p].again = FALSE] /\ UNCHANGED workSessions
  /\ UNCHANGED clock

\* memory_session_end: any session, by its id.
memory_session_end(p, n) ==
  /\ starting[p].at = "idle" /\ workSessions[n] # NoWorkSession
  /\ workSessions' = EndedWith(n, "user")
  /\ UNCHANGED <<starting, clock>>

\* merge_projects, as far as sessions go.
merge_sessions(source, canonical) ==
  /\ workSessions' = [n \in Numbers |->
       IF workSessions[n].project = source
       THEN [workSessions[n] EXCEPT !.project = canonical] ELSE workSessions[n]]
  /\ UNCHANGED <<starting, clock>>

\* The process dies.
UserDies(p) ==
  /\ starting[p].at # "idle"
  /\ starting' = [starting EXCEPT ![p] = NotCalling]
  /\ UNCHANGED <<workSessions, clock>>

ClockTicks == clock < MaxClock /\ clock' = clock + 1 /\ UNCHANGED <<workSessions, starting>>

SessionCommand(p) ==
  \/ \E project \in SessionProjects :
       \/ start_session(p, project)
       \/ \E hybrid \in BOOLEAN : session_end(p, project, hybrid)
  \/ \E n \in Numbers : memory_session_end(p, n)
  \/ AutoEnd(p) \/ CreateWorkSession(p) \/ end_session(p) \/ dispatch_session_end(p)
  \/ UserDies(p)

SessionsNext ==
  \/ \E p \in Users : SessionCommand(p)
  \/ \E source, canonical \in SessionProjects : merge_sessions(source, canonical)
  \/ ClockTicks

SessionsSpec == SessionsInit /\ [][SessionsNext]_workSessionVars

-----------------------------------------------------------------------------
(* Properties *)

\* "Auto-ends any previous active session for the project": a project never
\* has two active sessions.  It holds while no two starts overlap and no
\* projects are merged, whatever dies between the three transactions.
OneActiveSession ==
  \A project \in SessionProjects :
    \A m, n \in Active(project) : m = n

=============================================================================
