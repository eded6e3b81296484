------------------------------ MODULE Telemetry ------------------------------
(***************************************************************************)
(* TelemetryService: events wait in the buffer of a service object until   *)
(* flush writes them to telemetry_events.                                  *)
(*                                                                         *)
(* get_telemetry_service and get_memory_service (container.py) build a new *)
(* TelemetryService at every call, so a CLI command has three: the one its *)
(* session was started on, the one its MemoryService reports to, and the   *)
(* one it flushes at the end.  The MCP server keeps its memory service.    *)
(* The hybrid front end tracks each dispatch on a service it then flushes. *)
(*                                                                         *)
(* A call holds the service's lock; each transaction is a step.  A summary *)
(* keeps its status: no service with a session tracks anything counted in  *)
(* it.  end_session is called by no front end.                             *)
(***************************************************************************)
EXTENDS Naturals, FiniteSets

CONSTANTS
  Commands,     \* processes that run a CLI command
  McpServer,    \* the process of the MCP server
  BufferSize,   \* buffer_size
  MaxEvents     \* bound: events made

ASSUME TelemetryAssumption ==
  /\ McpServer \notin Commands
  /\ BufferSize \in Nat \ {0} /\ MaxEvents \in Nat

VARIABLES
  made,       \* events made
  buffer,     \* the buffer of each process's services
  stored,     \* the table telemetry_events
  outdated,   \* events past their retention
  summaries,  \* processes whose session summary is "active"
  tracker,    \* what each process is doing
  reported    \* events the memory services of a command tracked

telemetryVars == <<made, buffer, stored, outdated, summaries, tracker, reported>>

-----------------------------------------------------------------------------

Events == 1..MaxEvents
TelemetryProcs == Commands \cup {McpServer}

\* "dispatch" is the service of _track_dispatch, "last" the one that is
\* flushed before the command ends.
Services == {"session", "memory", "dispatch", "last"}

NoBuffers == [s \in Services |-> {}]

\* on: the service a flush in progress is about; then: where it returns to.
Tracking ==
  [at   : {"off", "start", "ready", "tracked", "save", "clear", "flush", "ended"},
   on   : Services,
   then : {"off", "ready", "tracked", "flush", "ended"}]
TrackingOff == [at |-> "off", on |-> "last", then |-> "off"]

\* The type invariant.
TelemetryTypeOK ==
  /\ made \in 0..MaxEvents
  /\ buffer \in [TelemetryProcs -> [Services -> SUBSET Events]]
  /\ stored \subseteq Events /\ outdated \subseteq Events
  /\ summaries \subseteq Commands
  /\ tracker \in [TelemetryProcs -> Tracking]
  /\ reported \in [Commands -> SUBSET Events]

TelemetryInit ==
  /\ made = 0
  /\ buffer = [p \in TelemetryProcs |-> NoBuffers]
  /\ stored = {} /\ outdated = {} /\ summaries = {}
  /\ tracker = [p \in TelemetryProcs |-> TrackingOff]
  /\ reported = [p \in Commands |-> {}]

-----------------------------------------------------------------------------
(* TelemetryService *)

TrackerAt(p, at, on, then) ==
  tracker' = [tracker EXCEPT ![p] = [at |-> at, on |-> on, then |-> then]]

\* flush returns at once when the buffer is empty.
FlushBegins(p, s, events, then) ==
  IF events = {} THEN TrackerAt(p, then, "last", then) ELSE TrackerAt(p, "save", s, then)

\* track: the event is in the buffer, and a full buffer is flushed.
Track(p, s, flushes, then) ==
  /\ made < MaxEvents
  /\ made' = made + 1
  /\ LET events == buffer[p][s] \cup {made'}
     IN  /\ buffer' = [buffer EXCEPT ![p][s] = events]
         /\ IF flushes \/ Cardinality(events) >= BufferSize
            THEN FlushBegins(p, s, events, then) ELSE TrackerAt(p, then, "last", then)

\* save_batch, one transaction.  When it fails its exception passes through
\* flush; the buffer stays as it is.
save_batch(p) ==
  /\ tracker[p].at = "save"
  /\ \/ TrackerAt(p, "clear", tracker[p].on, tracker[p].then)
        /\ stored' = stored \cup buffer[p][tracker[p].on]
     \/ TrackerAt(p, tracker[p].then, "last", tracker[p].then) /\ UNCHANGED stored
  /\ UNCHANGED <<made, buffer, outdated, summaries, reported>>

flush(p) ==
  /\ tracker[p].at = "clear"
  /\ buffer' = [buffer EXCEPT ![p][tracker[p].on] = {}]
  /\ TrackerAt(p, tracker[p].then, "last", tracker[p].then)
  /\ UNCHANGED <<made, stored, outdated, summaries, reported>>

\* cleanup_expired; what is outdated is gone for good.
cleanup_outdated ==
  /\ stored' = stored \ outdated
  /\ UNCHANGED <<made, buffer, outdated, summaries, tracker, reported>>

-----------------------------------------------------------------------------
(* The processes *)

\* The callback of a CLI command: start_session saves the summary ...
start_telemetry(p) ==
  /\ p \in Commands /\ tracker[p].at = "off"
  /\ summaries' = summaries \cup {p}
  /\ TrackerAt(p, "start", "session", "ready")
  /\ UNCHANGED <<made, buffer, stored, outdated, reported>>

\* ... and tracks SESSION_START.
track_session_start(p) ==
  /\ tracker[p].at = "start"
  /\ Track(p, "session", FALSE, "ready")
  /\ UNCHANGED <<stored, outdated, summaries, reported>>

\* The MCP server makes its memory service.
serve_telemetry ==
  /\ tracker[McpServer].at = "off"
  /\ TrackerAt(McpServer, "ready", "last", "ready")
  /\ UNCHANGED <<made, buffer, stored, outdated, summaries, reported>>

\* track_memory_save, _search, _delete, by the memory service.
track_memory(p) ==
  /\ tracker[p].at = "ready"
  /\ Track(p, "memory", FALSE, IF p \in Commands THEN "tracked" ELSE "ready")
  /\ reported' = IF p \in Commands THEN [reported EXCEPT ![p] = {made'}] ELSE reported
  /\ UNCHANGED <<stored, outdated, summaries>>

\* _track_dispatch: track_hybrid_dispatch and flush on one service, errors
\* swallowed; after the server has done the command, or this process has.
track_dispatch(p) ==
  /\ p \in Commands /\ tracker[p].at \in {"ready", "tracked"}
  /\ Track(p, "dispatch", TRUE, "flush")
  /\ UNCHANGED <<stored, outdated, summaries, reported>>

\* The command's last lines: get_telemetry_service(db_path).flush().
flush_last(p) ==
  /\ tracker[p].at \in {"tracked", "flush"}
  /\ FlushBegins(p, "last", buffer[p]["last"], "ended")
  /\ UNCHANGED <<made, buffer, stored, outdated, summaries, reported>>

\* The process ends or dies, and its buffers with it.
ProcessEnds(p) ==
  /\ tracker[p].at # "off"
  /\ buffer' = [buffer EXCEPT ![p] = NoBuffers]
  /\ tracker' = [tracker EXCEPT ![p] = TrackingOff]
  /\ reported' = IF p \in Commands THEN [reported EXCEPT ![p] = {}] ELSE reported
  /\ UNCHANGED <<made, stored, outdated, summaries>>

\* Time passes.
EventsAge ==
  /\ \E e \in 1..made \ outdated : outdated' = outdated \cup {e}
  /\ UNCHANGED <<made, buffer, stored, summaries, tracker, reported>>

Telling(p) ==
  \/ start_telemetry(p) \/ track_session_start(p)
  \/ track_memory(p) \/ track_dispatch(p) \/ save_batch(p) \/ flush(p) \/ flush_last(p)

TelemetryNext ==
  \/ \E p \in TelemetryProcs : Telling(p) \/ ProcessEnds(p)
  \/ serve_telemetry \/ cleanup_outdated \/ EventsAge

TelemetrySpec == TelemetryInit /\ [][TelemetryNext]_telemetryVars

-----------------------------------------------------------------------------
(* Properties *)

\* An event leaves the buffer of a process that goes on only when the table
\* has it, or it has outlived its retention: a save_batch that fails loses
\* nothing, and the next flush takes the same events again.
TrackedIsKept ==
  [][\A p \in TelemetryProcs, s \in Services :
       tracker'[p].at # "off"
         => buffer[p][s] \subseteq buffer'[p][s] \cup stored' \cup outdated']_telemetryVars

\* "Flush telemetry to ensure events are persisted": when a command has
\* flushed at its end, what its memory service tracked is in the table.
FlushPersistsEvents ==
  \A p \in Commands : tracker[p].at = "ended" => reported[p] \subseteq stored \cup outdated

=============================================================================
