------------------------------- MODULE Memory -------------------------------
(***************************************************************************)
(* The observation store: MemoryService over ObservationRepository, and    *)
(* the front ends that call it (CLI, MCP tools, HTTP API, the hybrid       *)
(* dispatcher that asks the MCP server first).                             *)
(*                                                                         *)
(* Each repository call is one transaction and one step.  A write and its  *)
(* entry in the mutation journal are two transactions: _record_mutation    *)
(* follows the commit of the row, and its errors are swallowed.            *)
(*                                                                         *)
(* An observation keeps its content (with metadata and type), its title,   *)
(* topic, project and idempotency key.  Topics and projects stand for      *)
(* normalized names, no metadata for empty metadata.  The timestamp, the   *)
(* revision count and the session are left out.  The repository's          *)
(* operators take the table they work on, so that Sync can apply them to   *)
(* another machine's.                                                      *)
(***************************************************************************)
EXTENDS Nothing, Naturals, Sequences, FiniteSets

CONSTANTS
  Writers,        \* processes that use the store
  Ids,            \* observation ids (uuid4, never reused)
  Contents,       \* contents
  Titles,         \* titles
  Topics,         \* topic keys; the compact commands use one of them
  SummaryTopic,   \* "compact/session-summary"
  Projects,       \* project names
  Keys,           \* idempotency keys of events
  MaxMutations    \* bound: no write begins with this many entries or lost ones

ASSUME MemoryAssumption ==
  /\ SummaryTopic \in Topics
  /\ None \notin Ids \cup Contents \cup Titles \cup Topics \cup Projects \cup Keys
  /\ MaxMutations \in Nat

VARIABLES
  rows,     \* the table observations
  fresh,    \* ids uuid4 has not produced yet
  journal,  \* the table sync_mutations, in order of seq
  lost,     \* ids of rows written, or cleaned up, without a journal entry
  mop       \* the operation each process is in the middle of

memoryVars == <<rows, fresh, journal, lost, mop>>

-----------------------------------------------------------------------------
(* Rows, mutations and operations *)

\* The fields of an observation; update() may be given some of them.
Fields ==
  [content : Contents \cup {None},
   title   : Titles \cup {None},
   topic   : Topics \cup {None},
   project : Projects \cup {None},
   key     : Keys \cup {None}]

Observation == {row \in Fields : row.content # None}

NoRow ==
  [content |-> None, title |-> None, topic |-> None, project |-> None, key |-> None]

MemoryTable == [Ids -> Observation \cup {NoRow}]
EmptyMemory == [i \in Ids |-> NoRow]

\* The payload has the id, the content and the topic, and neither title, project
\* nor key; entity is the entity_key column, project the project column.
Mutation ==
  [op      : {"insert", "update", "delete"},
   entity  : Ids \cup Topics,
   id      : Ids,
   content : Contents \cup {None},
   topic   : Topics \cup {None},
   project : Projects \cup {None}]

NoMutation ==
  [op |-> "none", entity |-> None, id |-> None, content |-> None, topic |-> None,
   project |-> None]

\* fallback: the dispatcher will do the operation itself if no answer comes.
MemoryOperation ==
  [at       : {"idle", "lookup", "create", "upsert", "read", "update", "search",
               "owner", "delete", "find_event", "record"},
   kind     : {"none", "save", "event", "update", "delete"},
   id       : Ids \cup {None},
   obs      : Fields,
   mutation : Mutation \cup {NoMutation},
   fallback : BOOLEAN]

MemoryIdle ==
  [at |-> "idle", kind |-> "none", id |-> None, obs |-> NoRow, mutation |-> NoMutation,
   fallback |-> FALSE]

\* The type invariant.
MemoryTypeOK ==
  /\ rows \in MemoryTable
  /\ fresh \subseteq Ids
  /\ journal \in Seq(Mutation)
  /\ lost \subseteq Ids
  /\ mop \in [Writers -> MemoryOperation]

MemoryInit ==
  /\ rows = EmptyMemory
  /\ fresh = Ids
  /\ journal = <<>>
  /\ lost = {}
  /\ mop = [p \in Writers |-> MemoryIdle]

Stored(table, i) == table[i] # NoRow

-----------------------------------------------------------------------------
(* ObservationRepository *)

\* The unique indexes: idempotency_key, and (topic_key, IFNULL(project, '')).
Clashes(table, i, obs) ==
  \E j \in Ids \ {i} :
    /\ Stored(table, j)
    /\ \/ obs.key # None /\ table[j].key = obs.key
       \/ obs.topic # None /\ table[j].topic = obs.topic /\ table[j].project = obs.project

CanCreate(table, i, obs) == ~Stored(table, i) /\ ~Clashes(table, i, obs)

CanUpdate(table, i, obs) == Stored(table, i) /\ ~Clashes(table, i, obs)

\* INSERT, and UPDATE ... WHERE id = ? of the whole row.
Put(table, i, obs) == [table EXCEPT ![i] = obs]

Remove(table, i) == [table EXCEPT ![i] = NoRow]

OfTopic(table, topic) == {i \in Ids : Stored(table, i) /\ table[i].topic = topic}

InProject(table, ids, project) == {i \in ids : table[i].project = project}

\* get_by_topic_key: with a project, its rows and those without one; without
\* a project, any row.
get_by_topic_key(table, topic, project) ==
  IF project # None
  THEN InProject(table, OfTopic(table, topic), project) \cup
       InProject(table, OfTopic(table, topic), None)
  ELSE OfTopic(table, topic)

\* The rows the subquery of upsert_topic_key may pick.  It does not restrict
\* the project, and project = ? is 0 for the row of another project and NULL
\* for a row without one: in descending order 1, 0, NULL.
UpsertTargets(table, topic, project) ==
  LET all == OfTopic(table, topic)
      own == InProject(table, all, project)
      none == InProject(table, all, None)
  IN IF project = None THEN none
     ELSE IF own # {} THEN own
     ELSE IF all \ none # {} THEN all \ none
     ELSE none

-----------------------------------------------------------------------------
(* Steps of the service *)

\* All of the process's operation but mop[p] stays.
MemoryAt(p, op) == mop' = [mop EXCEPT ![p] = op]

\* A command that failed or ended; the dispatcher does what the server did
\* not answer, after the answer was lost or the server failed.
Ended(p) ==
  \/ MemoryAt(p, MemoryIdle)
  \/ /\ mop[p].fallback
     /\ mop[p].kind = "save"
     /\ MemoryAt(p, [mop[p] EXCEPT !.at = IF mop[p].obs.topic = None THEN "create" ELSE "lookup",
                               !.mutation = NoMutation, !.fallback = FALSE])
  \/ /\ mop[p].fallback
     /\ mop[p].kind = "delete"
     /\ MemoryAt(p, [mop[p] EXCEPT !.at = "delete", !.mutation = NoMutation, !.fallback = FALSE])

\* The row is written; its mutation comes next.
Written(p, table, mutation) ==
  /\ rows' = table
  /\ MemoryAt(p, [mop[p] EXCEPT !.at = "record", !.mutation = mutation])
  /\ UNCHANGED <<journal, lost>>

\* A call that raises, or that finds nothing to do.
Fails(p) ==
  /\ Ended(p)
  /\ UNCHANGED <<rows, fresh, journal, lost>>

Advance(p, step) ==
  /\ MemoryAt(p, [mop[p] EXCEPT !.at = step])
  /\ UNCHANGED <<rows, fresh, journal, lost>>

\* MemoryService.save, first half: is there a row for the topic?
SaveLookup(p) ==
  /\ mop[p].at = "lookup"
  /\ LET obs == mop[p].obs
     IN IF get_by_topic_key(rows, obs.topic, obs.project) # {}
        THEN Advance(p, "upsert")
        ELSE Advance(p, "create")

\* ObservationRepository.create
CreateRow(p) ==
  /\ mop[p].at = "create"
  /\ \E i \in fresh :
       LET obs == mop[p].obs
       IN IF CanCreate(rows, i, obs)
          THEN /\ Written(p, Put(rows, i, obs),
                          [op |-> "insert", entity |-> i, id |-> i, content |-> obs.content,
                           topic |-> obs.topic, project |-> obs.project])
               /\ fresh' = fresh \ {i}
          ELSE Fails(p)

\* Mutant: the mutation names the id save() made up, not the id of the row.
UpsertNamesNewId(p) ==
  /\ mop[p].at = "upsert"
  /\ LET obs == mop[p].obs
         targets == UpsertTargets(rows, obs.topic, obs.project)
     IN IF targets = {}
        THEN Fails(p)
        ELSE \E i \in targets, new \in fresh :
               /\ Written(p, Put(rows, i, [obs EXCEPT !.key = rows[i].key]),
                          [op |-> "update", entity |-> obs.topic, id |-> new,
                           content |-> obs.content, topic |-> obs.topic,
                           project |-> obs.project])
               /\ fresh' = fresh \ {new}

\* ObservationRepository.upsert_topic_key
Upsert(p) ==
  /\ mop[p].at = "upsert"
  /\ LET obs == mop[p].obs
         targets == UpsertTargets(rows, obs.topic, obs.project)
     IN IF targets = {}
        THEN Fails(p)
        ELSE \E i \in targets :
               /\ Written(p, Put(rows, i, [obs EXCEPT !.key = rows[i].key]),
                          [op |-> "update", entity |-> obs.topic, id |-> i,
                           content |-> obs.content, topic |-> obs.topic,
                           project |-> obs.project])
               /\ UNCHANGED fresh

\* MemoryService.update reads the row and changes the fields it was given.
UpdateRead(p) ==
  /\ mop[p].at = "read"
  /\ LET i == mop[p].id
         given == mop[p].obs
         keep(new, old) == IF new # None THEN new ELSE old
     IN IF ~Stored(rows, i)
        THEN Fails(p)
        ELSE /\ MemoryAt(p, [mop[p] EXCEPT !.at = "update", !.obs =
                           [content |-> keep(given.content, rows[i].content),
                            title |-> keep(given.title, rows[i].title),
                            topic |-> keep(given.topic, rows[i].topic),
                            project |-> keep(given.project, rows[i].project),
                            key |-> rows[i].key]])
             /\ UNCHANGED <<rows, fresh, journal, lost>>

\* ObservationRepository.update
UpdateWrite(p) ==
  /\ mop[p].at = "update"
  /\ LET i == mop[p].id
         obs == mop[p].obs
     IN IF CanUpdate(rows, i, obs)
        THEN /\ Written(p, Put(rows, i, obs),
                        [op |-> "update", entity |-> i, id |-> i, content |-> obs.content,
                         topic |-> obs.topic, project |-> obs.project])
             /\ UNCHANGED fresh
        ELSE Fails(p)

\* ObservationRepository.delete
DeleteWrite(p) ==
  /\ mop[p].at = "delete"
  /\ LET i == mop[p].id
     IN IF Stored(rows, i)
        THEN /\ Written(p, Remove(rows, i),
                        [op |-> "delete", entity |-> i, id |-> i, content |-> None,
                         topic |-> None, project |-> None])
             /\ UNCHANGED fresh
        ELSE Fails(p)

\* ObservationRepository.save_event: nothing to do for a known key.
FindEvent(p) ==
  /\ mop[p].at = "find_event"
  /\ IF \E i \in Ids : rows[i].key = mop[p].obs.key
     THEN Fails(p)
     ELSE Advance(p, "create")

\* capture_passive skips a learning that its search finds, in any project;
\* the search returns one observation, which may be another.
CaptureSearch(p) ==
  /\ mop[p].at = "search"
  /\ \/ Advance(p, "create")
     \/ (\E i \in Ids : rows[i].content = mop[p].obs.content) /\ Fails(p)

\* _record_mutation, and record_mutation of the sync repository.
Record(p) ==
  /\ mop[p].at = "record"
  /\ journal' = Append(journal, mop[p].mutation)
  /\ Ended(p)
  /\ UNCHANGED <<rows, fresh, lost>>

\* The process dies before the entry, or the entry fails and the error is
\* swallowed.
RecordLost(p) ==
  /\ mop[p].at = "record"
  /\ lost' = lost \cup {mop[p].mutation.id}
  /\ Ended(p)
  /\ UNCHANGED <<rows, fresh, journal>>

-----------------------------------------------------------------------------
(* Front ends: where an operation begins.  A write is begun only while the *)
(* journal has room.                                                       *)

Begins(p, op) ==
  /\ mop[p].at = "idle"
  /\ Len(journal) + Cardinality(lost) < MaxMutations
  /\ MemoryAt(p, op)
  /\ UNCHANGED <<rows, fresh, journal, lost>>

Given(content, title, topic, project) ==
  [content |-> content, title |-> title, topic |-> topic, project |-> project, key |-> None]

\* MemoryService.save with or without a topic.
Saves(p, content, title, topic, project, fallback) ==
  Begins(p, [MemoryIdle EXCEPT
    !.at = IF topic = None THEN "create" ELSE "lookup",
    !.kind = "save",
    !.fallback = fallback,
    !.obs = Given(content, title, topic, project)])

Updates(p, i, content, title, topic, project) ==
  Begins(p, [MemoryIdle EXCEPT
    !.at = "read", !.kind = "update", !.id = i,
    !.obs = Given(content, title, topic, project)])

Deletes(p, i, fallback) ==
  Begins(p, [MemoryIdle EXCEPT
    !.at = "delete", !.kind = "delete", !.id = i, !.fallback = fallback])

\* memory save: the project comes from git when none is given.  With
\* FORK_HYBRID the server is asked first (dispatch_save).
cli_save(p, content, title, topic, project) == Saves(p, content, title, topic, project, FALSE)

dispatch_save(p, content, title, topic, project) == Saves(p, content, title, topic, project, TRUE)

\* MCP memory_save: the project is never None.
memory_save(p, content, title, topic, project) ==
  project # None /\ Saves(p, content, title, topic, project, FALSE)

\* POST /memory: the project may be None.
create_observation(p, content, title, topic, project) ==
  Saves(p, content, title, topic, project, FALSE)

\* compact save-summary and compact file-ops: one topic for every project.
save_summary(p, content, project) == Saves(p, content, None, SummaryTopic, project, FALSE)

file_ops(p, content, project) == Saves(p, content, None, SummaryTopic, project, FALSE)

\* MCP memory_session_summary
memory_session_summary(p, content, project) ==
  project # None /\ Saves(p, content, None, None, project, FALSE)

\* MCP memory_capture_passive, one learning.
memory_capture_passive(p, content, project) ==
  Begins(p, [MemoryIdle EXCEPT !.at = "search", !.kind = "save",
    !.obs = Given(content, None, None, project)])

\* An event of the workflow executor, through MemoryService.save_event: its
\* key is the run, the task and the event type.  The executor swallows errors.
save_event(p, content, key) ==
  Begins(p, [MemoryIdle EXCEPT !.at = "find_event", !.kind = "event",
    !.obs = [Given(content, None, None, None) EXCEPT !.key = key]])

\* memory update, MCP memory_update and PUT /memory/{id}: fields that are
\* not given are None, and the command has none for the title.
\* dispatch_update's own call names a parameter that update() does not have:
\* without the server it fails.
cli_update(p, i, content, topic, project) ==
  /\ content # None \/ topic # None \/ project # None
  /\ Stored(rows, i)
  /\ Updates(p, i, content, None, topic, project)

memory_update(p, i, content, title, topic, project) ==
  Updates(p, i, content, title, topic, project)

update_observation(p, i, content, title, topic, project) ==
  Updates(p, i, content, title, topic, project)

\* memory delete: the id is resolved and its project compared, then deleted.
cli_delete(p, i, project, force) ==
  /\ Stored(rows, i)
  /\ force \/ rows[i].project \in {None, project}
  /\ Deletes(p, i, FALSE)

dispatch_delete(p, i, project, force) ==
  /\ Stored(rows, i)
  /\ force \/ rows[i].project \in {None, project}
  /\ Deletes(p, i, TRUE)

\* MCP memory_delete with a project: an unowned row is not its own either.
memory_delete(p, i, project) ==
  /\ Stored(rows, i) /\ rows[i].project = project
  /\ Deletes(p, i, FALSE)

\* DELETE /memory/{id}
delete_observation(p, i) == Stored(rows, i) /\ Deletes(p, i, FALSE)

\* MemoryService.merge_projects: one transaction; a clash of topics undoes
\* all of it.  It has no journal entry.
merge_projects(p, from, to) ==
  LET merged == [i \in Ids |-> IF rows[i].project = from
                               THEN [rows[i] EXCEPT !.project = to] ELSE rows[i]]
  IN /\ mop[p].at = "idle"
     /\ from # to
     /\ \A i \in Ids : Stored(merged, i) => ~Clashes(merged, i, merged[i])
     /\ rows' = merged
     /\ UNCHANGED <<fresh, journal, lost, mop>>

\* memory cleanup --no-dry-run: one transaction deletes what is older than
\* --days, and has no journal entry.
cleanup_old_observations(p) ==
  /\ mop[p].at = "idle"
  /\ \E old \in SUBSET {i \in Ids : Stored(rows, i)} :
       /\ old # {}
       /\ rows' = [i \in Ids |-> IF i \in old THEN NoRow ELSE rows[i]]
       /\ lost' = lost \cup old
  /\ UNCHANGED <<fresh, journal, mop>>

-----------------------------------------------------------------------------

Scopes == Projects \cup {None}
TopicsOrNone == Topics \cup {None}
TitlesOrNone == Titles \cup {None}

\* A front end begins an operation.
Command(p) ==
  \/ \E content \in Contents, project \in Scopes :
       \/ \E title \in TitlesOrNone, topic \in TopicsOrNone :
            \/ cli_save(p, content, title, topic, project)
            \/ dispatch_save(p, content, title, topic, project)
            \/ memory_save(p, content, title, topic, project)
            \/ create_observation(p, content, title, topic, project)
       \/ save_summary(p, content, project) \/ file_ops(p, content, project)
       \/ memory_session_summary(p, content, project)
       \/ memory_capture_passive(p, content, project)
  \/ \E content \in Contents, key \in Keys : save_event(p, content, key)
  \/ \E i \in Ids \ fresh :
       \/ \E content \in Contents \cup {None}, topic \in TopicsOrNone, project \in Scopes :
            \/ cli_update(p, i, content, topic, project)
            \/ \E title \in TitlesOrNone :
                 \/ memory_update(p, i, content, title, topic, project)
                 \/ update_observation(p, i, content, title, topic, project)
       \/ \E project \in Projects, force \in BOOLEAN :
            \/ cli_delete(p, i, project, force)
            \/ dispatch_delete(p, i, project, force)
            \/ memory_delete(p, i, project)
       \/ delete_observation(p, i)
  \/ \E from, to \in Projects : merge_projects(p, from, to)
  \/ cleanup_old_observations(p)

\* An operation goes on.
Step(p) ==
  \/ SaveLookup(p) \/ CreateRow(p) \/ Upsert(p) \/ UpdateRead(p) \/ UpdateWrite(p)
  \/ DeleteWrite(p) \/ FindEvent(p) \/ CaptureSearch(p) \/ Record(p) \/ RecordLost(p)

-----------------------------------------------------------------------------
(* Properties *)

MutationsOf(i) == {n \in DOMAIN journal : journal[n].id = i}

LastOf(i) == journal[CHOOSE n \in MutationsOf(i) : \A k \in MutationsOf(i) : k <= n]

\* What the payload of the last mutation says of an observation, its content
\* and its topic, is what the table has.
Journalled(i) ==
  IF Stored(rows, i)
  THEN /\ MutationsOf(i) # {}
       /\ LastOf(i).op # "delete"
       /\ LastOf(i).content = rows[i].content /\ LastOf(i).topic = rows[i].topic
  ELSE MutationsOf(i) # {} => LastOf(i).op = "delete"

\* Between the operations of a single process the last mutation of every
\* observation has the content and the topic of its row, whichever way the row
\* was last written: a save under a topic, an event, an update of some fields,
\* a deletion, a merge of projects or a second save by the dispatcher.  Only an
\* id whose entry was lost is exempt.  No payload has a title: the journal does
\* not know the rest of the row (MutationsAreFull in Sync is violated).
JournalKnowsRows ==
  (\A p \in Writers : mop[p].at = "idle") => \A i \in Ids \ lost : Journalled(i)

\* upsert_topic_key: "prefer same-project match, then fall back to
\* project-agnostic (NULL)".  A save never rewrites another project's row.
UpsertStaysInProject ==
  [][\A p \in Writers, i \in Ids :
       mop[p].at = "upsert" /\ rows'[i] # rows[i]
       => rows[i].project \in {mop[p].obs.project, None}]_memoryVars

=============================================================================
