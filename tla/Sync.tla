-------------------------------- MODULE Sync --------------------------------
(***************************************************************************)
(* Sync of the observation store with another machine.                     *)
(*                                                                         *)
(*   push  sync push: the mutations after the watermark go into chunk      *)
(*         files, git adds, commits and pushes them, and the watermark     *)
(*         follows.                                                        *)
(*   pull  sync pull on the other machine: git pull, then the new chunks   *)
(*         are applied to its store (copy), which nobody else writes.      *)
(*   file  sync export writes observations into files, by the same         *)
(*         watermark, and sync import creates them on the other machine.   *)
(*                                                                         *)
(* A chunk of mutations is the interval of the journal it holds.  Chunk    *)
(* numbers stand for their names, which begin with the time they were      *)
(* written.  What git does is external.                                    *)
(***************************************************************************)
EXTENDS Memory

CONSTANTS
  Pushers,      \* processes that run sync push
  ChunkSize,    \* mutations in a chunk
  MaxChunks,    \* bound: no export begins with this many chunks written
  MaxExports    \* bound: runs of sync export

ASSUME SyncAssumption ==
  /\ ChunkSize \in Nat \ {0} /\ MaxChunks \in Nat /\ MaxExports \in Nat

VARIABLES
  watermark,  \* last_export_seq of sync_status
  chunks,     \* chunk files of mutations, in the order they were written
  push,       \* the push each process is in the middle of
  have,       \* chunks in the other machine's clone
  todo,       \* chunks the pull in progress has still to import
  imported,   \* sync_chunks of the other machine
  missed,     \* chunks that were not imported in the order they were written: a
              \* pull died first, or it fetched them after later ones
  copy,       \* the other machine's observations
  export,     \* the sync export in progress
  files,      \* what each sync export wrote
  loaded      \* files the other machine has imported

pushVars == <<watermark, chunks, push>>
pullVars == <<have, todo, imported, missed, copy>>
fileVars == <<export, files, loaded>>
syncVars == <<memoryVars, pushVars, pullVars, fileVars>>

-----------------------------------------------------------------------------

\* at: where git has the file; failed: git add or git commit failed for it.
Chunk ==
  [lo : Nat, hi : Nat, at : {"file", "index", "commit", "remote"}, failed : BOOLEAN]

PushOperation ==
  [at   : {"idle", "add", "commit", "push", "watermark"},
   mine : SUBSET Nat,
   max  : Nat]

PushIdle == [at |-> "idle", mine |-> {}, max |-> 0]

\* An exported observation; pos orders the file.
Exported == [id : Ids, obs : Observation, pos : Nat]

ExportOperation ==
  [at : {"idle", "write", "watermark"}, full : BOOLEAN, out : SUBSET Exported, max : Nat]

ExportIdle == [at |-> "idle", full |-> FALSE, out |-> {}, max |-> 0]

\* The type invariant.
SyncTypeOK ==
  /\ MemoryTypeOK
  /\ watermark \in Nat
  /\ chunks \in Seq(Chunk)
  /\ push \in [Pushers -> PushOperation]
  /\ have \subseteq 1..Len(chunks) /\ todo \subseteq have
  /\ imported \subseteq have /\ missed \subseteq have
  /\ copy \in MemoryTable
  /\ export.at \in {"idle", "write", "watermark"}
  /\ \A n \in DOMAIN files : files[n].upto \in Nat /\ files[n].out \subseteq Exported
  /\ loaded \subseteq DOMAIN files

SyncInit ==
  /\ MemoryInit
  /\ watermark = 0
  /\ chunks = <<>>
  /\ push = [p \in Pushers |-> PushIdle]
  /\ have = {} /\ todo = {} /\ imported = {} /\ missed = {}
  /\ copy = EmptyMemory
  /\ export = ExportIdle
  /\ files = <<>>
  /\ loaded = {}

PushStep(p, op) ==
  /\ push' = [push EXCEPT ![p] = op]
  /\ UNCHANGED <<memoryVars, pullVars, fileVars>>

-----------------------------------------------------------------------------
(* sync push *)

\* The intervals of at most ChunkSize mutations that (lo, hi) is cut into.
Cut(lo, hi) ==
  [n \in 1..((hi - lo + ChunkSize) \div ChunkSize) |->
     LET first == lo + (n - 1) * ChunkSize
         last == first + ChunkSize - 1
     IN [lo |-> first, hi |-> IF last < hi THEN last ELSE hi, at |-> "file",
         failed |-> FALSE]]

\* push_cmd: export_incremental writes the mutations since the watermark.
export_incremental(p) ==
  /\ push[p].at = "idle"
  /\ Len(chunks) < MaxChunks
  /\ Len(journal) > watermark
  /\ LET new == Cut(watermark + 1, Len(journal))
     IN /\ chunks' = chunks \o new
        /\ PushStep(p, [at |-> "add",
                        mine |-> (Len(chunks) + 1)..(Len(chunks) + Len(new)),
                        max |-> Len(journal)])
  /\ UNCHANGED watermark

\* The chunks at one place move on to the next.
Moved(from, to) ==
  [n \in DOMAIN chunks |->
     IF chunks[n].at = from THEN [chunks[n] EXCEPT !.at = to] ELSE chunks[n]]

Failing(mine) ==
  [n \in DOMAIN chunks |->
     IF n \in mine /\ chunks[n].at # "remote"
     THEN [chunks[n] EXCEPT !.failed = TRUE] ELSE chunks[n]]

\* git add of this push's chunks; its return code is not looked at.
GitAdd(p) ==
  /\ push[p].at = "add"
  /\ \/ chunks' = [n \in DOMAIN chunks |->
                     IF n \in push[p].mine THEN [chunks[n] EXCEPT !.at = "index"]
                     ELSE chunks[n]]
     \/ chunks' = Failing(push[p].mine)
  /\ PushStep(p, [push[p] EXCEPT !.at = "commit"])
  /\ UNCHANGED watermark

\* git commit of all that is staged.  The manifests and .gitignore are never
\* added, so git does not say "nothing to commit" of an empty index, and a
\* commit that fails goes on to git push like one that succeeds.
GitCommit(p) ==
  /\ push[p].at = "commit"
  /\ \/ chunks' = Moved("index", "commit")
     \/ chunks' = Failing(push[p].mine)
  /\ PushStep(p, [push[p] EXCEPT !.at = "push"])
  /\ UNCHANGED watermark

\* git push delivers every local commit, or fails and ends the command.
GitPush(p) ==
  /\ push[p].at = "push"
  /\ \/ /\ chunks' = Moved("commit", "remote")
        /\ PushStep(p, [push[p] EXCEPT !.at = "watermark"])
     \/ /\ PushStep(p, PushIdle)
        /\ UNCHANGED chunks
  /\ UNCHANGED watermark

\* Mutant: the watermark follows the journal, not the export.
CommitLatest(p) ==
  /\ push[p].at = "watermark"
  /\ watermark' = Len(journal)
  /\ PushStep(p, PushIdle)
  /\ UNCHANGED chunks

commit_export_watermark(p) ==
  /\ push[p].at = "watermark"
  /\ watermark' = push[p].max
  /\ PushStep(p, PushIdle)
  /\ UNCHANGED chunks

PusherDies(p) ==
  /\ push[p].at # "idle"
  /\ PushStep(p, PushIdle)
  /\ UNCHANGED <<watermark, chunks>>

-----------------------------------------------------------------------------
(* sync pull *)

\* The observation _apply_mutation builds: payloads have no project or key, and
\* it does not ask them for a title, so that an update sets the title to NULL.
Received(m) ==
  [content |-> m.content, title |-> None, topic |-> m.topic, project |-> None, key |-> None]

\* _apply_mutation: an update of a row that is not there inserts it; any
\* other error skips the mutation.
apply_mutation(table, m) ==
  CASE m.op = "delete" -> Remove(table, m.id)
    [] m.op = "insert" /\ CanCreate(table, m.id, Received(m)) -> Put(table, m.id, Received(m))
    [] m.op = "update" /\ CanUpdate(table, m.id, Received(m)) -> Put(table, m.id, Received(m))
    [] m.op = "update" /\ CanCreate(table, m.id, Received(m)) -> Put(table, m.id, Received(m))
    [] OTHER -> table

\* The table after the mutations lo..n of a chunk.
AppliedUpTo(table, lo, hi) ==
  LET after[n \in (lo - 1)..hi] ==
        IF n = lo - 1 THEN table ELSE apply_mutation(after[n - 1], journal[n])
  IN after[hi]

AtRemote == {n \in DOMAIN chunks : chunks[n].at = "remote"}

First(set) == CHOOSE n \in set : \A k \in set : n <= k
Last(set) == CHOOSE n \in set : \A k \in set : k <= n

\* Mutant: what was pulled is not told from what was there before.
PullUnrecorded ==
  /\ todo = {}
  /\ AtRemote \ have # {}
  /\ todo' = AtRemote \ have
  /\ UNCHANGED <<have, imported, missed, copy, memoryVars, pushVars, fileVars>>

\* git pull: the files that were not in the clone before.
GitPull ==
  /\ todo = {}
  /\ AtRemote \ have # {}
  /\ have' = have \cup AtRemote
  /\ todo' = AtRemote \ have
  /\ missed' = missed \cup {n \in AtRemote \ have : \E k \in have : n < k}
  /\ UNCHANGED <<imported, copy, memoryVars, pushVars, fileVars>>

\* Mutant: the files are not sorted.
ImportLatest ==
  /\ todo # {}
  /\ LET n == Last(todo)
     IN /\ n \notin imported
        /\ copy' = AppliedUpTo(copy, chunks[n].lo, chunks[n].hi)
        /\ imported' = imported \cup {n}
        /\ todo' = todo \ {n}
  /\ UNCHANGED <<have, missed, memoryVars, pushVars, fileVars>>

\* import_mutations, one chunk: the files are sorted by name.
ImportChunk ==
  /\ todo # {}
  /\ LET n == First(todo)
     IN /\ n \notin imported
        /\ copy' = AppliedUpTo(copy, chunks[n].lo, chunks[n].hi)
        /\ imported' = imported \cup {n}
        /\ todo' = todo \ {n}
  /\ UNCHANGED <<have, missed, memoryVars, pushVars, fileVars>>

\* The pull dies with some mutations of a chunk applied.
PullerDies ==
  /\ todo # {}
  /\ LET n == First(todo)
     IN \E k \in (chunks[n].lo - 1)..chunks[n].hi : copy' = AppliedUpTo(copy, chunks[n].lo, k)
  /\ missed' = missed \cup todo
  /\ todo' = {}
  /\ UNCHANGED <<have, imported, memoryVars, pushVars, fileVars>>

-----------------------------------------------------------------------------
(* sync export and sync import *)

\* Mutations of an entity after from that no later delete of it undoes.
Standing(from, entity) ==
  {n \in (from + 1)..Len(journal) :
     /\ journal[n].entity = entity
     /\ \A k \in n..Len(journal) : ~(journal[k].entity = entity /\ journal[k].op = "delete")}

\* _reconstruct_from_mutations: the last payload of every entity_key, in the
\* order in which the keys came up.  An upsert's key is its topic, a delete's
\* the id.
Reconstructed(from, filter) ==
  LET keep(n) == filter = None \/ journal[n].project = filter
      standing(e) == {n \in Standing(from, e) : keep(n)}
      entities == {e \in Ids \cup Topics : standing(e) # {}}
  IN {[id |-> journal[Last(standing(e))].id,
       obs |-> Received(journal[Last(standing(e))]),
       pos |-> First(standing(e))] : e \in entities}

\* get_all, oldest first; _write_chunk leaves the title out.
Dumped(filter) ==
  {[id |-> i, obs |-> [rows[i] EXCEPT !.title = None], pos |-> 0] :
     i \in {j \in Ids : Stored(rows, j) /\ (filter = None \/ rows[j].project = filter)}}

ExportStep(op) ==
  /\ export' = op
  /\ UNCHANGED <<memoryVars, chunks, push, pullVars, loaded>>

\* export_observations reads the watermark and what it will write.  A
\* project filter narrows what is written, not where the watermark goes;
\* with nothing to write it ends there.
ExportRead(filter) ==
  /\ export.at = "idle"
  /\ Len(files) < MaxExports
  /\ LET full == watermark = 0
         out == IF full THEN Dumped(filter) ELSE Reconstructed(watermark, filter)
     IN /\ out # {}
        /\ ExportStep([at |-> "write", full |-> full, out |-> out, max |-> Len(journal)])
  /\ UNCHANGED <<watermark, files>>

\* The chunks and the manifest are written; upto is what the export read.
ExportWrite ==
  /\ export.at = "write"
  /\ files' = Append(files, [upto |-> export.max, full |-> export.full, out |-> export.out])
  /\ ExportStep([export EXCEPT !.at = "watermark"])
  /\ UNCHANGED watermark

\* A full dump takes the latest seq of the journal as it is now.
ExportWatermark ==
  /\ export.at = "watermark"
  /\ watermark' = IF export.full THEN Len(journal) ELSE export.max
  /\ ExportStep(ExportIdle)
  /\ UNCHANGED files

\* create for every observation of a batch; "already exists" is skipped.
Created(table, batch) ==
  [i \in Ids |->
     IF \E x \in batch : x.id = i /\ CanCreate(table, i, x.obs)
     THEN (CHOOSE x \in batch : x.id = i /\ CanCreate(table, i, x.obs)).obs
     ELSE table[i]]

\* import_observations of one file, in its order.
import_observations(n) ==
  LET at(k) == {x \in files[n].out : x.pos = k}
      after[k \in 0..files[n].upto] ==
        Created(IF k = 0 THEN copy ELSE after[k - 1], at(k))
  IN /\ n \in DOMAIN files \ loaded
     /\ copy' = after[files[n].upto]
     /\ loaded' = loaded \cup {n}
     /\ UNCHANGED <<have, todo, imported, missed, export, files, memoryVars, pushVars>>

-----------------------------------------------------------------------------

Push(p) ==
  \/ export_incremental(p) \/ GitAdd(p) \/ GitCommit(p) \/ GitPush(p)
  \/ commit_export_watermark(p) \/ PusherDies(p)

Pull == GitPull \/ ImportChunk \/ PullerDies

File ==
  \/ (\E filter \in Scopes : ExportRead(filter)) \/ ExportWrite \/ ExportWatermark
  \/ \E n \in DOMAIN files : import_observations(n)

SyncNext ==
  \/ \E p \in Writers : (Command(p) \/ Step(p)) /\ UNCHANGED <<pushVars, pullVars, fileVars>>
  \/ \E p \in Pushers : Push(p)
  \/ Pull
  \/ File

SyncSpec == SyncInit /\ [][SyncNext]_syncVars

-----------------------------------------------------------------------------
(* Properties *)

\* A mutation is in a chunk that the remote has.
Delivered(s) == \E n \in AtRemote : s \in chunks[n].lo..chunks[n].hi

\* git add or git commit failed for its chunk.
Unnoticed(s) == \E n \in DOMAIN chunks : chunks[n].failed /\ s \in chunks[n].lo..chunks[n].hi

\* commit_export_watermark: "only after the exported chunks have been
\* successfully delivered".  However many pushes die or fail at git push,
\* and although two of them work on one clone, the watermark never passes a
\* mutation the remote does not have.  git add and git commit failing
\* unnoticed, and sync export moving the same watermark, are the exceptions.
WatermarkIsDelivered ==
  files = <<>> => \A s \in 1..watermark : Delivered(s) \/ Unnoticed(s)

\* Two observations have had one topic at a time, in different projects.
\* Mutations have no project, so the other machine cannot keep both.
TopicsShared ==
  LET table[n \in 0..Len(journal)] ==
        IF n = 0 THEN EmptyMemory
        ELSE IF journal[n].op = "delete" THEN Remove(table[n - 1], journal[n].id)
        ELSE Put(table[n - 1], journal[n].id, Received(journal[n]))
  IN \E n \in DOMAIN journal, i, j \in Ids :
       /\ i # j /\ table[n][i].topic = table[n][j].topic /\ table[n][i].topic # None

\* An observation that has had topics and none, or several of them, has had one
\* that another observation has had, too.
TopicsMoved ==
  LET had(i, topic) ==
        \E n \in DOMAIN journal :
          journal[n].id = i /\ journal[n].op # "delete" /\ journal[n].topic = topic
  IN \E i, j \in Ids, topic \in Topics, other \in TopicsOrNone :
       /\ i # j /\ topic # other
       /\ had(i, topic) /\ had(j, topic) /\ had(i, other)

\* Everything was delivered and imported in order, and nothing went wrong
\* that the code does not repair.
InStep ==
  /\ \A p \in Writers : mop[p].at = "idle"
  /\ lost = {} /\ missed = {} /\ files = <<>>
  /\ ~TopicsShared /\ ~TopicsMoved
  /\ imported = AtRemote
  /\ \A s \in DOMAIN journal : Delivered(s)

\* The other machine converges: once every mutation of the one process that
\* writes has been delivered and imported, it has the same observations with
\* the same contents and topics, although failed and interrupted pushes deliver
\* mutations again, in chunks that overlap, after later ones have been applied.
\* Titles, projects and keys do not get there: the copy has none.
\* Not so when a topic goes from one observation to another by updates: a row
\* applied again finds its topic taken by a later one, and stays as it is.
ReplicaConverges ==
  InStep =>
    \A i \in Ids :
      copy[i] = IF Stored(rows, i)
                THEN [rows[i] EXCEPT !.title = None, !.project = None, !.key = None] ELSE NoRow

\* Each line is "a mutation with its payload (full observation data for
\* insert/update, id-only for delete)": a machine that has imported every
\* mutation has the titles, too.
MutationsAreFull == InStep => \A i \in Ids : Stored(rows, i) => copy[i].title = rows[i].title

\* "Keys removed by delete mutations are popped from obs_data, so no
\* deleted_ids check is needed here": an incremental sync export does not
\* write an observation whose last mutation deleted it.
DeletedNotExported ==
  \A n \in DOMAIN files : ~files[n].full =>
    \A x \in files[n].out :
      LET of == {k \in 1..files[n].upto : journal[k].id = x.id}
      IN journal[Last(of)].op # "delete"

-----------------------------------------------------------------------------
(* Refinement: the journal is delivered by chunks.                           *)

\* The mutations of some chunks.
Held(set) == {s \in DOMAIN journal : \E n \in set : s \in chunks[n].lo..chunks[n].hi}

Deliveries == INSTANCE Delivery WITH
                log       <- journal,
                delivered <- Held(AtRemote),
                dropped   <- Held({n \in DOMAIN chunks : chunks[n].failed}),
                acked     <- watermark,
                shared    <- files # <<>>,
                received  <- Held(imported)

\* Whichever processes write, push and pull at once, and wherever they die, the
\* journal, the chunks and the watermark of a store do what Delivery promises.
MutationsAreDelivered == Deliveries!Spec

=============================================================================
