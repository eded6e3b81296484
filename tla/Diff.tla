-------------------------------- MODULE Diff --------------------------------
(***************************************************************************)
(* memory diff: DiffService compares the observations of two time windows, *)
(* of two sessions, or two observations.  Of each side the newest row of a *)
(* key stands for the key: the topic, or the first eight characters of the *)
(* id of a row without one, which another row may have too.                *)
(***************************************************************************)
EXTENDS Nothing, Naturals

CONSTANTS
  RowIds,        \* ids of observations
  Prefixes,      \* what ids begin with: eight characters
  DiffTopics,    \* topic keys
  DiffContents,  \* contents
  DiffProjects,  \* project names
  DiffSessions,  \* session ids
  MaxTime        \* bound: the timestamps

ASSUME DiffAssumption ==
  /\ None \notin RowIds \cup Prefixes \cup DiffTopics \cup DiffContents \cup DiffProjects \cup DiffSessions
  /\ MaxTime \in Nat

VARIABLES
  table,   \* the rows, which do not change
  diff     \* what the last diff compared, and what it answered

diffVars == <<table, diff>>

-----------------------------------------------------------------------------

Row ==
  [prefix  : Prefixes,
   topic   : DiffTopics \cup {None},
   content : DiffContents,
   project : DiffProjects \cup {None},
   session : DiffSessions \cup {None},
   at      : 1..MaxTime]

\* The table has one row of a topic in a project.
Tables ==
  {t \in [RowIds -> Row \cup {None}] :
     \A i, j \in RowIds :
       i # j /\ t[i] # None /\ t[j] # None /\ t[i].topic # None
       => t[i].topic # t[j].topic \/ t[i].project # t[j].project}

Key(i) == IF table[i].topic # None THEN table[i].topic ELSE table[i].prefix

RowsIn == {i \in RowIds : table[i] # None}

NoDiff == [mode |-> "none", reference |-> <<>>, target |-> <<>>, entries |-> {}]

DiffEntry ==
  [status   : {"added", "modified", "removed"},
   key      : Prefixes \cup DiffTopics,
   content  : DiffContents,
   previous : DiffContents \cup {None}]

\* Sides: the content of each key.
DiffTypeOK ==
  /\ table \in Tables
  /\ diff.mode \in {"none", "timestamp", "session", "id"}
  /\ \A side \in {diff.reference, diff.target} :
       \A k \in DOMAIN side : k \in RowIds \cup Prefixes \cup DiffTopics /\ side[k] \in DiffContents
  /\ diff.mode # "id" => diff.entries \subseteq DiffEntry

DiffInit == table \in Tables /\ diff = NoDiff

-----------------------------------------------------------------------------

\* _build_map: of the rows with a key one of the newest, the first in the list.
Maps(rows) ==
  {side \in [{Key(i) : i \in rows} -> rows] :
     \A k \in DOMAIN side :
       Key(side[k]) = k /\ \A i \in rows : Key(i) = k => table[i].at <= table[side[k]].at}

ContentsOf(side) == [k \in DOMAIN side |-> table[side[k]].content]

EntryAdded(new, k) == [status |-> "added", key |-> k, content |-> new[k], previous |-> None]
EntryRemoved(old, k) == [status |-> "removed", key |-> k, content |-> old[k], previous |-> None]
EntryModified(old, new, k) ==
  [status |-> "modified", key |-> k, content |-> new[k], previous |-> old[k]]

\* Mutant: keys both sides have are taken to be the same.
KeysOnly(old, new) ==
  {EntryAdded(new, k) : k \in DOMAIN new \ DOMAIN old}
    \cup {EntryRemoved(old, k) : k \in DOMAIN old \ DOMAIN new}

\* What has not changed is counted and not listed.
Entries(old, new) ==
  {EntryAdded(new, k) : k \in DOMAIN new \ DOMAIN old}
    \cup {EntryRemoved(old, k) : k \in DOMAIN old \ DOMAIN new}
    \cup {EntryModified(old, new, k) : k \in {m \in DOMAIN old \cap DOMAIN new : old[m] # new[m]}}

\* A filter leaves out what it does not name.
Passing(rows, project) ==
  IF project = None THEN rows ELSE {i \in rows : table[i].project = project}

\* _compare
Compare(mode, reference, target, project) ==
  \E old \in Maps(Passing(reference, project)), new \in Maps(Passing(target, project)) :
    /\ diff' = [mode |-> mode, reference |-> ContentsOf(old), target |-> ContentsOf(new),
                entries |-> Entries(ContentsOf(old), ContentsOf(new))]
    /\ UNCHANGED table

Between(from, to) == {i \in RowsIn : from <= table[i].at /\ table[i].at <= to}

\* --before and --after: the windows up to before, and after it up to after.
diff_by_timestamp(before, after, project) ==
  /\ before < after
  /\ Compare("timestamp", Between(0, before), Between(before + 1, after), project)

OfSession(session) == {i \in RowsIn : table[i].session = session}

\* A session without observations is an error, whatever the filter leaves.
diff_by_session(a, b, project) ==
  /\ OfSession(a) # {} /\ OfSession(b) # {}
  /\ Compare("session", OfSession(a), OfSession(b), project)

\* Two rows, whatever their keys.
diff_by_id(i, j) ==
  /\ i \in RowsIn /\ j \in RowsIn
  /\ diff' = [mode |-> "id", reference |-> [k \in {i} |-> table[k].content],
              target |-> [k \in {j} |-> table[k].content],
              entries |-> {[status |-> IF table[i].content = table[j].content
                                       THEN "unchanged" ELSE "modified",
                            key |-> <<Key(i), Key(j)>>,
                            content |-> table[j].content,
                            previous |-> table[i].content]}]
  /\ UNCHANGED table

DiffNext ==
  \/ \E project \in DiffProjects \cup {None} :
       \/ \E before, after \in 0..MaxTime : diff_by_timestamp(before, after, project)
       \/ \E a, b \in DiffSessions : diff_by_session(a, b, project)
  \/ \E i, j \in RowIds : diff_by_id(i, j)

DiffSpec == DiffInit /\ [][DiffNext]_diffVars

-----------------------------------------------------------------------------
(* Properties *)

Set(entries) == {e \in entries : e.status # "removed"}
Unset(entries) == entries \ Set(entries)
KeysOf(entries) == {e.key : e \in entries}

\* The reference after the entries are applied to it.
Patched(side, entries) ==
  [k \in (DOMAIN side \ KeysOf(Unset(entries))) \cup KeysOf(Set(entries)) |->
     IF k \in KeysOf(Set(entries))
     THEN (CHOOSE e \in Set(entries) : e.key = k).content
     ELSE side[k]]

\* "Compare observations between two references": what a diff lists, and what
\* it leaves out, turns the reference into the target.
DiffPatches ==
  diff.mode \in {"timestamp", "session"}
    => Patched(diff.reference, diff.entries) = diff.target

=============================================================================
