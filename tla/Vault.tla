------------------------------- MODULE Vault -------------------------------
(***************************************************************************)
(* memory export obsidian and memory import obsidian: notes of one machine *)
(* are written as files of a directory, the vault, and read into the table *)
(* of that or of another machine, one file after the other.                *)
(*                                                                         *)
(* The path of a note is made from its topic, and several topics have one  *)
(* path: characters that are not allowed become "_", and what follows the  *)
(* last dot is the suffix.  Content stands for content and type; metadata  *)
(* is not written, revision and tags come back as metadata, and both are   *)
(* left out.  A title is one line without blanks around it.  Ids differ in *)
(* their first eight characters, and as a topic or title an id stands for  *)
(* them, or for the path made of them.                                     *)
(***************************************************************************)
EXTENDS Nothing, Naturals, FiniteSets

CONSTANTS
  Notes,         \* observation ids, numbers in the order uuid4 produces them
  Texts,         \* contents
  NoteTitles,    \* titles
  Stripped,      \* what is read back of each content, None if it is blank
  NoteTopics,    \* topic keys
  NoteProjects,  \* project names
  Stem,          \* the path of each topic without ".md": a topic that has the path
  MaxNotes       \* bound: the notes of a machine when one more is saved

ASSUME VaultAssumption ==
  /\ Notes \subseteq Nat
  /\ None \notin Texts /\ None \notin Notes \cup NoteTitles \cup NoteTopics \cup NoteProjects
  /\ Stripped \in [Texts -> Texts \cup {None}]
  /\ NoteTopics \cap Notes = {}
  /\ MaxNotes \in Nat

VARIABLES
  notes,     \* the table of each machine
  unused,    \* ids uuid4 has not produced yet
  vault,     \* the note in each file
  exported,  \* the notes of the export that made the vault, none if two did
  import     \* memory import

vaultVars == <<notes, unused, vault, exported, import>>

-----------------------------------------------------------------------------

Machines == {"here", "there"}

\* The topic of an imported orphan is its path: _orphans and its id.
AllTopics == NoteTopics \cup Notes

\* A title that is imported may be a topic or an id.
AllTitles == NoteTitles \cup AllTopics

Store == INSTANCE Memory WITH
  Writers <- {}, Ids <- Notes, Contents <- Texts, Titles <- AllTitles,
  Topics <- AllTopics,
  SummaryTopic <- None, Projects <- NoteProjects, Keys <- {}, MaxMutations <- 0,
  rows <- notes, fresh <- unused, journal <- <<>>, lost <- {}, mop <- <<>>

\* An observation with its id: the frontmatter and the body of a file, but for
\* the title.
Note == [id : Notes, obs : Store!Observation]

\* <<stem, None>>, <<stem, id>> after a collision, <<None, id>> of an orphan.
Paths == ({Stem[t] : t \in NoteTopics} \cup {None} \cup Notes) \X (Notes \cup {None})

StemOf(obs) == IF obs.topic \in NoteTopics THEN Stem[obs.topic] ELSE obs.topic

\* The heading of the file: "title or topic_key or id[:8]".
Heading(note) ==
  IF note.obs.title # None THEN note.obs.title
  ELSE IF note.obs.topic # None THEN note.obs.topic ELSE note.id

\* passed: the files that are passed over without a word.
NoImport ==
  [at |-> "idle", to |-> None, files |-> {}, known |-> {}, override |-> None, skipped |-> {},
   passed |-> {}, errors |-> {}]

VaultTypeOK ==
  /\ notes \in [Machines -> Store!MemoryTable]
  /\ unused \subseteq Notes
  /\ \A path \in DOMAIN vault : path \in Paths /\ vault[path] \in Note
  /\ exported \subseteq Note
  /\ import.at \in {"idle", "file", "done"}
  /\ import.files \subseteq DOMAIN vault
  /\ import.known \cup import.skipped \subseteq Notes
  /\ import.passed \cup import.errors \subseteq DOMAIN vault

VaultInit ==
  /\ notes = [m \in Machines |-> Store!EmptyMemory]
  /\ unused = Notes
  /\ vault = <<>>
  /\ exported = {}
  /\ import = NoImport

Kept(m) == {i \in Notes : Store!Stored(notes[m], i)}

\* MemoryService.save: the tables it may leave; none when it raises.
SavedInto(table, obs) ==
  IF obs.topic # None /\ Store!get_by_topic_key(table, obs.topic, obs.project) # {}
  THEN {Store!Put(table, i, obs) : i \in Store!UpsertTargets(table, obs.topic, obs.project)}
  ELSE {Store!Put(table, i, obs) :
          i \in {j \in unused : Store!CanCreate(table, j, obs) /\ \A k \in unused : j <= k}}

SaveNote(m, obs) ==
  /\ \E table \in SavedInto(notes[m], obs) :
       /\ notes' = [notes EXCEPT ![m] = table]
       /\ unused' = {i \in unused : ~Store!Stored(table, i)}

-----------------------------------------------------------------------------

\* The user saves a note, or deletes one.
SaveHere ==
  /\ import.at # "file"
  /\ Cardinality(Kept("here")) < MaxNotes
  /\ \E text \in Texts, title \in NoteTitles \cup {None}, topic \in NoteTopics \cup {None},
        project \in NoteProjects \cup {None} :
       SaveNote("here", [content |-> text, title |-> title, topic |-> topic,
                         project |-> project, key |-> None])
  /\ import' = NoImport
  /\ UNCHANGED <<vault, exported>>

DeleteHere ==
  /\ import.at # "file"
  /\ \E i \in Kept("here") : notes' = [notes EXCEPT !["here"] = Store!Remove(@, i)]
  /\ import' = NoImport
  /\ UNCHANGED <<unused, vault, exported>>

\* _build_path
PathOf(i, obs) == IF obs.topic = None THEN <<None, i>> ELSE <<StemOf(obs), None>>

\* Mutant: a note whose path is taken replaces the one before.
ExportOverwrites(chosen, first) ==
  [path \in {PathOf(i, notes["here"][i]) : i \in chosen} |->
     LET i == CHOOSE j \in chosen : PathOf(j, notes["here"][j]) = path
     IN [id |-> i, obs |-> notes["here"][i]]]

\* The first note of a path has it, the others get their id appended.
Export(chosen, first) ==
  LET path(i) == IF i \in first THEN PathOf(i, notes["here"][i])
                 ELSE <<StemOf(notes["here"][i]), i>>
  IN [p \in {path(i) : i \in chosen} |->
        LET i == CHOOSE j \in chosen : path(j) = p
        IN [id |-> i, obs |-> notes["here"][i]]]

\* Some notes are chosen (by project, type, topic, number, or the end of the
\* process), newest first; files that were there stay.
export_obsidian ==
  /\ import.at # "file"
  /\ \E chosen \in (SUBSET Kept("here")) \ {{}}, first \in SUBSET Kept("here") :
       LET path(i) == PathOf(i, notes["here"][i])
           files == Export(chosen, first)
       IN /\ first \subseteq chosen
          /\ \A i \in chosen : \E j \in first : path(j) = path(i)
          /\ \A i, j \in first : path(i) = path(j) => i = j
          /\ vault' = [p \in DOMAIN vault \cup DOMAIN files |->
                         IF p \in DOMAIN files THEN files[p] ELSE vault[p]]
          /\ exported' = IF vault = <<>>
                         THEN {[id |-> i, obs |-> notes["here"][i]] : i \in chosen}
                         ELSE {}
  /\ import' = NoImport
  /\ UNCHANGED <<notes, unused>>

\* The ids of the table are read once, for --skip-duplicates.
import_obsidian(m, override, skip) ==
  /\ import.at # "file" /\ vault # <<>>
  /\ import' = [NoImport EXCEPT !.at = "file", !.to = m, !.files = DOMAIN vault,
                                !.known = IF skip THEN Kept(m) ELSE {}, !.override = override]
  /\ UNCHANGED <<notes, unused, vault, exported>>

\* The files in order of their paths: a stem before the stem with an id.
NextFile(path) ==
  /\ path \in import.files
  /\ \A other \in import.files : other[1] = path[1] /\ other[2] = None => path[2] = None

\* What is saved: the text below the heading, which is the title now; an orphan
\* has its path as a topic.
Imported(path) ==
  LET note == vault[path]
  IN [note.obs EXCEPT !.content = Stripped[@],
                      !.title = Heading(note),
                      !.topic = IF @ = None THEN note.id ELSE @,
                      !.project = IF import.override # None THEN import.override ELSE @]

\* What is no regular file by now, or has a NUL in its first 512 bytes, as a
\* title may, is left out of the counts and of both lists.
PassFile(path) ==
  /\ import.at = "file" /\ NextFile(path)
  /\ import' = [import EXCEPT !.files = @ \ {path}, !.passed = @ \cup {path}]
  /\ UNCHANGED <<notes, unused, vault, exported>>

\* A file; an error, as a blank content is, is listed and the import goes on.
ImportFile(path) ==
  /\ import.at = "file" /\ NextFile(path)
  /\ IF vault[path].id \in import.known
     THEN /\ import' = [import EXCEPT !.files = @ \ {path}, !.skipped = @ \cup {vault[path].id}]
          /\ UNCHANGED <<notes, unused>>
     ELSE IF Imported(path).content = None \/ SavedInto(notes[import.to], Imported(path)) = {}
     THEN /\ import' = [import EXCEPT !.files = @ \ {path}, !.errors = @ \cup {path}]
          /\ UNCHANGED <<notes, unused>>
     ELSE /\ SaveNote(import.to, Imported(path))
          /\ import' = [import EXCEPT !.files = @ \ {path}]
  /\ UNCHANGED <<vault, exported>>

ImportEnds ==
  /\ import.at = "file" /\ import.files = {}
  /\ import' = [import EXCEPT !.at = "done"]
  /\ UNCHANGED <<notes, unused, vault, exported>>

\* The process ends early; what it saved stays.
ImportDies ==
  /\ import.at = "file"
  /\ import' = NoImport
  /\ UNCHANGED <<notes, unused, vault, exported>>

Importing ==
  \/ \E m \in Machines, override \in NoteProjects \cup {None}, skip \in BOOLEAN :
       import_obsidian(m, override, skip)
  \/ \E path \in DOMAIN vault : ImportFile(path)
  \/ ImportEnds

ImportFails == ImportDies \/ \E path \in DOMAIN vault : PassFile(path)

VaultNext == SaveHere \/ DeleteHere \/ export_obsidian \/ Importing \/ ImportFails

VaultSpec == VaultInit /\ [][VaultNext]_vaultVars

-----------------------------------------------------------------------------
(* Properties *)

SharedTopic(note) == \E other \in exported \ {note} : other.obs.topic = note.obs.topic

\* "Export observations as Obsidian-compatible markdown files", "import all
\* .md files": what was exported into an empty directory and imported, here or
\* on another machine, is in that machine's table with its topic, its project,
\* its content without the blanks around it and its heading for a title, although
\* topics share paths and rows of the table are found by topic.  Exempt are a
\* topic that another exported note has too, a note without one, and a file that
\* was skipped, passed over or put into the list of errors.
ImportKeepsNotes ==
  import.at = "done" =>
    \A note \in exported :
      \/ note.obs.topic = None \/ SharedTopic(note)
      \/ note.id \in import.skipped
      \/ \E path \in import.passed \cup import.errors : vault[path] = note
      \/ \E i \in Kept(import.to) :
           /\ notes[import.to][i].content = Stripped[note.obs.content]
           /\ notes[import.to][i].title = Heading(note)
           /\ notes[import.to][i].topic = note.obs.topic
           /\ notes[import.to][i].project =
                IF import.override # None THEN import.override ELSE note.obs.project

\* The same without the exemptions.
RoundTrip ==
  import.at = "done" /\ import.override = None /\ import.known = {}
  => \A note \in exported : \E i \in Kept(import.to) : notes[import.to][i] = note.obs

=============================================================================
