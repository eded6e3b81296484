------------------------------ MODULE Templates ------------------------------
(***************************************************************************)
(* Agent templates and teams: TemplateService over TemplateDirectory and   *)
(* the tables agent_templates and team_definitions, as memory template     *)
(* uses them.                                                              *)
(*                                                                         *)
(* A template is a file <name>.md of the user's or of the project's        *)
(* directory (the package ships no builtin one), and a row; a name may     *)
(* have several rows, one id has one.  Ids are <scope>:<name> for          *)
(* discovered templates and uuids for saved ones.                          *)
(*                                                                         *)
(* memory template save passes an argument save_template does not have and *)
(* always raises: save_template is for callers of the service.  No caller  *)
(* gives list_templates and delete_template a project directory, so a      *)
(* PROJECT template can neither be saved nor deleted.                      *)
(***************************************************************************)
EXTENDS Nothing, Naturals, Sequences, FiniteSets

CONSTANTS
  TemplateNames,  \* names of templates
  Teams,          \* ids of teams (uuids), each with a name of its own
  MaxSaved        \* bound: templates saved under a new uuid

ASSUME TemplatesAssumption ==
  /\ None \notin TemplateNames \cup Teams
  /\ IsFiniteSet(TemplateNames) /\ MaxSaved \in Nat

VARIABLES
  templateFiles,  \* the file of each name in the directory of each scope
  templates,      \* agent_templates, in order of rowid
  teams,          \* team_definitions
  saved           \* uuids made for templates so far

templateVars == <<templateFiles, templates, teams, saved>>

-----------------------------------------------------------------------------

TemplateScopes == {"USER", "PROJECT"}

\* How a template names its team: team_id is what the caller gave, an id or a
\* name.
NoTeam == [team |-> None, by |-> "id"]
Member == [team : Teams, by : {"id", "name"}] \cup {NoTeam}

\* described: the frontmatter has a description, without which discover skips
\* the file.
TemplateFile == [described : BOOLEAN, member : Member]

\* own: 0 for an id <scope>:<name>, the number of the uuid otherwise.  The path
\* of its file follows from scope and name, for the project's directory is
\* always given by the same path here.
Template ==
  [name : TemplateNames, scope : TemplateScopes, own : 0..MaxSaved,
   status : {"ACTIVE", "DISABLED"}, member : Member]

\* The primary key.
SameId(s, t) == s.own = t.own /\ (s.own = 0 => s.name = t.name /\ s.scope = t.scope)

TemplateRows == DOMAIN templates

\* The type invariant; of one id there is one row.
TemplatesTypeOK ==
  /\ templateFiles \in [TemplateScopes -> [TemplateNames -> TemplateFile \cup {None}]]
  /\ templates \in Seq(Template)
  /\ teams \in [Teams -> {"none", "there", "gone"}]
  /\ saved \in 0..MaxSaved
  /\ \A i, j \in TemplateRows : SameId(templates[i], templates[j]) => i = j

TemplatesInit ==
  /\ templateFiles = [s \in TemplateScopes |-> [n \in TemplateNames |-> None]]
  /\ templates = <<>>
  /\ teams = [t \in Teams |-> "none"]
  /\ saved = 0

-----------------------------------------------------------------------------
(* SqliteAgentTemplateRepository *)

\* INSERT ... ON CONFLICT(id) DO UPDATE, which keeps the rowid.
Saved(rows, t) ==
  IF \E i \in DOMAIN rows : SameId(rows[i], t)
  THEN [i \in DOMAIN rows |-> IF SameId(rows[i], t) THEN t ELSE rows[i]]
  ELSE Append(rows, t)

Named(rows, n) == {i \in DOMAIN rows : rows[i].name = n}

\* UPDATE ... SET status = ? WHERE id = ? AND status != ?
Toggled(rows, i) ==
  [rows EXCEPT ![i].status = IF @ = "ACTIVE" THEN "DISABLED" ELSE "ACTIVE"]

\* DELETE ... WHERE id = ?
Removed(rows, i) == SubSeq(rows, 1, i - 1) \o SubSeq(rows, i + 1, Len(rows))

\* list_by_team, by the id of the team.
OfTeam(t) == {i \in TemplateRows : templates[i].member = [team |-> t, by |-> "id"]}

\* SELECT ... WHERE name = ?, the first in order of rowid.
get_by_name(n) == {i \in Named(templates, n) : \A j \in Named(templates, n) : i <= j}

-----------------------------------------------------------------------------
(* TemplateDirectory *)

\* A file discover_all takes for a template.
Readable(s, n) == templateFiles[s][n] # None /\ templateFiles[s][n].described

\* discover_all: the project's file, if a project is given, before the user's.
Found(n, inProject) ==
  IF inProject /\ Readable("PROJECT", n) THEN {"PROJECT"}
  ELSE IF Readable("USER", n) THEN {"USER"} ELSE {}

\* save_template and delete_template of the directory.
WriteFile(s, n, file) == templateFiles' = [templateFiles EXCEPT ![s][n] = file]
Unlink(s, n) == templateFiles' = [templateFiles EXCEPT ![s][n] = None]

-----------------------------------------------------------------------------
(* TemplateService *)

\* The row discover_templates looks at: one of the highest scope.
Existing(rows, n) ==
  LET inProject == {i \in Named(rows, n) : rows[i].scope = "PROJECT"}
  IN  IF inProject # {} THEN inProject ELSE Named(rows, n)

Discovered(n, s) ==
  [name |-> n, scope |-> s, own |-> 0, status |-> "ACTIVE",
   member |-> templateFiles[s][n].member]

\* The templates discover_templates saves: each name found where the row it
\* looks at is not from.  The rows are read once, before the first is saved.
Discoveries(inProject) ==
  {Discovered(ns[1], ns[2]) : ns \in
     {at \in TemplateNames \X TemplateScopes :
        /\ at[2] \in Found(at[1], inProject)
        /\ \A i \in Existing(templates, at[1]) : templates[i].scope # at[2]}}

\* Every row with the id of a discovery is updated, the other discoveries are
\* appended, in the order of the directory.
discover_templates(inProject) ==
  /\ LET found == Discoveries(inProject)
         new == {t \in found : \A i \in TemplateRows : ~SameId(templates[i], t)}
         kept == [i \in TemplateRows |->
                    IF \E t \in found : SameId(templates[i], t)
                    THEN CHOOSE t \in found : SameId(templates[i], t)
                    ELSE templates[i]]
     IN  \E order \in [1..Cardinality(new) -> new] :
           /\ \A i, j \in DOMAIN order : order[i] = order[j] => i = j
           /\ templates' = kept \o order
  /\ UNCHANGED <<templateFiles, teams, saved>>

\* save_template in the USER scope: the file, then the row, under the id of
\* the first row of the name if that is a USER template.  The process may die
\* between the two.
save_template(n, described, member) ==
  /\ member.team # None => teams[member.team] = "there"
  /\ LET same == {i \in get_by_name(n) : templates[i].scope = "USER"}
         t(own) == [name |-> n, scope |-> "USER", own |-> own, status |-> "ACTIVE",
                    member |-> member]
     IN  /\ WriteFile("USER", n, [described |-> described, member |-> member])
         /\ \/ \E i \in same :
                 templates' = Saved(templates, t(templates[i].own)) /\ UNCHANGED saved
            \/ /\ same = {} /\ saved < MaxSaved /\ saved' = saved + 1
               /\ templates' = Saved(templates, t(saved'))
            \/ UNCHANGED <<templates, saved>>
  /\ UNCHANGED teams

\* delete_template raises for a PROJECT template.  The file goes first; the
\* process may die before the row does.
delete_template(n) ==
  /\ \E i \in get_by_name(n) :
       /\ templates[i].scope = "USER"
       /\ templates' \in {Removed(templates, i), templates}
  /\ Unlink("USER", n)
  /\ UNCHANGED <<teams, saved>>

\* toggle_template; another process may have toggled the row since it was read,
\* and nothing changes.
toggle_template(n) ==
  /\ \E i \in get_by_name(n) :
       templates' = Toggled(templates, i)
  /\ UNCHANGED <<templateFiles, teams, saved>>

\* create_team; a name that is taken raises.
create_team(t) ==
  /\ teams[t] = "none"
  /\ teams' = [teams EXCEPT ![t] = "there"]
  /\ UNCHANGED <<templateFiles, templates, saved>>

\* delete_team: the team, then the templates that have its id; one that names
\* it keeps the name, a file keeps both.
delete_team(t) ==
  /\ teams[t] = "there"
  /\ teams' = [teams EXCEPT ![t] = "gone"]
  /\ templates' \in {templates,
       [i \in TemplateRows |->
          IF i \in OfTeam(t) THEN [templates[i] EXCEPT !.member = NoTeam] ELSE templates[i]]}
  /\ UNCHANGED <<templateFiles, saved>>

\* The user writes or removes a file.
EditFile(s, n) ==
  /\ \E described \in BOOLEAN :
       templateFiles' = [templateFiles EXCEPT ![s][n] =
         IF @ = None THEN [described |-> described, member |-> NoTeam] ELSE None]
  /\ UNCHANGED <<templates, teams, saved>>

TemplatesNext ==
  \/ \E inProject \in BOOLEAN : discover_templates(inProject)
  \/ \E n \in TemplateNames :
       \/ \E described \in BOOLEAN, member \in Member : save_template(n, described, member)
       \/ delete_template(n) \/ toggle_template(n)
       \/ \E s \in TemplateScopes : EditFile(s, n)
  \/ \E t \in Teams : create_team(t) \/ delete_team(t)

TemplatesSpec == TemplatesInit /\ [][TemplatesNext]_templateVars

-----------------------------------------------------------------------------
(* Properties *)

\* A template that was disabled stays disabled until it is toggled or saved.
\* Discovering outside the project enables a USER template again when a project
\* has one of the same name.
DiscoverKeepsDisabled ==
  [][\A inProject \in BOOLEAN : discover_templates(inProject) =>
       \A i \in TemplateRows : templates[i].status = "DISABLED" => templates'[i].status = "DISABLED"]_templateVars

\* No row names a team that is gone.
TeamIsThere == \A i \in TemplateRows : templates[i].member.team # None => teams[templates[i].member.team] = "there"

=============================================================================
