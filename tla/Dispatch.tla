------------------------------ MODULE Dispatch ------------------------------
(***************************************************************************)
(* Hooks: EventDispatcher over the rules RuleLoader reads from             *)
(* .hooks/hooks.json, ShellActionRunner, and HookService as the workflow   *)
(* commands and the CLI's start use it.                                    *)
(*                                                                         *)
(* A dispatch is synchronous: the rules are tried in the order of the      *)
(* file, one after another, and each matching one runs a shell command.    *)
(* The service reads the file once, at the first event of the process.     *)
(***************************************************************************)
EXTENDS Nothing, Naturals, Sequences

CONSTANTS
  HookEvents,   \* events, told apart by what rules match
  HookFiles,    \* contents of hooks.json: sequences of rules
  Broken,       \* the content of a file json.load refuses
  RetryAttempts \* default_retry_attempts

VARIABLES
  hooks,     \* .hooks/hooks.json, or None when there is no file
  rules,     \* the rules of the process, or None before its first event
  hooking    \* the dispatch the process is in

hookVars == <<hooks, rules, hooking>>

-----------------------------------------------------------------------------

\* on: the events that satisfy the spec of the rule, by type and pattern, none
\* for a pattern that does not compile; blocked: _validate_command refuses the
\* command.
Rule ==
  [on       : SUBSET HookEvents,
   policy   : {"abort", "continue", "retry"},
   critical : BOOLEAN,
   blocked  : BOOLEAN]

ASSUME DispatchAssumption ==
  /\ RetryAttempts \in Nat \ {0}
  /\ HookFiles \subseteq Seq(Rule) /\ None \notin HookFiles \cup {<<>>}

\* at: before the first event, among the rules, and in the work the caller does
\* once dispatch is over; raised: dispatch ended with an exception.
Hooking ==
  [at : {"idle", "rules", "work"}, event : HookEvents \cup {None},
   rule : Nat, tries : 0..RetryAttempts, raised : BOOLEAN]

NotHooking == [at |-> "idle", event |-> None, rule |-> 1, tries |-> 0, raised |-> FALSE]

\* The type invariant.
DispatchTypeOK ==
  /\ hooks \in HookFiles \cup {None, Broken}
  /\ rules = None \/ rules \in Seq(Rule)
  /\ hooking \in Hooking
  /\ hooking.at = "rules" => rules # None /\ hooking.rule \in 1..Len(rules) + 1

DispatchInit ==
  /\ hooks \in HookFiles \cup {None, Broken}
  /\ rules = None
  /\ hooking = NotHooking

-----------------------------------------------------------------------------

\* ShellCommandAction.continue_on_failure
continue_on_failure(r) == ~r.critical \/ r.policy = "continue"

\* ShellActionRunner.run: what it does when the command ends with this outcome
\* ("fails" is an exit code or the timeout).
RunRaises(r, outcome) == r.blocked \/ (outcome = "fails" /\ ~continue_on_failure(r))

\* RuleLoader.load: no file, no rules.
Loaded(file) == IF file = None THEN <<>> ELSE file

\* Everything after dispatch: _dispatch_event and the CLI's start log the
\* exception and go on.
WorkAfter(raised) ==
  hooking' = [hooking EXCEPT !.at = "work", !.raised = raised]

\* HookService.dispatch
dispatch(event) ==
  /\ hooking.at # "rules"
  /\ IF rules = None /\ hooks = Broken
     THEN /\ hooking' = [NotHooking EXCEPT !.at = "work", !.event = event, !.raised = TRUE]
          /\ UNCHANGED rules
     ELSE /\ rules' = IF rules = None THEN Loaded(hooks) ELSE rules
          /\ hooking' = [NotHooking EXCEPT !.at = "rules", !.event = event]
  /\ UNCHANGED hooks

AtRule == hooking.at = "rules" /\ hooking.rule <= Len(rules)
TheRule == rules[hooking.rule]

\* The rules are through.
DispatchEnds ==
  /\ hooking.at = "rules" /\ hooking.rule > Len(rules)
  /\ WorkAfter(FALSE)
  /\ UNCHANGED <<hooks, rules>>

\* is_satisfied_by
SkipRule ==
  /\ AtRule /\ hooking.event \notin TheRule.on
  /\ hooking' = [hooking EXCEPT !.rule = @ + 1]
  /\ UNCHANGED <<hooks, rules>>

\* _run_with_policy, one run of the action.
RunAction ==
  /\ AtRule /\ hooking.event \in TheRule.on
  /\ \E outcome \in {"ok", "fails"} :
       IF RunRaises(TheRule, outcome) /\ TheRule.policy # "continue"
       THEN IF TheRule.policy = "retry" /\ hooking.tries + 1 < RetryAttempts
            THEN hooking' = [hooking EXCEPT !.tries = @ + 1]
            ELSE WorkAfter(TRUE)
       ELSE hooking' = [hooking EXCEPT !.rule = @ + 1, !.tries = 0]
  /\ UNCHANGED <<hooks, rules>>

\* The file is edited, while a process runs or not.
EditHooks ==
  /\ hooks' \in HookFiles \cup {None, Broken}
  /\ UNCHANGED <<rules, hooking>>

\* The process ends, and another starts.
CommandEnds ==
  /\ rules' = None /\ hooking' = NotHooking
  /\ UNCHANGED hooks

DispatchNext ==
  \/ \E event \in HookEvents : dispatch(event)
  \/ DispatchEnds \/ SkipRule \/ RunAction \/ EditHooks \/ CommandEnds

DispatchSpec == DispatchInit /\ [][DispatchNext]_hookVars

-----------------------------------------------------------------------------
(* Properties *)

\* "critical: If True, failure aborts the workflow" (actions.py): a command does
\* not go on after a hook that aborted.  It always does.
CriticalAborts == hooking.at = "work" => ~hooking.raised

=============================================================================
