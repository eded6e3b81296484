-------------------------------- MODULE Fpel --------------------------------
(***************************************************************************)
(* The Frozen Proposal Evidence Loop: FPELAuthorizationService over the    *)
(* tables frozen_proposals, sealed_verdicts, fpel_proposal_failures and    *)
(* fpel_checker_reports.                                                   *)
(*                                                                         *)
(* The service holds no lock and no transaction across calls: each         *)
(* repository call opens the database, runs and commits, so an operation   *)
(* is one step per call and any other process may run between two of them. *)
(* A content hash stands for the canonical content it is computed from.    *)
(* fpel_status is left out: the only value ever saved in it is             *)
(* NOT_EVALUATED, and its readers ask only whether it is TERMINAL_FAIL.    *)
(***************************************************************************)
CONSTANTS
  Procs,       \* processes that call the service
  Targets,     \* tasks and workflow sessions
  Proposals,   \* frozen_proposal_ids (uuid4, never reused)
  Hashes,      \* content hashes
  Checkers,    \* checker_ids
  None         \* SQL NULL / Python None

ASSUME FpelNoneAssumption ==
  /\ None \notin Targets
  /\ None \notin Proposals
  /\ None \notin Hashes
  /\ None \notin {"PASS", "FAIL"}

VARIABLES
  frozen,    \* frozen_proposals, one row per id, NoProposal until inserted
  sealed,    \* sealed_verdicts by proposal, None when there is none
  failed,    \* proposals with a row in fpel_proposal_failures
  reports,   \* reports[q][c]: the verdict of checker c on proposal q
  fop        \* the operation each process is in the middle of

fpelVars == <<frozen, sealed, failed, reports, fop>>

-----------------------------------------------------------------------------
(* Rows and operations *)

FrozenProposal ==
  [target : Targets, content_hash : Hashes, lifecycle : {"ACTIVE", "SUPERSEDED"}]
NoProposal == [target |-> None, content_hash |-> None, lifecycle |-> "ABSENT"]

SealedVerdict == [content_hash : Hashes, source : {"CHECKERS", "LEGACY_APPROVED"}]

Verdicts == {"PASS", "FAIL"}

\* Where an operation is: the repository call it makes next, or the answer.
FpelSteps ==
  {"idle", "freeze_save", "fail_save",
   "seal_failed", "seal_sealed", "seal_hash", "seal_checkers", "seal_reports",
   "seal_save", "check_failed", "check_sealed", "check_drift",
   "allowed", "denied", "snap_list", "snap_save"}

\* stopped and rejected are history: when the operation began, its proposal
\* had been failed; a checker had answered FAIL on it (kept for seal).
FpelOperation ==
  [at       : FpelSteps,
   target   : Targets \cup {None},
   hash     : Hashes \cup {None},
   proposal : Proposals \cup {None},
   ids      : SUBSET Proposals,
   checkers : SUBSET Checkers,
   stopped  : BOOLEAN,
   rejected : BOOLEAN]

FpelIdle ==
  [at |-> "idle", target |-> None, hash |-> None, proposal |-> None,
   ids |-> {}, checkers |-> {}, stopped |-> FALSE, rejected |-> FALSE]

\* The type invariant.
FpelTypeOK ==
  /\ frozen \in [Proposals -> FrozenProposal \cup {NoProposal}]
  /\ sealed \in [Proposals -> SealedVerdict \cup {None}]
  /\ failed \in SUBSET Proposals
  /\ reports \in [Proposals -> [Checkers -> Verdicts \cup {None}]]
  /\ fop \in [Procs -> FpelOperation]

FpelInit ==
  /\ frozen = [q \in Proposals |-> NoProposal]
  /\ sealed = [q \in Proposals |-> None]
  /\ failed = {}
  /\ reports = [q \in Proposals |-> [c \in Checkers |-> None]]
  /\ fop = [p \in Procs |-> FpelIdle]

-----------------------------------------------------------------------------
(* Queries *)

\* get_active_frozen_proposal; the index leaves at most one.
Active(t) == {q \in Proposals : frozen[q].target = t /\ frozen[q].lifecycle = "ACTIVE"}

\* get_checkers_for: a checker is registered by having reported on the
\* proposal that is active now.
get_checkers_for(t) ==
  {c \in Checkers : \E q \in Active(t) : reports[q][c] # None}

Rejects(q) == {c \in Checkers : reports[q][c] = "FAIL"}

\* Mutant: a proposal nobody has reported on passes every check.
AllPassed(q, cs) == \A c \in cs : reports[q][c] = "PASS"

\* Mutant: one PASS is enough.
SomePassed(q, cs) == \E c \in cs : reports[q][c] = "PASS"

\* Every registered checker has a PASS on the proposal, and there is one.
ChecksPass(q, cs) == cs # {} /\ \A c \in cs : reports[q][c] = "PASS"

\* detect_scope_change
ScopeChanged(h, current) == h # current

Goto(p, step) == fop' = [fop EXCEPT ![p].at = step]
Return(p) == fop' = [fop EXCEPT ![p] = FpelIdle]
Deny(p) == fop' = [fop EXCEPT ![p] = [FpelIdle EXCEPT !.at = "denied"]]
UnchangedTables == UNCHANGED <<frozen, sealed, failed, reports>>

-----------------------------------------------------------------------------
(* freeze: list the active proposals, then supersede them and insert the   *)
(* new one in one transaction, which the unique index may refuse.          *)

FreezeRead(p, t, h) ==
  /\ fop[p].at = "idle"
  /\ fop' = [fop EXCEPT ![p] = [FpelIdle EXCEPT !.at = "freeze_save", !.target = t,
                                                !.hash = h, !.ids = Active(t)]]
  /\ UnchangedTables

\* Mutant: the table as migration 033 left it, without the index of 034.
NoIndex(t, ids) == TRUE

\* The index idx_one_active_proposal_per_target accepts an insertion.
IndexAccepts(t, ids) == Active(t) \subseteq ids

Supersede(ids, q, t, h) ==
  [r \in Proposals |->
     IF r = q THEN [target |-> t, content_hash |-> h, lifecycle |-> "ACTIVE"]
     ELSE IF r \in ids THEN [frozen[r] EXCEPT !.lifecycle = "SUPERSEDED"]
     ELSE frozen[r]]

Fresh(q) == frozen[q] = NoProposal

FreezeSave(p, q) ==
  /\ fop[p].at = "freeze_save"
  /\ Fresh(q)
  /\ IndexAccepts(fop[p].target, fop[p].ids)
  /\ frozen' = Supersede(fop[p].ids, q, fop[p].target, fop[p].hash)
  /\ Return(p)
  /\ UNCHANGED <<sealed, failed, reports>>

-----------------------------------------------------------------------------
(* mark_fail *)

FailRead(p, t) ==
  /\ fop[p].at = "idle"
  /\ \E q \in Active(t) :
       fop' = [fop EXCEPT ![p] = [FpelIdle EXCEPT !.at = "fail_save", !.target = t,
                                                  !.proposal = q]]
  /\ UnchangedTables

\* INSERT OR IGNORE
FailSave(p) ==
  /\ fop[p].at = "fail_save"
  /\ failed' = failed \cup {fop[p].proposal}
  /\ Return(p)
  /\ UNCHANGED <<frozen, sealed, reports>>

-----------------------------------------------------------------------------
(* seal: seven calls.  Every early return leaves the tables alone.         *)

Begin(p, t, h, q, step) ==
  /\ fop[p].at = "idle"
  /\ fop' = [fop EXCEPT ![p] = [FpelIdle EXCEPT !.at = step, !.target = t, !.hash = h,
                                                !.proposal = q,
                                                !.stopped = q \in failed,
                                                !.rejected = step = "seal_failed" /\ Rejects(q) # {}]]
  /\ UnchangedTables

SealRead(p, t) == \E q \in Active(t) : Begin(p, t, None, q, "seal_failed")

\* Mutant: the FAIL guard is left out.
SealIgnoresFail(p) ==
  /\ fop[p].at = "seal_failed"
  /\ Goto(p, "seal_sealed")
  /\ UnchangedTables

SealFailed(p) ==
  /\ fop[p].at = "seal_failed"
  /\ IF fop[p].proposal \in failed THEN Return(p) ELSE Goto(p, "seal_sealed")
  /\ UnchangedTables

SealSealed(p) ==
  /\ fop[p].at = "seal_sealed"
  /\ IF sealed[fop[p].proposal] # None THEN Return(p) ELSE Goto(p, "seal_hash")
  /\ UnchangedTables

\* The current hash is that of the proposal that is active now.
SealHash(p) ==
  /\ fop[p].at = "seal_hash"
  /\ IF \E q \in Active(fop[p].target) :
          ScopeChanged(frozen[fop[p].proposal].content_hash, frozen[q].content_hash)
     THEN Return(p)
     ELSE Goto(p, "seal_checkers")
  /\ UnchangedTables

SealCheckers(p) ==
  /\ fop[p].at = "seal_checkers"
  /\ fop' = [fop EXCEPT ![p].at = "seal_reports",
                        ![p].checkers = get_checkers_for(fop[p].target)]
  /\ UnchangedTables

SealReports(p) ==
  /\ fop[p].at = "seal_reports"
  /\ IF ChecksPass(fop[p].proposal, fop[p].checkers)
     THEN Goto(p, "seal_save") ELSE Return(p)
  /\ UnchangedTables

\* The primary key refuses a second verdict; the error ends the operation.
SealSave(p) ==
  /\ fop[p].at = "seal_save"
  /\ LET q == fop[p].proposal
     IN  sealed' = IF sealed[q] # None THEN sealed
                   ELSE [sealed EXCEPT ![q] = [content_hash |-> frozen[q].content_hash,
                                               source |-> "CHECKERS"]]
  /\ Return(p)
  /\ UNCHANGED <<frozen, failed, reports>>

-----------------------------------------------------------------------------
(* check_sealed: h is the current_hash argument, None when it is omitted.   *)

CheckRead(p, t, h) ==
  \/ \E q \in Active(t) : Begin(p, t, h, q, "check_failed")
  \/ /\ Active(t) = {}
     /\ fop[p].at = "idle"
     /\ Deny(p)
     /\ UnchangedTables

CheckFailed(p) ==
  /\ fop[p].at = "check_failed"
  /\ IF fop[p].proposal \in failed THEN Deny(p) ELSE Goto(p, "check_sealed")
  /\ UnchangedTables

CheckSealed(p) ==
  /\ fop[p].at = "check_sealed"
  /\ IF sealed[fop[p].proposal] = None THEN Deny(p) ELSE Goto(p, "check_drift")
  /\ UnchangedTables

\* Mutant: the hash the caller computed is not compared.
DriftIgnoresCaller(o) == FALSE

\* Without a current_hash the active proposal is compared with the verdict.
Drifted(o) ==
  LET verdict == sealed[o.proposal].content_hash
  IN  IF o.hash # None THEN ScopeChanged(verdict, o.hash)
      ELSE \E q \in Active(o.target) : ScopeChanged(verdict, frozen[q].content_hash)

CheckDrift(p) ==
  /\ fop[p].at = "check_drift"
  /\ IF Drifted(fop[p]) THEN Deny(p) ELSE Goto(p, "allowed")
  /\ UnchangedTables

\* The caller has its decision.
CheckReturn(p) ==
  /\ fop[p].at \in {"allowed", "denied"}
  /\ Return(p)
  /\ UnchangedTables

-----------------------------------------------------------------------------
(* snapshot_legacy: refused or answered from the table when a proposal is   *)
(* active; otherwise freeze and seal in one transaction, no checker asked.  *)

SnapshotRead(p, t, h) ==
  /\ fop[p].at = "idle"
  /\ Active(t) = {}
  /\ fop' = [fop EXCEPT ![p] = [FpelIdle EXCEPT !.at = "snap_list", !.target = t, !.hash = h]]
  /\ UnchangedTables

SnapshotList(p) ==
  /\ fop[p].at = "snap_list"
  /\ fop' = [fop EXCEPT ![p] = [fop[p] EXCEPT !.at = "snap_save", !.ids = Active(fop[p].target)]]
  /\ UnchangedTables

SnapshotSave(p, q) ==
  /\ fop[p].at = "snap_save"
  /\ Fresh(q)
  /\ IndexAccepts(fop[p].target, fop[p].ids)
  /\ frozen' = Supersede(fop[p].ids, q, fop[p].target, fop[p].hash)
  /\ sealed' = [sealed EXCEPT ![q] = [content_hash |-> fop[p].hash,
                                      source |-> "LEGACY_APPROVED"]]
  /\ Return(p)
  /\ UNCHANGED <<failed, reports>>

-----------------------------------------------------------------------------
(* The environment *)

\* The index or the primary key refuses the transaction, or the process dies:
\* the operation ends and the tables are as they were.
FpelAbort(p) ==
  /\ fop[p].at # "idle"
  /\ Return(p)
  /\ UnchangedTables

\* A checker inserts its one report on a proposal.
Report(q, c, v) ==
  /\ ~Fresh(q)
  /\ reports[q][c] = None
  /\ reports' = [reports EXCEPT ![q][c] = v]
  /\ UNCHANGED <<frozen, sealed, failed, fop>>

\* The steps of an operation of process p once it has begun.
FpelStep(p) ==
  \/ \E q \in Proposals : FreezeSave(p, q) \/ SnapshotSave(p, q)
  \/ FailSave(p)
  \/ SealFailed(p) \/ SealSealed(p) \/ SealHash(p) \/ SealCheckers(p)
  \/ SealReports(p) \/ SealSave(p)
  \/ CheckFailed(p) \/ CheckSealed(p) \/ CheckDrift(p)
  \/ SnapshotList(p)

\* The commands of the fpel command line and the checkers.
FpelCommand(p) ==
  \E t \in Targets :
    \/ FailRead(p, t) \/ SealRead(p, t)
    \/ \E h \in Hashes : FreezeRead(p, t, h) \/ SnapshotRead(p, t, h)

FpelReport == \E q \in Proposals, c \in Checkers, v \in Verdicts : Report(q, c, v)

FpelNext ==
  \/ \E p \in Procs :
       \/ FpelStep(p) \/ FpelCommand(p) \/ CheckReturn(p) \/ FpelAbort(p)
       \/ \E t \in Targets, h \in Hashes \cup {None} : CheckRead(p, t, h)
  \/ FpelReport

FpelSpec == FpelInit /\ [][FpelNext]_fpelVars

-----------------------------------------------------------------------------
(* Properties *)

\* However freezes, snapshots and reads interleave, a target has at most one
\* active proposal, so get_active_frozen_proposal is never ambiguous.
OneActivePerTarget ==
  \A q, r \in Proposals :
    /\ frozen[q].lifecycle = "ACTIVE"
    /\ frozen[r].lifecycle = "ACTIVE"
    /\ frozen[q].target = frozen[r].target
    => q = r

\* A verdict is one on the content its proposal froze, and unless it is a
\* legacy snapshot it rests on evidence: a checker has passed that very
\* proposal, although seal reads the active proposal's checkers and the
\* reports of the proposal it read first in separate calls.
SealsAreEarned ==
  \A q \in Proposals :
    sealed[q] # None =>
      /\ sealed[q].content_hash = frozen[q].content_hash
      /\ sealed[q].source = "CHECKERS" => \E c \in Checkers : reports[q][c] = "PASS"

\* A checker's FAIL that seal could have seen is never overridden: while a
\* proposal stays active, seal does not pass it over a FAIL that was on
\* record when the call began.
SealHeedsRejection ==
  [][\A p \in Procs :
       LET q == fop[p].proposal
       IN  /\ fop[p].at = "seal_save" /\ sealed' # sealed
           /\ frozen[q].lifecycle = "ACTIVE"
           /\ sealed[q] # sealed'[q]
           => ~fop[p].rejected]_fpelVars

\* mark_fail is an emergency stop: no seal and no check_sealed that begins
\* after a proposal was failed passes or authorises that proposal.
FailIsFinal ==
  \A p \in Procs :
    fop[p].at \in {"seal_save", "allowed"} => ~fop[p].stopped

\* A decision that allows is backed by a verdict for the caller's own content
\* on a proposal of the caller's own target.
DecisionIsBacked ==
  \A p \in Procs :
    fop[p].at = "allowed" =>
      LET q == fop[p].proposal
      IN  /\ sealed[q] # None
          /\ frozen[q].target = fop[p].target
          /\ fop[p].hash # None => sealed[q].content_hash = fop[p].hash

\* snapshot_legacy "raises ValueError if target has a failed proposal": the
\* proposals a snapshot supersedes have not been failed.
LegacyNeverOverFail ==
  [][\A q \in Proposals :
       /\ sealed[q] = None /\ sealed'[q] # None
       /\ sealed'[q].source = "LEGACY_APPROVED"
       => \A r \in Active(frozen'[q].target) : r \notin failed]_fpelVars

=============================================================================
