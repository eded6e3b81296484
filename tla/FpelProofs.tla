----------------------------- MODULE FpelProofs -----------------------------
(***************************************************************************)
(* Proofs about Fpel, for any number of processes, targets, proposals,     *)
(* contents and checkers.                                                  *)
(*                                                                         *)
(* The tables only grow (TablesGrow): a proposal keeps its target, never   *)
(* becomes active again, and its verdict, its failure and its reports stay *)
(* once written.  So what an operation has read stays true while it holds  *)
(* it (FopOK), which is what makes a sequence of separate reads safe.      *)
(***************************************************************************)
EXTENDS Fpel, TLAPS

SealSteps ==
  {"seal_failed", "seal_sealed", "seal_hash", "seal_checkers", "seal_reports", "seal_save"}
CheckSteps == {"check_failed", "check_sealed", "check_drift", "allowed"}

\* What process p knows from the reads it has made.
FopOK(p) ==
  LET o == fop[p]
      q == fop[p].proposal
  IN  /\ o.at \in {"freeze_save", "snap_list", "snap_save"} =>
           /\ o.target \in Targets /\ o.hash \in Hashes
           /\ \A r \in o.ids : frozen[r] # NoProposal
      /\ o.at = "fail_save" => q \in Proposals
      /\ o.at \in SealSteps \cup CheckSteps =>
           /\ q \in Proposals /\ frozen[q] # NoProposal /\ frozen[q].target = o.target
           /\ o.stopped => q \in failed
           /\ o.rejected => \E c \in Checkers : reports[q][c] = "FAIL"
      /\ o.at \in (SealSteps \cup CheckSteps) \ {"seal_failed", "check_failed"} => ~o.stopped
      /\ o.at = "seal_reports" /\ o.rejected /\ frozen[q].lifecycle = "ACTIVE" =>
           \E c \in o.checkers : reports[q][c] = "FAIL"
      /\ o.at = "seal_save" =>
           /\ \E c \in Checkers : reports[q][c] = "PASS"
           /\ o.rejected => frozen[q].lifecycle # "ACTIVE"
      /\ o.at \in {"check_drift", "allowed"} => sealed[q] # None
      /\ o.at = "allowed" /\ o.hash # None => sealed[q].content_hash = o.hash

FpelInv ==
  /\ FpelTypeOK
  /\ OneActivePerTarget
  /\ SealsAreEarned
  /\ \A p \in Procs : FopOK(p)

\* What a step may do to the tables.
TablesGrow ==
  /\ \A q \in Proposals :
       frozen[q] # NoProposal =>
         /\ frozen'[q] # NoProposal
         /\ frozen'[q].target = frozen[q].target
         /\ frozen'[q].content_hash = frozen[q].content_hash
         /\ frozen'[q].lifecycle = "ACTIVE" => frozen[q].lifecycle = "ACTIVE"
         /\ sealed[q] # None => sealed'[q] = sealed[q]
  /\ failed \subseteq failed'
  /\ \A q \in Proposals, c \in Checkers :
       reports[q][c] # None => reports'[q][c] = reports[q][c]

\* The invariant implies the two properties about decisions.
LEMMA FpelInvImplies ==
  ASSUME FpelInv
  PROVE  FailIsFinal /\ DecisionIsBacked
  BY DEF FpelInv, FopOK, FailIsFinal, DecisionIsBacked, SealSteps, CheckSteps

\* None is no verdict.
LEMMA NoneFacts == None # "PASS" /\ None # "FAIL"
  BY FpelNoneAssumption

\* What a process knows survives a step of another.
LEMMA KnowledgeKept ==
  ASSUME FpelInv, TablesGrow, NEW p \in Procs, fop'[p] = fop[p]
  PROVE  FopOK(p)'
<1>1. /\ fop[p] \in FpelOperation /\ FopOK(p)
      /\ reports \in [Proposals -> [Checkers -> Verdicts \cup {None}]]
  BY DEF FpelInv, FpelTypeOK
<1>2. fop[p].ids \subseteq Proposals /\ fop[p].checkers \subseteq Checkers
  BY <1>1 DEF FpelOperation
<1> DEFINE q == fop[p].proposal
<1>3. ASSUME NEW c \in Checkers, NEW v \in {"PASS", "FAIL"}, q \in Proposals, reports[q][c] = v
      PROVE  reports'[q][c] = v
  BY <1>3, NoneFacts DEF TablesGrow
<1>4. q \in Proposals /\ frozen[q] # NoProposal =>
        /\ frozen'[q] # NoProposal
        /\ frozen'[q].target = frozen[q].target
        /\ frozen'[q].lifecycle = "ACTIVE" => frozen[q].lifecycle = "ACTIVE"
        /\ sealed[q] # None => sealed'[q] = sealed[q]
        /\ q \in failed => q \in failed'
  BY DEF TablesGrow
<1>5. \A r \in fop[p].ids : frozen[r] # NoProposal => frozen'[r] # NoProposal
  BY <1>2 DEF TablesGrow
<1> QED
  BY <1>1, <1>2, <1>3, <1>4, <1>5 DEF FopOK, SealSteps, CheckSteps

\* FALSE is no string, None no verdict: the record facts used below.
LEMMA IdleFacts ==
  /\ FpelIdle \in FpelOperation
  /\ FpelIdle.at = "idle"
  BY DEF FpelIdle, FpelOperation, FpelSteps

\* A process that returns forgets what it knew.
LEMMA ReturnOK ==
  ASSUME FpelTypeOK, NEW p \in Procs, Return(p)
  PROVE  /\ fop' \in [Procs -> FpelOperation]
         /\ fop'[p].at = "idle"
         /\ FopOK(p)'
         /\ \A r \in Procs \ {p} : fop'[r] = fop[r]
<1>1. fop' \in [Procs -> FpelOperation] /\ fop'[p] = FpelIdle
  BY IdleFacts DEF Return, FpelTypeOK
<1>2. fop'[p].at = "idle"
  BY <1>1, IdleFacts
<1>3. FopOK(p)'
  BY <1>2 DEF FopOK, SealSteps, CheckSteps
<1> QED
  BY <1>1, <1>2, <1>3 DEF Return, FpelTypeOK

\* A process that goes on to its next call keeps everything but its place.
LEMMA GotoOK ==
  ASSUME FpelTypeOK, NEW p \in Procs, NEW step \in FpelSteps, Goto(p, step)
  PROVE  /\ fop' \in [Procs -> FpelOperation]
         /\ fop'[p].at = step
         /\ fop'[p].target = fop[p].target /\ fop'[p].hash = fop[p].hash
         /\ fop'[p].proposal = fop[p].proposal /\ fop'[p].ids = fop[p].ids
         /\ fop'[p].checkers = fop[p].checkers
         /\ fop'[p].stopped = fop[p].stopped /\ fop'[p].rejected = fop[p].rejected
         /\ \A r \in Procs \ {p} : fop'[r] = fop[r]
  BY DEF Goto, FpelTypeOK, FpelOperation

\* Steps that leave the tables alone.
LEMMA QuietStep ==
  ASSUME FpelInv, UnchangedTables, NEW p \in Procs,
         fop' \in [Procs -> FpelOperation], FopOK(p)',
         \A r \in Procs \ {p} : fop'[r] = fop[r]
  PROVE  FpelInv' /\ TablesGrow
<1>1. TablesGrow
  BY DEF UnchangedTables, TablesGrow
<1>2. \A r \in Procs : FopOK(r)'
  BY <1>1, KnowledgeKept
<1> QED
  BY <1>1, <1>2 DEF FpelInv, UnchangedTables, FpelTypeOK, OneActivePerTarget, SealsAreEarned

\* Steps that change the tables and end their operation.
LEMMA WritingStep ==
  ASSUME FpelInv, TablesGrow, NEW p \in Procs, Return(p),
         frozen' \in [Proposals -> FrozenProposal \cup {NoProposal}],
         sealed' \in [Proposals -> SealedVerdict \cup {None}],
         failed' \in SUBSET Proposals,
         reports' \in [Proposals -> [Checkers -> Verdicts \cup {None}]],
         OneActivePerTarget', SealsAreEarned'
  PROVE  FpelInv'
<1>1. /\ fop' \in [Procs -> FpelOperation] /\ FopOK(p)'
      /\ \A r \in Procs \ {p} : fop'[r] = fop[r]
  BY ReturnOK DEF FpelInv
<1>2. \A r \in Procs : FopOK(r)'
  BY <1>1, KnowledgeKept
<1> QED
  BY <1>1, <1>2 DEF FpelInv, FpelTypeOK

\* seal and check_sealed begin with the active proposal.
LEMMA BeginOK ==
  ASSUME FpelInv, NEW p \in Procs, NEW t \in Targets, NEW h \in Hashes \cup {None},
         NEW q \in Active(t), NEW step \in {"seal_failed", "check_failed"},
         Begin(p, t, h, q, step)
  PROVE  FpelInv' /\ TablesGrow
<1> DEFINE st == q \in failed
           rj == step = "seal_failed" /\ Rejects(q) # {}
           o == [FpelIdle EXCEPT !.at = step, !.target = t, !.hash = h, !.proposal = q,
                                 !.stopped = st, !.rejected = rj]
<1>1. fop' = [fop EXCEPT ![p] = o] /\ UnchangedTables
  BY DEF Begin
<1>0. st \in BOOLEAN /\ rj \in BOOLEAN /\ q \in Proposals
  BY DEF Active
<1> HIDE DEF st, rj
<1>2. /\ o \in FpelOperation
      /\ o.at = step /\ o.target = t /\ o.hash = h /\ o.proposal = q
      /\ o.stopped = st /\ o.rejected = rj
  BY <1>0 DEF FpelIdle, FpelOperation, FpelSteps
<1> HIDE DEF o
<1>3. fop' \in [Procs -> FpelOperation] /\ fop'[p] = o /\ \A r \in Procs \ {p} : fop'[r] = fop[r]
  BY <1>1, <1>2 DEF FpelInv, FpelTypeOK
<1>4. q \in Proposals /\ frozen[q] # NoProposal /\ frozen[q].target = t
  BY FpelNoneAssumption DEF Active, NoProposal
<1>5. /\ rj => \E c \in Checkers : reports[q][c] = "FAIL"
      /\ st => q \in failed
  BY DEF Rejects, st, rj
<1>6. frozen' = frozen /\ failed' = failed /\ reports' = reports /\ sealed' = sealed
  BY <1>1 DEF UnchangedTables
<1>7. FopOK(p)'
  BY <1>2, <1>3, <1>4, <1>5, <1>6 DEF FopOK, SealSteps, CheckSteps
<1> QED
  BY <1>1, <1>3, <1>7, QuietStep

\* The other first reads.
LEMMA FirstReadOK ==
  ASSUME FpelInv, UnchangedTables, NEW p \in Procs, NEW o \in FpelOperation,
         fop' = [fop EXCEPT ![p] = o],
         o.at \in {"freeze_save", "snap_list", "fail_save", "denied"},
         o.at \in {"freeze_save", "snap_list"} =>
           /\ o.target \in Targets /\ o.hash \in Hashes
           /\ \A r \in o.ids : frozen[r] # NoProposal,
         o.at = "fail_save" => o.proposal \in Proposals
  PROVE  FpelInv' /\ TablesGrow
<1>1. fop' \in [Procs -> FpelOperation] /\ fop'[p] = o /\ \A r \in Procs \ {p} : fop'[r] = fop[r]
  BY DEF FpelInv, FpelTypeOK
<1>2. frozen' = frozen
  BY DEF UnchangedTables
<1>3. FopOK(p)'
  BY <1>1, <1>2 DEF FopOK, SealSteps, CheckSteps
<1> QED
  BY <1>1, <1>3, QuietStep

\* check_sealed answers no; only the answer is kept.
LEMMA DenyOK ==
  ASSUME FpelInv, UnchangedTables, NEW p \in Procs, Deny(p)
  PROVE  FpelInv' /\ TablesGrow
<1> DEFINE o == [FpelIdle EXCEPT !.at = "denied"]
<1>1. o \in FpelOperation /\ o.at = "denied"
  BY IdleFacts DEF FpelIdle, FpelOperation, FpelSteps
<1>2. fop' = [fop EXCEPT ![p] = o]
  BY DEF Deny
<1> HIDE DEF o
<1> QED
  BY <1>1, <1>2, FirstReadOK

\* The reads of seal.
LEMMA SealReadsOK ==
  ASSUME FpelInv, NEW p \in Procs,
         \/ SealFailed(p) \/ SealSealed(p) \/ SealHash(p) \/ SealCheckers(p) \/ SealReports(p)
  PROVE  FpelInv' /\ TablesGrow
<1>0. FpelTypeOK /\ FopOK(p) /\ fop[p].at \in SealSteps /\ UnchangedTables
  BY DEF FpelInv, SealFailed, SealSealed, SealHash, SealCheckers, SealReports, SealSteps
<1>u. frozen' = frozen /\ failed' = failed /\ reports' = reports /\ sealed' = sealed
  BY <1>0 DEF UnchangedTables
<1>1. CASE Return(p)
  BY <1>0, <1>1, ReturnOK, QuietStep
<1>2. CASE /\ Goto(p, "seal_sealed") /\ fop[p].at = "seal_failed"
           /\ fop[p].proposal \notin failed
  <2>1. FopOK(p)'
    BY <1>0, <1>u, <1>2, GotoOK DEF FopOK, SealSteps, CheckSteps, FpelSteps
  <2> QED
    BY <1>0, <1>2, <2>1, GotoOK, QuietStep DEF FpelSteps
<1>3. CASE Goto(p, "seal_hash") /\ fop[p].at = "seal_sealed"
  <2>1. FopOK(p)'
    BY <1>0, <1>u, <1>3, GotoOK DEF FopOK, SealSteps, CheckSteps, FpelSteps
  <2> QED
    BY <1>0, <1>3, <2>1, GotoOK, QuietStep DEF FpelSteps
<1>4. CASE Goto(p, "seal_checkers") /\ fop[p].at = "seal_hash"
  <2>1. FopOK(p)'
    BY <1>0, <1>u, <1>4, GotoOK DEF FopOK, SealSteps, CheckSteps, FpelSteps
  <2> QED
    BY <1>0, <1>4, <2>1, GotoOK, QuietStep DEF FpelSteps
<1>5. CASE SealCheckers(p)
  <2> DEFINE o == fop[p]
             cs == get_checkers_for(o.target)
  <2>1. cs \subseteq Checkers
    BY DEF get_checkers_for
  <2>2. fop' = [fop EXCEPT ![p].at = "seal_reports", ![p].checkers = cs]
    BY <1>5 DEF SealCheckers
  <2>3. /\ fop' \in [Procs -> FpelOperation]
        /\ fop'[p].at = "seal_reports" /\ fop'[p].checkers = cs
        /\ fop'[p].target = o.target /\ fop'[p].hash = o.hash /\ fop'[p].ids = o.ids
        /\ fop'[p].proposal = o.proposal
        /\ fop'[p].stopped = o.stopped /\ fop'[p].rejected = o.rejected
        /\ \A r \in Procs \ {p} : fop'[r] = fop[r]
    BY <1>0, <2>1, <2>2 DEF FpelTypeOK, FpelOperation, FpelSteps
  <2>4. /\ o.at = "seal_checkers" /\ o.proposal \in Proposals
        /\ frozen[o.proposal].target = o.target
        /\ o.rejected => \E c \in Checkers : reports[o.proposal][c] = "FAIL"
    BY <1>0, <1>5 DEF SealCheckers, FopOK, SealSteps
  <2>5. ASSUME o.rejected, frozen[o.proposal].lifecycle = "ACTIVE"
        PROVE  \E c \in cs : reports[o.proposal][c] = "FAIL"
    <3>1. PICK c \in Checkers : reports[o.proposal][c] = "FAIL"
      BY <2>4, <2>5
    <3>2. o.proposal \in Active(o.target)
      BY <2>4, <2>5 DEF Active
    <3>3. c \in cs
      BY <3>1, <3>2, NoneFacts DEF get_checkers_for
    <3> QED
      BY <3>1, <3>3
  <2> HIDE DEF cs
  <2>6. FopOK(p)'
    BY <1>0, <1>u, <2>3, <2>4, <2>5 DEF FopOK, SealSteps, CheckSteps
  <2> QED
    BY <1>0, <2>3, <2>6, QuietStep
<1>6. CASE /\ Goto(p, "seal_save") /\ fop[p].at = "seal_reports"
           /\ ChecksPass(fop[p].proposal, fop[p].checkers)
  <2>1. fop[p].checkers \subseteq Checkers
    BY <1>0 DEF FpelTypeOK, FpelOperation
  <2>2. \E c \in Checkers : reports[fop[p].proposal][c] = "PASS"
    BY <1>6, <2>1 DEF ChecksPass
  <2>3. fop[p].rejected => frozen[fop[p].proposal].lifecycle # "ACTIVE"
    BY <1>0, <1>6 DEF ChecksPass, FopOK
  <2>4. FopOK(p)'
    BY <1>0, <1>u, <1>6, <2>2, <2>3, GotoOK DEF FopOK, SealSteps, CheckSteps, FpelSteps
  <2> QED
    BY <1>0, <1>6, <2>4, GotoOK, QuietStep DEF FpelSteps
<1> QED
  BY <1>1, <1>2, <1>3, <1>4, <1>5, <1>6
     DEF SealFailed, SealSealed, SealHash, SealReports

\* The reads of check_sealed.
LEMMA CheckReadsOK ==
  ASSUME FpelInv, NEW p \in Procs, CheckFailed(p) \/ CheckSealed(p) \/ CheckDrift(p)
  PROVE  FpelInv' /\ TablesGrow
<1>0. FpelTypeOK /\ FopOK(p) /\ fop[p].at \in CheckSteps /\ UnchangedTables
  BY DEF FpelInv, CheckFailed, CheckSealed, CheckDrift, CheckSteps
<1>u. frozen' = frozen /\ failed' = failed /\ reports' = reports /\ sealed' = sealed
  BY <1>0 DEF UnchangedTables
<1>1. CASE Deny(p)
  BY <1>0, <1>1, DenyOK
<1>2. CASE /\ Goto(p, "check_sealed") /\ fop[p].at = "check_failed"
           /\ fop[p].proposal \notin failed
  <2>1. FopOK(p)'
    BY <1>0, <1>u, <1>2, GotoOK DEF FopOK, SealSteps, CheckSteps, FpelSteps
  <2> QED
    BY <1>0, <1>2, <2>1, GotoOK, QuietStep DEF FpelSteps
<1>3. CASE /\ Goto(p, "check_drift") /\ fop[p].at = "check_sealed"
           /\ sealed[fop[p].proposal] # None
  <2>1. FopOK(p)'
    BY <1>0, <1>u, <1>3, GotoOK DEF FopOK, SealSteps, CheckSteps, FpelSteps
  <2> QED
    BY <1>0, <1>3, <2>1, GotoOK, QuietStep DEF FpelSteps
<1>4. CASE Goto(p, "allowed") /\ fop[p].at = "check_drift" /\ ~Drifted(fop[p])
  <2>1. fop[p].hash # None => sealed[fop[p].proposal].content_hash = fop[p].hash
    BY <1>4 DEF Drifted, ScopeChanged
  <2>2. FopOK(p)'
    BY <1>0, <1>u, <1>4, <2>1, GotoOK DEF FopOK, SealSteps, CheckSteps, FpelSteps
  <2> QED
    BY <1>0, <1>4, <2>2, GotoOK, QuietStep DEF FpelSteps
<1> QED
  BY <1>1, <1>2, <1>3, <1>4 DEF CheckFailed, CheckSealed, CheckDrift

\* A new proposal, with the ones the operation listed superseded.
LEMMA SupersedeOK ==
  ASSUME FpelInv, NEW p \in Procs, NEW q \in Proposals, Fresh(q),
         fop[p].at \in {"freeze_save", "snap_save"},
         IndexAccepts(fop[p].target, fop[p].ids),
         frozen' = Supersede(fop[p].ids, q, fop[p].target, fop[p].hash)
  PROVE  /\ frozen' \in [Proposals -> FrozenProposal \cup {NoProposal}]
         /\ OneActivePerTarget'
         /\ frozen'[q].content_hash = fop[p].hash
         /\ \A r \in Proposals :
              frozen[r] # NoProposal =>
                /\ r # q
                /\ frozen'[r] # NoProposal
                /\ frozen'[r].target = frozen[r].target
                /\ frozen'[r].content_hash = frozen[r].content_hash
                /\ frozen'[r].lifecycle = "ACTIVE" => frozen[r].lifecycle = "ACTIVE"
<1> DEFINE t == fop[p].target
           ids == fop[p].ids
           row == [target |-> t, content_hash |-> fop[p].hash, lifecycle |-> "ACTIVE"]
<1>1. t \in Targets /\ fop[p].hash \in Hashes /\ \A r \in ids : frozen[r] # NoProposal
  BY DEF FpelInv, FopOK
<1>2. row \in FrozenProposal /\ row.target = t /\ row.lifecycle = "ACTIVE"
  BY <1>1 DEF FrozenProposal
<1>h. row.content_hash = fop[p].hash
  OBVIOUS
<1>3. frozen \in [Proposals -> FrozenProposal \cup {NoProposal}]
  BY DEF FpelInv, FpelTypeOK
<1>4. \A r \in Proposals :
        frozen'[r] = IF r = q THEN row
                     ELSE IF r \in ids THEN [frozen[r] EXCEPT !.lifecycle = "SUPERSEDED"]
                     ELSE frozen[r]
  BY DEF Supersede
<1> HIDE DEF row
<1>5. ASSUME NEW r \in Proposals, r # q, r \in ids
      PROVE  /\ frozen'[r] \in FrozenProposal
             /\ frozen'[r].target = frozen[r].target
             /\ frozen'[r].content_hash = frozen[r].content_hash
             /\ frozen'[r].lifecycle = "SUPERSEDED"
  BY <1>1, <1>3, <1>4, <1>5 DEF FrozenProposal
<1>6. \A r \in Proposals : r # q /\ r \notin ids => frozen'[r] = frozen[r]
  BY <1>4
<1>7. frozen'[q] = row
  BY <1>4
<1>8. \A r \in Proposals : frozen'[r] \in FrozenProposal \cup {NoProposal}
  BY <1>2, <1>3, <1>5, <1>6, <1>7
<1>9. frozen' \in [Proposals -> FrozenProposal \cup {NoProposal}]
  BY <1>8 DEF Supersede
<1>10. \A r \in Proposals :
         r # q /\ frozen'[r].lifecycle = "ACTIVE" =>
           /\ r \notin ids /\ frozen'[r] = frozen[r] /\ frozen[r].target # t
  BY <1>5, <1>6 DEF IndexAccepts, Active
<1>11. OneActivePerTarget'
  BY <1>2, <1>7, <1>10 DEF FpelInv, OneActivePerTarget
<1>12. \A r \in Proposals : frozen[r] # NoProposal => r # q
  BY DEF Fresh
<1>13. NoProposal \notin FrozenProposal
  BY DEF NoProposal, FrozenProposal
<1> QED
  BY <1>h, <1>5, <1>6, <1>7, <1>9, <1>11, <1>12, <1>13

\* A proposal that does not exist yet has no verdict.
LEMMA FreshUnsealed ==
  ASSUME FpelTypeOK, SealsAreEarned, NEW q \in Proposals, Fresh(q)
  PROVE  sealed[q] = None
<1>1. frozen[q].content_hash = None
  BY DEF Fresh, NoProposal
<1>2. sealed[q] # None => sealed[q].content_hash \in Hashes
  BY DEF FpelTypeOK, SealedVerdict
<1> QED
  BY <1>1, <1>2, FpelNoneAssumption DEF SealsAreEarned

\* The verdicts stay earned by a step that adds none.
LEMMA EarnedKept ==
  ASSUME FpelTypeOK, SealsAreEarned, TablesGrow,
         \A q \in Proposals : sealed[q] # None => frozen[q] # NoProposal,
         NEW r \in Proposals, sealed[r] # None
  PROVE  /\ sealed'[r].content_hash = frozen'[r].content_hash
         /\ sealed'[r].source = "CHECKERS" => \E c \in Checkers : reports'[r][c] = "PASS"
<1>1. sealed'[r] = sealed[r] /\ frozen'[r].content_hash = frozen[r].content_hash
  BY DEF TablesGrow
<1>2. \A c \in Checkers : reports[r][c] = "PASS" => reports'[r][c] = "PASS"
  BY NoneFacts DEF TablesGrow
<1> QED
  BY <1>1, <1>2 DEF SealsAreEarned

\* The steps that write.
LEMMA WritesOK ==
  ASSUME FpelInv, NEW p \in Procs,
         \/ \E q \in Proposals : FreezeSave(p, q) \/ SnapshotSave(p, q)
         \/ FailSave(p) \/ SealSave(p)
  PROVE  FpelInv' /\ TablesGrow
<1>0. FpelTypeOK /\ FopOK(p) /\ SealsAreEarned /\ OneActivePerTarget
  BY DEF FpelInv
<1>s. \A r \in Proposals : sealed[r] # None => frozen[r] # NoProposal
  BY <1>0, FreshUnsealed DEF Fresh
<1>1. ASSUME NEW q \in Proposals, FreezeSave(p, q)
      PROVE  FpelInv' /\ TablesGrow
  <2>1. TablesGrow
    BY <1>1, SupersedeOK DEF FreezeSave, TablesGrow
  <2>2. sealed' = sealed
    BY <1>1 DEF FreezeSave
  <2>3. SealsAreEarned'
    BY <1>0, <1>s, <2>1, <2>2, EarnedKept DEF SealsAreEarned
  <2> QED
    BY <1>0, <1>1, <2>1, <2>3, SupersedeOK, WritingStep DEF FreezeSave, FpelTypeOK
<1>2. ASSUME NEW q \in Proposals, SnapshotSave(p, q)
      PROVE  FpelInv' /\ TablesGrow
  <2> DEFINE verdict == [content_hash |-> fop[p].hash, source |-> "LEGACY_APPROVED"]
  <2>1. /\ verdict \in SealedVerdict
        /\ verdict.source # "CHECKERS" /\ verdict.content_hash = fop[p].hash
    BY <1>0, <1>2 DEF SnapshotSave, FopOK, SealedVerdict
  <2>2. sealed' = [sealed EXCEPT ![q] = verdict] /\ reports' = reports /\ failed' = failed
    BY <1>2 DEF SnapshotSave
  <2> HIDE DEF verdict
  <2>3. sealed' \in [Proposals -> SealedVerdict \cup {None}]
    BY <1>0, <2>1, <2>2 DEF FpelTypeOK
  <2>4. TablesGrow
    BY <1>0, <1>2, <2>2, SupersedeOK DEF SnapshotSave, TablesGrow, FpelTypeOK
  <2>5. SealsAreEarned'
    <3>1. sealed'[q] = verdict /\ \A r \in Proposals \ {q} : sealed'[r] = sealed[r]
      BY <1>0, <2>2 DEF FpelTypeOK
    <3>2. frozen'[q].content_hash = fop[p].hash
      BY <1>2, SupersedeOK DEF SnapshotSave
    <3> QED
      BY <1>0, <1>s, <2>1, <2>4, <3>1, <3>2, EarnedKept DEF SealsAreEarned
  <2> QED
    BY <1>0, <1>2, <2>2, <2>3, <2>4, <2>5, SupersedeOK, WritingStep DEF SnapshotSave, FpelTypeOK
<1>3. CASE FailSave(p)
  <2>1. fop[p].proposal \in Proposals
    BY <1>0, <1>3 DEF FailSave, FopOK
  <2>2. TablesGrow
    BY <1>3 DEF FailSave, TablesGrow
  <2> QED
    BY <1>0, <1>3, <2>1, <2>2, WritingStep
       DEF FailSave, FpelTypeOK, OneActivePerTarget, SealsAreEarned
<1>4. CASE SealSave(p)
  <2> DEFINE q == fop[p].proposal
             verdict == [content_hash |-> frozen[q].content_hash, source |-> "CHECKERS"]
  <2>h. verdict.content_hash = frozen[q].content_hash
    OBVIOUS
  <2>1. /\ q \in Proposals /\ frozen[q] # NoProposal
        /\ \E c \in Checkers : reports[q][c] = "PASS"
    BY <1>0, <1>4 DEF SealSave, FopOK, SealSteps
  <2>2. frozen[q] \in FrozenProposal
    BY <1>0, <2>1 DEF FpelTypeOK
  <2>3. verdict \in SealedVerdict
    BY <2>2 DEF SealedVerdict, FrozenProposal
  <2>4. /\ sealed' = IF sealed[q] # None THEN sealed ELSE [sealed EXCEPT ![q] = verdict]
        /\ frozen' = frozen /\ failed' = failed /\ reports' = reports
    BY <1>4 DEF SealSave
  <2> HIDE DEF verdict
  <2>5. sealed' \in [Proposals -> SealedVerdict \cup {None}]
    BY <1>0, <2>3, <2>4 DEF FpelTypeOK
  <2>6. \A r \in Proposals : sealed'[r] = sealed[r] \/ (r = q /\ sealed[q] = None)
    BY <1>0, <2>4 DEF FpelTypeOK
  <2>7. TablesGrow
    BY <2>4, <2>6 DEF TablesGrow
  <2>8. SealsAreEarned'
    <3>1. sealed[q] = None => sealed'[q] = verdict
      BY <1>0, <2>1, <2>4 DEF FpelTypeOK
    <3> QED
      BY <1>0, <1>s, <2>h, <2>1, <2>4, <2>6, <2>7, <3>1, EarnedKept DEF SealsAreEarned
  <2>9. OneActivePerTarget'
    BY <1>0, <2>4 DEF OneActivePerTarget
  <2> QED
    BY <1>0, <1>4, <2>4, <2>5, <2>7, <2>8, <2>9, WritingStep DEF SealSave, FpelTypeOK
<1> QED
  BY <1>1, <1>2, <1>3, <1>4

\* A checker reports.
LEMMA ReportOK ==
  ASSUME FpelInv, FpelReport
  PROVE  FpelInv' /\ TablesGrow
<1>1. PICK q \in Proposals, c \in Checkers, v \in Verdicts : Report(q, c, v)
  BY DEF FpelReport
<1>2. /\ reports' = [reports EXCEPT ![q][c] = v] /\ reports[q][c] = None
      /\ frozen' = frozen /\ sealed' = sealed /\ failed' = failed /\ fop' = fop
  BY <1>1 DEF Report
<1>3. reports \in [Proposals -> [Checkers -> Verdicts \cup {None}]]
  BY DEF FpelInv, FpelTypeOK
<1>4. reports' \in [Proposals -> [Checkers -> Verdicts \cup {None}]]
  BY <1>2, <1>3
<1>5. \A r \in Proposals, d \in Checkers :
        reports[r][d] # None => reports'[r][d] = reports[r][d]
  BY <1>2, <1>3
<1>6. TablesGrow
  BY <1>2, <1>5 DEF TablesGrow
<1>7. \A r \in Procs : FopOK(r)'
  BY <1>2, <1>6, KnowledgeKept
<1>8. SealsAreEarned'
  BY <1>2, <1>5, NoneFacts DEF FpelInv, SealsAreEarned
<1> QED
  BY <1>2, <1>4, <1>6, <1>7, <1>8 DEF FpelInv, FpelTypeOK, OneActivePerTarget

\* snapshot_legacy has listed the proposals to supersede.
LEMMA ListedOK ==
  ASSUME FpelTypeOK, NEW p \in Procs, NEW act, act \subseteq Proposals,
         fop' = [fop EXCEPT ![p] = [fop[p] EXCEPT !.at = "snap_save", !.ids = act]]
  PROVE  /\ fop' \in [Procs -> FpelOperation]
         /\ fop'[p].at = "snap_save" /\ fop'[p].ids = act
         /\ fop'[p].target = fop[p].target /\ fop'[p].hash = fop[p].hash
         /\ \A r \in Procs \ {p} : fop'[r] = fop[r]
<1> DEFINE o == [fop[p] EXCEPT !.at = "snap_save", !.ids = act]
<1>1. fop[p] \in FpelOperation /\ act \in SUBSET Proposals
  BY DEF FpelTypeOK
<1>2. /\ o \in FpelOperation
      /\ o.at = "snap_save" /\ o.ids = act
      /\ o.target = fop[p].target /\ o.hash = fop[p].hash
  BY <1>1 DEF FpelOperation, FpelSteps
<1>3. fop' = [fop EXCEPT ![p] = o]
  OBVIOUS
<1> HIDE DEF o
<1> QED
  BY <1>2, <1>3 DEF FpelTypeOK

\* One step of the evidence loop.
LEMMA FpelStepOK ==
  ASSUME FpelInv, FpelNext
  PROVE  FpelInv' /\ TablesGrow
<1>0. \A t \in Targets : Active(t) \subseteq Proposals /\ \A r \in Active(t) : frozen[r] # NoProposal
  BY FpelNoneAssumption DEF Active, NoProposal
<1>1. CASE FpelReport
  BY <1>1, ReportOK
<1>2. ASSUME NEW p \in Procs, FpelStep(p)
      PROVE  FpelInv' /\ TablesGrow
  <2>1. CASE SnapshotList(p)
    <3> DEFINE act == Active(fop[p].target)
    <3>1. /\ fop[p].at = "snap_list" /\ UnchangedTables
          /\ fop' = [fop EXCEPT ![p] = [fop[p] EXCEPT !.at = "snap_save", !.ids = act]]
      BY <2>1 DEF SnapshotList
    <3>2. FopOK(p) /\ FpelTypeOK
      BY DEF FpelInv
    <3>3. fop[p].target \in Targets /\ fop[p].hash \in Hashes
      BY <3>1, <3>2 DEF FopOK
    <3>4. act \subseteq Proposals /\ \A r \in act : frozen[r] # NoProposal
      BY <1>0, <3>3
    <3>5. /\ fop' \in [Procs -> FpelOperation]
          /\ fop'[p].at = "snap_save" /\ fop'[p].ids = act
          /\ fop'[p].target = fop[p].target /\ fop'[p].hash = fop[p].hash
          /\ \A r \in Procs \ {p} : fop'[r] = fop[r]
      BY <3>1, <3>2, <3>4, ListedOK
    <3>6. FopOK(p)'
      BY <3>1, <3>3, <3>4, <3>5 DEF FopOK, SealSteps, CheckSteps, UnchangedTables
    <3> QED
      BY <3>1, <3>5, <3>6, QuietStep
  <2> QED
    BY <1>2, <2>1, WritesOK, SealReadsOK, CheckReadsOK DEF FpelStep
<1>3. ASSUME NEW p \in Procs, CheckReturn(p) \/ FpelAbort(p)
      PROVE  FpelInv' /\ TablesGrow
  BY <1>3, ReturnOK, QuietStep DEF CheckReturn, FpelAbort, FpelInv
<1>4. ASSUME NEW p \in Procs, NEW t \in Targets, NEW h \in Hashes \cup {None}, CheckRead(p, t, h)
      PROVE  FpelInv' /\ TablesGrow
  <2>1. CASE \E q \in Active(t) : Begin(p, t, h, q, "check_failed")
    BY <2>1, BeginOK
  <2>2. CASE UnchangedTables /\ Deny(p)
    BY <2>2, DenyOK
  <2> QED
    BY <1>4, <2>1, <2>2 DEF CheckRead
<1>5. ASSUME NEW p \in Procs, NEW t \in Targets, SealRead(p, t)
      PROVE  FpelInv' /\ TablesGrow
  BY <1>5, BeginOK DEF SealRead
<1>6. ASSUME NEW p \in Procs, NEW t \in Targets, NEW h \in Hashes, FreezeRead(p, t, h)
      PROVE  FpelInv' /\ TablesGrow
  <2> DEFINE act == Active(t)
             o == [FpelIdle EXCEPT !.at = "freeze_save", !.target = t, !.hash = h, !.ids = act]
  <2>1. act \subseteq Proposals /\ \A r \in act : frozen[r] # NoProposal
    BY <1>0
  <2>2. UnchangedTables /\ fop' = [fop EXCEPT ![p] = o]
    BY <1>6 DEF FreezeRead
  <2> HIDE DEF act
  <2>3. /\ o \in FpelOperation
        /\ o.at = "freeze_save" /\ o.target = t /\ o.hash = h /\ o.ids = act
    BY <2>1 DEF FpelIdle, FpelOperation, FpelSteps
  <2> HIDE DEF o
  <2> QED
    BY <2>1, <2>2, <2>3, FirstReadOK
<1>7. ASSUME NEW p \in Procs, NEW t \in Targets, NEW h \in Hashes, SnapshotRead(p, t, h)
      PROVE  FpelInv' /\ TablesGrow
  <2> DEFINE o == [FpelIdle EXCEPT !.at = "snap_list", !.target = t, !.hash = h]
  <2>1. UnchangedTables /\ fop' = [fop EXCEPT ![p] = o]
    BY <1>7 DEF SnapshotRead
  <2>2. /\ o \in FpelOperation
        /\ o.at = "snap_list" /\ o.target = t /\ o.hash = h /\ o.ids = {}
    BY DEF FpelIdle, FpelOperation, FpelSteps
  <2> HIDE DEF o
  <2> QED
    BY <2>1, <2>2, FirstReadOK
<1>8. ASSUME NEW p \in Procs, NEW t \in Targets, FailRead(p, t)
      PROVE  FpelInv' /\ TablesGrow
  <2>1. PICK q \in Active(t) :
          fop' = [fop EXCEPT ![p] = [FpelIdle EXCEPT !.at = "fail_save", !.target = t,
                                                     !.proposal = q]]
    BY <1>8 DEF FailRead
  <2> DEFINE o == [FpelIdle EXCEPT !.at = "fail_save", !.target = t, !.proposal = q]
  <2>2. o \in FpelOperation /\ o.at = "fail_save" /\ o.proposal \in Proposals
    BY DEF FpelIdle, FpelOperation, FpelSteps, Active
  <2>3. UnchangedTables /\ fop' = [fop EXCEPT ![p] = o]
    BY <1>8, <2>1 DEF FailRead
  <2> HIDE DEF o
  <2> QED
    BY <2>2, <2>3, FirstReadOK
<1> QED
  BY <1>1, <1>2, <1>3, <1>4, <1>5, <1>6, <1>7, <1>8 DEF FpelNext, FpelCommand

LEMMA FpelInitOK ==
  ASSUME FpelInit
  PROVE  FpelInv
<1>1. FpelTypeOK
  BY IdleFacts DEF FpelInit, FpelTypeOK
<1>2. \A p \in Procs : fop[p].at = "idle"
  BY IdleFacts DEF FpelInit
<1>3. \A q \in Proposals : frozen[q].lifecycle # "ACTIVE" /\ sealed[q] = None
  BY DEF FpelInit, NoProposal
<1>4. \A p \in Procs : FopOK(p)
  BY <1>2 DEF FopOK, SealSteps, CheckSteps
<1> QED
  BY <1>1, <1>3, <1>4 DEF FpelInv, OneActivePerTarget, SealsAreEarned

LEMMA FpelStutter ==
  ASSUME FpelInv, UNCHANGED fpelVars
  PROVE  FpelInv'
<1>1. TablesGrow /\ \A p \in Procs : fop'[p] = fop[p]
  BY DEF fpelVars, TablesGrow
<1>2. \A p \in Procs : FopOK(p)'
  BY <1>1, KnowledgeKept
<1> QED
  BY <1>2 DEF FpelInv, fpelVars, FpelTypeOK, OneActivePerTarget, SealsAreEarned

LEMMA FpelInvariance == FpelSpec => []FpelInv
<1>1. FpelInv /\ [FpelNext]_fpelVars => FpelInv'
  BY FpelStepOK, FpelStutter
<1> QED
  BY <1>1, FpelInitOK, PTL DEF FpelSpec

-----------------------------------------------------------------------------

\* The tables and the operations keep their types.
THEOREM FpelTypeCorrect == FpelSpec => []FpelTypeOK
  BY FpelInvariance, PTL DEF FpelInv

\* A target never has two active proposals, whoever freezes, checks and seals
\* at the same time.
THEOREM FpelActive == FpelSpec => []OneActivePerTarget
  BY FpelInvariance, PTL DEF FpelInv

\* Every verdict is on the content its proposal froze, and every verdict that
\* is not a legacy snapshot rests on a checker's PASS on that proposal.
THEOREM FpelSafety == FpelSpec => []SealsAreEarned
  BY FpelInvariance, PTL DEF FpelInv

\* No seal reaches its insertion, and no check_sealed its consent, when the
\* call began after its proposal had been failed.
THEOREM FpelDecisions == FpelSpec => []FailIsFinal
  BY FpelInvariance, FpelInvImplies, PTL

\* An authorization that is given is backed by a verdict for the caller's
\* content and target, although the verdict was read in an earlier step.
THEOREM FpelBacking == FpelSpec => []DecisionIsBacked
  BY FpelInvariance, FpelInvImplies, PTL

\* While a proposal is active, seal never passes it over a FAIL that was on
\* record when seal was called.
THEOREM FpelRejections == FpelSpec => SealHeedsRejection
<1>1. FpelInv =>
        [\A p \in Procs :
           LET q == fop[p].proposal
           IN  /\ fop[p].at = "seal_save" /\ sealed' # sealed
               /\ frozen[q].lifecycle = "ACTIVE"
               /\ sealed[q] # sealed'[q]
               => ~fop[p].rejected]_fpelVars
  BY DEF FpelInv, FopOK
<1> QED
  BY <1>1, FpelInvariance, PTL DEF SealHeedsRejection

=============================================================================
