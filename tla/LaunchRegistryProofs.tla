------------------------ MODULE LaunchRegistryProofs ------------------------
(***************************************************************************)
(* Proofs about LaunchRegistry, for every number of processes, keys and    *)
(* launches, every lease duration and every clock bound.                   *)
(***************************************************************************)
EXTENDS LaunchRegistry, WellFoundedInduction, TLAPS

\* What a process in the middle of an operation may rely on.  The facts are
\* about its own notes only, so no other process can invalidate them.
NotesOK(o) ==
  /\ o.at = "claim" => o.key \in Keys
  /\ o.at = "walk"  => /\ o.key \in Keys
                       /\ o.parent \in Launches
                       /\ o.launch \in Launches
                       /\ o.depth \in 1..(MaxLineageDepth - 1)
  /\ o.at = "read"  => o.key \in Keys /\ o.launch \in Launches
  /\ o.at = "cas"   => /\ o.launch \in Launches
                       /\ o.seen \in LaunchStatus
                       /\ o.target \in {"FAILED", "TERMINATING", "QUARANTINED"}
                       /\ can_transition_to(o.seen, o.target)

OpOK == \A p \in Procs : NotesOK(op[p])

-----------------------------------------------------------------------------
(* Lemmas about the operators *)

\* The transitions that mark_failed, begin_termination and quarantine make.
LEMMA TransitionFacts ==
  ASSUME NEW from, NEW to \in {"FAILED", "TERMINATING", "QUARANTINED"},
         can_transition_to(from, to)
  PROVE  /\ from \in LaunchStatus
         /\ to = "TERMINATING" => from = "ACTIVE"
         /\ from \notin TERMINAL_STATUSES
  BY DEF can_transition_to, ValidTransitions, LaunchStatus, TERMINAL_STATUSES

\* A compare-and-set changes the status and reason of one row at most.
LEMMA CasRowFacts ==
  ASSUME TypeOK,
         NEW l \in Launches, NEW from \in LaunchStatus, NEW to \in LaunchStatus,
         NEW reason \in QuarantineReasons \cup {None}
  PROVE  /\ CasRow(l, from, to, reason) \in [Launches -> AgentLaunch \cup {NoRow}]
         /\ \A m \in Launches :
              /\ CasRow(l, from, to, reason)[m].key = reg[m].key
              /\ CasRow(l, from, to, reason)[m].lease = reg[m].lease
              /\ CasRow(l, from, to, reason)[m].parent = reg[m].parent
              /\ CasRow(l, from, to, reason)[m].pane = reg[m].pane
              /\ CasRow(l, from, to, reason)[m].status =
                   IF m = l /\ reg[l].status = from THEN to ELSE reg[m].status
              /\ CasRow(l, from, to, reason)[m].reason =
                   IF m = l /\ reg[l].status = from /\ reason # None
                   THEN reason ELSE reg[m].reason
<1>1. CASE reg[l].status # from
  BY <1>1 DEF CasRow, TypeOK
<1>2. CASE reg[l].status = from
  <2> DEFINE row == SetStatus(reg[l], to, reason)
  <2>1. reg[l] \in AgentLaunch
    BY <1>2 DEF TypeOK, NoRow, LaunchStatus
  <2>2. row \in AgentLaunch
    BY <2>1 DEF AgentLaunch, SetStatus
  <2>3. CasRow(l, from, to, reason) = [reg EXCEPT ![l] = row]
    BY <1>2 DEF CasRow
  <2>4. /\ row.key = reg[l].key /\ row.lease = reg[l].lease /\ row.parent = reg[l].parent
        /\ row.pane = reg[l].pane /\ row.status = to
        /\ row.reason = IF reason = None THEN reg[l].reason ELSE reason
    BY <2>1 DEF AgentLaunch, SetStatus
  <2> HIDE DEF row
  <2> QED
    BY <1>2, <2>2, <2>3, <2>4 DEF TypeOK
<1> QED BY <1>1, <1>2

LEMMA IdleOK == Idle \in Operation /\ NotesOK(Idle) /\ Idle.at = "idle"
  BY LineageAssumption DEF Idle, Operation, Steps, NotesOK

\* request_launch goes on to validate the parent it was given, or to claim.
LEMMA ToClaimOK ==
  ASSUME NEW k \in Keys, NEW par \in Launches \cup {None}
  PROVE  /\ ToClaim(k, par) \in Operation
         /\ NotesOK(ToClaim(k, par))
         /\ ToClaim(k, par).at \in {"walk", "claim"}
<1> DEFINE o == ToClaim(k, par)
<1>1. /\ 0 \in 0..MaxLineageDepth /\ 1 \in 0..MaxLineageDepth
      /\ 1 \in 1..(MaxLineageDepth - 1)
  BY LineageAssumption
<1>2. o.key = k /\ o.parent = par /\ o.launch = par
  BY DEF ToClaim, Idle
<1>3. CASE par = None
  <2>1. o.at = "claim" /\ o \in Operation
    BY <1>1, <1>3 DEF ToClaim, Idle, Operation, Steps
  <2>. QED BY <1>2, <2>1 DEF NotesOK
<1>4. CASE par # None
  <2>1. o.at = "walk" /\ o.depth = 1 /\ o \in Operation
    BY <1>1, <1>4 DEF ToClaim, Idle, Operation, Steps
  <2>. QED BY <1>1, <1>2, <1>4, <2>1 DEF NotesOK
<1>. QED BY <1>3, <1>4

\* A step of the walk ends it or goes to the next ancestor.
LEMMA WalkedOK ==
  ASSUME TypeOK, NEW o \in Operation, NotesOK(o), o.at = "walk"
  PROVE  /\ Walked(o, MaxLineageDepth) \in Operation
         /\ NotesOK(Walked(o, MaxLineageDepth))
         /\ Walked(o, MaxLineageDepth).at \in {"idle", "walk", "claim"}
<1> DEFINE next == reg[o.launch].parent
           claim == [Idle EXCEPT !.at = "claim", !.key = o.key, !.parent = o.parent]
           on == [o EXCEPT !.launch = next, !.depth = o.depth + 1]
<1>1. /\ o.key \in Keys /\ o.parent \in Launches /\ o.launch \in Launches
      /\ o.depth \in 1..(MaxLineageDepth - 1)
  BY DEF NotesOK
<1>2. next \in Launches \cup {None}
  BY <1>1 DEF TypeOK, AgentLaunch, NoRow
<1>3. claim \in Operation /\ NotesOK(claim) /\ claim.at = "claim"
  BY <1>1, IdleOK DEF Operation, Steps, NotesOK
<1>4. ASSUME next # None, ~(o.depth + 1 >= MaxLineageDepth)
      PROVE  on \in Operation /\ NotesOK(on) /\ on.at = "walk"
  <2>1. /\ o.depth + 1 \in 1..(MaxLineageDepth - 1)
        /\ o.depth + 1 \in 0..MaxLineageDepth
    BY <1>1, <1>4, LineageAssumption
  <2>2. /\ on.at = "walk" /\ on.key = o.key /\ on.parent = o.parent
        /\ on.launch = next /\ on.depth = o.depth + 1 /\ on \in Operation
    BY <1>2, <2>1 DEF Operation
  <2> HIDE DEF on
  <2>. QED BY <1>1, <1>2, <1>4, <2>1, <2>2 DEF NotesOK
<1>5. Walked(o, MaxLineageDepth) \in {Idle, claim}
      \/ (Walked(o, MaxLineageDepth) = on /\ next # None /\ ~(o.depth + 1 >= MaxLineageDepth))
  BY DEF Walked
<1> HIDE DEF claim, on, next
<1>. QED BY <1>3, <1>4, <1>5, IdleOK

\* Where an operation goes after a quarantine() call.
LEMMA ProceedFacts ==
  ASSUME NEW o \in Operation
  PROVE  /\ Proceed(o) \in Operation
         /\ NotesOK(Proceed(o))
         /\ Proceed(o).at \in {"idle", "walk", "claim", "sweep"}
         /\ Proceed(o).at = "sweep" => /\ Proceed(o).reason = o.reason
                                       /\ Proceed(o).todo = o.todo
<1>1. CASE o.key # None
  <2>1. o.key \in Keys /\ o.parent \in Launches \cup {None}
    BY <1>1 DEF Operation
  <2>. QED BY <1>1, <2>1, ToClaimOK DEF Proceed
<1>2. CASE o.key = None
  <2> DEFINE sweep == [Idle EXCEPT !.at = "sweep", !.reason = o.reason, !.todo = o.todo]
  <2>1. /\ sweep \in Operation /\ sweep.at = "sweep"
        /\ sweep.reason = o.reason /\ sweep.todo = o.todo
    BY IdleOK DEF Operation, Steps
  <2>2. Proceed(o) \in {sweep, Idle}
    BY <1>2 DEF Proceed
  <2> HIDE DEF sweep
  <2>. QED BY <2>1, <2>2, IdleOK DEF NotesOK
<1>. QED BY <1>1, <1>2

\* The read half of a read-then-CAS operation: either its notes are a legal
\* transition from the status the row has at this moment, or it moves on.
LEMMA ReadThenCasFacts ==
  ASSUME TypeOK, NEW o \in Operation, NEW l \in Launches,
         NEW target \in {"FAILED", "TERMINATING", "QUARANTINED"},
         NEW reason \in QuarantineReasons \cup {None}
  PROVE  LET r == ReadThenCas(o, l, target, reason)
         IN  /\ r \in Operation
             /\ NotesOK(r)
             /\ r.at \in {"idle", "walk", "claim", "sweep", "cas"}
             /\ r.at = "sweep" => r.reason = o.reason /\ r.todo = o.todo
             /\ r.at = "cas"   => /\ r.launch = l
                                  /\ r.seen = reg[l].status
                                  /\ r.seen \in LaunchStatus
                                  /\ r.target = target
                                  /\ r.reason = reason
                                  /\ r.todo = o.todo
                                  /\ can_transition_to(r.seen, r.target)
<1>1. CASE can_transition_to(reg[l].status, target)
  <2>1. reg[l].status \in LaunchStatus
    BY <1>1, TransitionFacts
  <2>2. target \in LaunchStatus
    BY DEF LaunchStatus
  <2> DEFINE r == [o EXCEPT !.at = "cas", !.launch = l, !.seen = reg[l].status,
                            !.target = target, !.reason = reason]
  <2>3. ReadThenCas(o, l, target, reason) = r
    BY <1>1 DEF ReadThenCas
  <2>4. /\ r \in Operation
        /\ r.at = "cas" /\ r.launch = l /\ r.seen = reg[l].status
        /\ r.target = target /\ r.reason = reason /\ r.todo = o.todo
    BY <2>1, <2>2 DEF Operation, Steps
  <2> HIDE DEF r
  <2> QED BY <1>1, <2>1, <2>3, <2>4 DEF NotesOK
<1>2. CASE ~can_transition_to(reg[l].status, target)
  BY <1>2, ProceedFacts DEF ReadThenCas
<1> QED BY <1>1, <1>2

\* One process changes its notes.
LEMMA OpUpdate ==
  ASSUME TypeOK, OpOK, NEW p \in Procs, NEW o \in Operation, NotesOK(o),
         op' = [op EXCEPT ![p] = o]
  PROVE  op' \in [Procs -> Operation] /\ OpOK'
  BY DEF TypeOK, OpOK, NotesOK

-----------------------------------------------------------------------------
(* Type correctness *)

LEMMA TypeStep ==
  ASSUME TypeOK, OpOK, [Next]_vars
  PROVE  TypeOK' /\ OpOK'
<1>1. ASSUME NEW p \in Procs, NEW k \in Keys, NEW par \in ParentChoices,
             RequestFind(p, k, par)
      PROVE  TypeOK' /\ OpOK'
  <2> DEFINE claim == ToClaim(k, par)
             again(l) == [Idle EXCEPT !.at = "read", !.key = k, !.parent = par,
                                      !.launch = l]
  <2>1. claim \in Operation /\ NotesOK(claim)
    BY LineageAssumption, ToClaimOK
  <2>2. ASSUME NEW l \in Launches
        PROVE  again(l) \in Operation /\ NotesOK(again(l))
    BY LineageAssumption, IdleOK DEF Operation, Steps, NotesOK
  <2>3. PICK o \in Operation : NotesOK(o) /\ op' = [op EXCEPT ![p] = o]
    <3>1. CASE op' = [op EXCEPT ![p] = claim]
      BY <2>1, <3>1
    <3>2. CASE \E l \in find_active(k) :
                 op' = [op EXCEPT ![p] =
                          IF lease_is_valid(l) THEN Idle
                          ELSE IF reg[l].status \in Unconfirmed
                          THEN again(l)
                          ELSE claim]
      <4>1. PICK l \in find_active(k) :
                 op' = [op EXCEPT ![p] =
                          IF lease_is_valid(l) THEN Idle
                          ELSE IF reg[l].status \in Unconfirmed
                          THEN again(l)
                          ELSE claim]
        BY <3>2
      <4>2. l \in Launches
        BY DEF find_active, Blocking
      <4>3. CASE lease_is_valid(l)
        BY <4>1, <4>3, IdleOK
      <4>4. CASE ~lease_is_valid(l) /\ reg[l].status \in Unconfirmed
        <5> HIDE DEF claim, again
        <5> QED BY <4>1, <4>2, <4>4, <2>2
      <4>5. CASE ~lease_is_valid(l) /\ reg[l].status \notin Unconfirmed
        <5> HIDE DEF claim, again
        <5> QED BY <4>1, <4>5, <2>1
      <4> QED BY <4>3, <4>4, <4>5
    <3> QED BY <1>1, <3>1, <3>2 DEF RequestFind
  <2> QED BY <1>1, <2>3, OpUpdate DEF RequestFind, TypeOK
<1>2. ASSUME NEW p \in Procs, RequestReread(p)
      PROVE  TypeOK' /\ OpOK'
  <2>1. PICK c \in Operation, l \in Launches : c = op[p] /\ l = op[p].launch
    BY <1>2 DEF RequestReread, TypeOK, OpOK, NotesOK
  <2> DEFINE o == ReadThenCas(c, l, "QUARANTINED", "lease_expired")
  <2>2. "lease_expired" \in QuarantineReasons \cup {None}
    BY DEF QuarantineReasons
  <2>3. o \in Operation /\ NotesOK(o)
    BY <2>2, ReadThenCasFacts
  <2> HIDE DEF o
  <2> QED BY <1>2, <2>1, <2>3, OpUpdate DEF RequestReread, TypeOK, o
<1>3. ASSUME NEW p \in Procs, RequestWalk(p) \/ RequestLost(p) \/ Abort(p)
      PROVE  TypeOK' /\ OpOK'
  <2>1. PICK o \in Operation : NotesOK(o) /\ op' = [op EXCEPT ![p] = o]
    <3>1. CASE RequestWalk(p)
      <4>1. op[p] \in Operation /\ NotesOK(op[p]) /\ op[p].at = "walk"
        BY <3>1 DEF RequestWalk, TypeOK, OpOK
      <4>. QED BY <3>1, <4>1, WalkedOK DEF RequestWalk
    <3>2. CASE RequestLost(p) \/ Abort(p)
      BY <3>2, IdleOK DEF RequestLost, Abort
    <3>. QED BY <1>3, <3>1, <3>2
  <2>. QED BY <1>3, <2>1, OpUpdate DEF RequestWalk, RequestLost, Abort, TypeOK
<1>4. ASSUME NEW p \in Procs, NEW l \in Launches, RequestClaim(p, l)
      PROVE  TypeOK' /\ OpOK'
  <2> DEFINE row == [NoRow EXCEPT !.status = "RESERVED", !.key = op[p].key,
                             !.created = now, !.lease = now + LeaseDuration,
                             !.parent = op[p].parent]
  <2>1. op[p].key \in Keys /\ op[p].parent \in Launches \cup {None}
    BY <1>4 DEF RequestClaim, TypeOK, OpOK, NotesOK, Operation
  <2>2. now \in Nat /\ now + LeaseDuration \in Nat
    BY TimeAssumption DEF TypeOK
  <2>3. row \in AgentLaunch
    BY <2>1, <2>2 DEF NoRow, AgentLaunch, LaunchStatus
  <2>4. reg' = [reg EXCEPT ![l] = row]
    BY <1>4 DEF RequestClaim
  <2> HIDE DEF row
  <2> QED BY <1>4, <2>3, <2>4, IdleOK, OpUpdate DEF RequestClaim, TypeOK
<1>5. ASSUME NEW l \in Launches, confirm_spawning(l) \/ confirm_terminated(l)
      PROVE  TypeOK' /\ OpOK'
  <2>1. reg' \in [Launches -> AgentLaunch \cup {NoRow}]
    <3>1. {"RESERVED", "SPAWNING", "TERMINATING", "TERMINATED"} \subseteq LaunchStatus
      BY DEF LaunchStatus
    <3> QED BY <1>5, <3>1, CasRowFacts DEF confirm_spawning, confirm_terminated
  <2> QED BY <1>5, <2>1 DEF confirm_spawning, confirm_terminated, TypeOK, OpOK, NotesOK
<1>6. ASSUME NEW l \in Launches, NEW pane \in PaneChoices, confirm_active(l, pane)
      PROVE  TypeOK' /\ OpOK'
  <2>1. reg[l] \in AgentLaunch
    BY <1>6 DEF confirm_active, TypeOK, NoRow
  <2>2. ActiveRow(reg[l], pane) \in AgentLaunch
    BY <2>1, PaneAssumption DEF ActiveRow, AgentLaunch, LaunchStatus
  <2> QED BY <1>6, <2>2 DEF confirm_active, TypeOK, OpOK, NotesOK
<1>7. ASSUME NEW p \in Procs, NEW l \in Launches,
             mark_failed(p, l) \/ begin_termination(p, l) \/ quarantine(p, l)
      PROVE  TypeOK' /\ OpOK'
  <2>1. PICK target \in {"FAILED", "TERMINATING", "QUARANTINED"},
             reason \in QuarantineReasons \cup {None} : ReadFor(p, l, target, reason)
    BY <1>7 DEF mark_failed, begin_termination, quarantine, QuarantineReasons
  <2> DEFINE o == ReadThenCas(Idle, l, target, reason)
  <2>2. o \in Operation /\ NotesOK(o)
    BY IdleOK, ReadThenCasFacts
  <2> HIDE DEF o
  <2> QED BY <2>1, <2>2, OpUpdate DEF ReadFor, TypeOK, o
<1>8. ASSUME NEW p \in Procs, Cas(p)
      PROVE  TypeOK' /\ OpOK'
  <2>1. /\ op[p] \in Operation /\ op[p].launch \in Launches
        /\ op[p].seen \in LaunchStatus /\ op[p].target \in LaunchStatus
        /\ op[p].reason \in QuarantineReasons \cup {None}
    BY <1>8 DEF Cas, TypeOK, OpOK, NotesOK, Operation, LaunchStatus
  <2>2. reg' \in [Launches -> AgentLaunch \cup {NoRow}]
    BY <1>8, <2>1, CasRowFacts DEF Cas
  <2>3. Proceed(op[p]) \in Operation /\ NotesOK(Proceed(op[p]))
    BY <2>1, ProceedFacts
  <2> QED BY <1>8, <2>2, <2>3, OpUpdate DEF Cas, TypeOK
<1>9. ASSUME NEW p \in Procs, reconcile_expired_leases(p) \/ reconcile_lost_panes(p)
      PROVE  TypeOK' /\ OpOK'
  <2>1. PICK o \in Operation : NotesOK(o) /\ op' = [op EXCEPT ![p] = o]
    <3>1. ASSUME NEW todo \in SUBSET Launches
          PROVE  LET o1 == [Idle EXCEPT !.at = "sweep", !.reason = "lease_expired",
                                        !.todo = todo]
                     o2 == [Idle EXCEPT !.at = "panes", !.todo = todo]
                 IN  /\ o1 \in Operation /\ NotesOK(o1)
                     /\ o2 \in Operation /\ NotesOK(o2)
      BY IdleOK DEF Operation, Steps, QuarantineReasons, NotesOK
    <3>2. CASE reconcile_expired_leases(p)
      <4>1. list_expired_leases \in SUBSET Launches
        BY DEF list_expired_leases
      <4> QED BY <3>1, <3>2, <4>1 DEF reconcile_expired_leases
    <3>3. CASE reconcile_lost_panes(p)
      <4>1. PICK todo \in SUBSET Launches :
              op' = [op EXCEPT ![p] = [Idle EXCEPT !.at = "panes", !.todo = todo]]
        BY <3>3 DEF reconcile_lost_panes
      <4> QED BY <3>1, <4>1
    <3> QED BY <1>9, <3>2, <3>3
  <2> QED BY <1>9, <2>1, OpUpdate
          DEF reconcile_expired_leases, reconcile_lost_panes, TypeOK
<1>10. ASSUME NEW p \in Procs, QueryPanes(p)
       PROVE  TypeOK' /\ OpOK'
  <2>1. PICK lost \in SUBSET Launches :
          op' = [op EXCEPT ![p] =
                   Proceed([Idle EXCEPT !.reason = "pane_lost", !.todo = lost])]
    BY <1>10 DEF QueryPanes, TypeOK, Operation
  <2> DEFINE o == [Idle EXCEPT !.reason = "pane_lost", !.todo = lost]
  <2>2. o \in Operation
    BY IdleOK DEF Operation, Steps, QuarantineReasons
  <2> HIDE DEF o
  <2>3. Proceed(o) \in Operation /\ NotesOK(Proceed(o))
    BY <2>2, ProceedFacts
  <2> QED BY <1>10, <2>1, <2>3, OpUpdate DEF QueryPanes, TypeOK, o
<1>11. ASSUME NEW p \in Procs, NEW l \in Launches, Sweep(p, l)
       PROVE  TypeOK' /\ OpOK'
  <2> DEFINE c == [op[p] EXCEPT !.todo = op[p].todo \ {l}]
             o == ReadThenCas(c, l, "QUARANTINED", op[p].reason)
  <2>1. c \in Operation /\ op[p].reason \in QuarantineReasons \cup {None}
    BY DEF TypeOK, Operation
  <2> HIDE DEF c
  <2>2. o \in Operation /\ NotesOK(o)
    BY <2>1, ReadThenCasFacts
  <2> HIDE DEF o
  <2> QED BY <1>11, <2>2, OpUpdate DEF Sweep, TypeOK, o, c
<1>12. CASE Tick
  BY <1>12, TimeAssumption DEF Tick, TypeOK, OpOK, NotesOK
<1>13. ASSUME NEW l \in Launches, PaneDies(l)
       PROVE  TypeOK' /\ OpOK'
  BY <1>13 DEF PaneDies, TypeOK, OpOK, NotesOK
<1>14. CASE UNCHANGED vars
  BY <1>14 DEF vars, TypeOK, OpOK, NotesOK
<1> QED
  BY <1>1, <1>2, <1>3, <1>4, <1>5, <1>6, <1>7, <1>8, <1>9, <1>10, <1>11, <1>12,
     <1>13, <1>14
     DEF Next, Request, Reconcile, Manage, Confirm

LEMMA TypeInit == Init => TypeOK /\ OpOK
  BY IdleOK, TimeAssumption DEF Init, TypeOK, OpOK, NotesOK

\* Every row of the table and every process's notes keep their types, and a
\* process about to compare-and-set holds a transition the map allows.
THEOREM TypeCorrect == Spec => [](TypeOK /\ OpOK)
<1>1. TypeOK /\ OpOK /\ [Next]_vars => TypeOK' /\ OpOK'
  BY TypeStep
<1> QED BY TypeInit, <1>1, PTL DEF Spec

-----------------------------------------------------------------------------
(* What a step does to the table *)

OthersKept(l) == \A m \in Launches \ {l} : reg'[m] = reg[m]

\* A new row, for a key with no row in the index, under the parent that the
\* process which claims has validated.
Inserted(l) ==
  /\ ~Exists(l)
  /\ reg'[l].status = "RESERVED"
  /\ reg'[l].lease # None
  /\ reg'[l].key \in Keys
  /\ IndexFree(reg'[l].key)
  /\ reg'[l].parent \in Launches \cup {None}
  /\ \E p \in Procs : op[p].at = "claim" /\ reg'[l].parent = op[p].parent
  /\ OthersKept(l)

\* An existing row takes a legal transition; confirm_active drops its lease.
Moved(l) ==
  /\ <<reg[l].status, reg'[l].status>> \in LegalMoves
  /\ reg'[l].key = reg[l].key
  /\ reg'[l].parent = reg[l].parent
  /\ reg'[l].lease = IF reg'[l].status = "ACTIVE" THEN None ELSE reg[l].lease
  /\ OthersKept(l)

LEMMA CasMoves ==
  ASSUME TypeOK, NEW l \in Launches, NEW from \in LaunchStatus, NEW to \in LaunchStatus,
         NEW reason \in QuarantineReasons \cup {None},
         <<from, to>> \in LegalMoves, to # "ACTIVE",
         reg' = CasRow(l, from, to, reason)
  PROVE  UNCHANGED reg \/ Moved(l)
<1>1. CASE reg[l].status = from
  <2>1. \A m \in Launches \ {l} : reg'[m] = reg[m]
    BY <1>1 DEF CasRow, TypeOK
  <2>2. /\ reg'[l].key = reg[l].key
        /\ reg'[l].lease = reg[l].lease
        /\ reg'[l].parent = reg[l].parent
        /\ reg'[l].status = to
    <3>1. \A m \in Launches :
            /\ CasRow(l, from, to, reason)[m].key = reg[m].key
            /\ CasRow(l, from, to, reason)[m].lease = reg[m].lease
            /\ CasRow(l, from, to, reason)[m].parent = reg[m].parent
            /\ CasRow(l, from, to, reason)[m].status =
                 IF m = l /\ reg[l].status = from THEN to ELSE reg[m].status
      BY CasRowFacts
    <3> QED BY <1>1, <3>1
  <2> QED BY <1>1, <2>1, <2>2 DEF Moved, OthersKept
<1>2. CASE reg[l].status # from
  BY <1>2 DEF CasRow
<1> QED BY <1>1, <1>2

LEMMA TableStep ==
  ASSUME TypeOK, OpOK, [Next]_vars
  PROVE  UNCHANGED reg \/ \E l \in Launches : Inserted(l) \/ Moved(l)
<1>1. ASSUME NEW p \in Procs, NEW l \in Launches, RequestClaim(p, l)
      PROVE  Inserted(l)
  <2> DEFINE row == [NoRow EXCEPT !.status = "RESERVED", !.key = op[p].key,
                             !.created = now, !.lease = now + LeaseDuration,
                             !.parent = op[p].parent]
  <2>1. /\ row.status = "RESERVED" /\ row.key = op[p].key
        /\ row.lease = now + LeaseDuration /\ row.parent = op[p].parent
    BY DEF NoRow
  <2>2. reg' = [reg EXCEPT ![l] = row]
    BY <1>1 DEF RequestClaim
  <2>3. now + LeaseDuration # None
    BY TimeAssumption, NoneAssumption DEF TypeOK
  <2>4. op[p].key \in Keys /\ op[p].parent \in Launches \cup {None}
    BY <1>1 DEF RequestClaim, OpOK, NotesOK, TypeOK, Operation
  <2> HIDE DEF row
  <2>5. reg'[l] = row /\ OthersKept(l)
    BY <2>2 DEF TypeOK, OthersKept
  <2> QED BY <1>1, <2>1, <2>3, <2>4, <2>5 DEF RequestClaim, Inserted
<1>2. ASSUME NEW l \in Launches, confirm_spawning(l) \/ confirm_terminated(l)
      PROVE  UNCHANGED reg \/ Moved(l)
  <2>1. {"RESERVED", "SPAWNING", "TERMINATING", "TERMINATED"} \subseteq LaunchStatus
    BY DEF LaunchStatus
  <2>2. /\ <<"RESERVED", "SPAWNING">> \in LegalMoves
        /\ <<"TERMINATING", "TERMINATED">> \in LegalMoves
    BY DEF LegalMoves
  <2>3. PICK from \in LaunchStatus, to \in LaunchStatus :
          /\ <<from, to>> \in LegalMoves
          /\ to # "ACTIVE"
          /\ reg' = CasRow(l, from, to, None)
    BY <1>2, <2>1, <2>2 DEF confirm_spawning, confirm_terminated
  <2> QED BY <2>3, CasMoves
<1>3. ASSUME NEW l \in Launches, NEW pane \in PaneChoices, confirm_active(l, pane)
      PROVE  Moved(l)
  <2>1. reg[l] \in AgentLaunch
    BY <1>3 DEF confirm_active, TypeOK, NoRow
  <2>2. LET row == ActiveRow(reg[l], pane)
        IN  /\ row.status = "ACTIVE" /\ row.lease = None
            /\ row.key = reg[l].key /\ row.parent = reg[l].parent
    BY <2>1 DEF ActiveRow, AgentLaunch
  <2>3. <<"SPAWNING", "ACTIVE">> \in LegalMoves
    BY DEF LegalMoves
  <2>4. reg'[l] = ActiveRow(reg[l], pane) /\ OthersKept(l)
    BY <1>3 DEF confirm_active, TypeOK, OthersKept
  <2> QED BY <1>3, <2>2, <2>3, <2>4 DEF confirm_active, Moved
<1>4. ASSUME NEW p \in Procs, Cas(p)
      PROVE  UNCHANGED reg \/ \E l \in Launches : Moved(l)
  <2>1. PICK l \in Launches, from \in LaunchStatus,
             to \in {"FAILED", "TERMINATING", "QUARANTINED"},
             reason \in QuarantineReasons \cup {None} :
               /\ can_transition_to(from, to)
               /\ reg' = CasRow(l, from, to, reason)
    BY <1>4 DEF Cas, TypeOK, OpOK, NotesOK, Operation
  <2>2. <<from, to>> \in LegalMoves
    BY <2>1 DEF can_transition_to, ValidTransitions, LegalMoves
  <2>3. to \in LaunchStatus /\ to # "ACTIVE"
    BY DEF LaunchStatus
  <2> QED BY <2>1, <2>2, <2>3, CasMoves
<1>5. ASSUME NEW p \in Procs,
             \/ \E k \in Keys, par \in ParentChoices : RequestFind(p, k, par)
             \/ RequestReread(p) \/ RequestWalk(p) \/ RequestLost(p)
             \/ Abort(p) \/ Reconcile(p)
             \/ \E l \in Launches : \/ mark_failed(p, l)
                                     \/ begin_termination(p, l)
                                     \/ quarantine(p, l)
      PROVE  UNCHANGED reg
  BY <1>5 DEF RequestFind, RequestReread, RequestWalk, RequestLost, Abort,
       Reconcile, reconcile_expired_leases, reconcile_lost_panes, QueryPanes, Sweep,
       mark_failed, begin_termination, quarantine, ReadFor
<1>6. ASSUME Tick \/ (\E l \in Launches : PaneDies(l)) \/ UNCHANGED vars
      PROVE  UNCHANGED reg
  BY <1>6 DEF Tick, PaneDies, vars
<1> QED
  BY <1>1, <1>2, <1>3, <1>4, <1>5, <1>6 DEF Next, Request, Manage, Confirm

-----------------------------------------------------------------------------
(* Safety *)

Safe == OneInFlightPerKey /\ LeaseDiscipline

LEMMA SafeStep ==
  ASSUME TypeOK, OpOK, Safe, [Next]_vars
  PROVE  Safe'
<1>1. CASE UNCHANGED reg
  BY <1>1 DEF Safe, OneInFlightPerKey, LeaseDiscipline
<1>2. ASSUME NEW l \in Launches, Inserted(l)
      PROVE  Safe'
  <2>1. OneInFlightPerKey'
    BY <1>2 DEF Inserted, OthersKept, IndexFree, IndexStatuses, InFlight,
         Safe, OneInFlightPerKey
  <2>2. LeaseDiscipline'
    BY <1>2 DEF Inserted, OthersKept, Unconfirmed, Safe, LeaseDiscipline
  <2> QED BY <2>1, <2>2 DEF Safe
<1>3. ASSUME NEW l \in Launches, Moved(l)
      PROVE  Safe'
  <2>1. reg'[l].status \in InFlight => reg[l].status \in InFlight
    BY <1>3 DEF Moved, LegalMoves, InFlight
  <2>2. OneInFlightPerKey'
    BY <1>3, <2>1 DEF Moved, OthersKept, Safe, OneInFlightPerKey
  <2>3. LeaseDiscipline'
    BY <1>3 DEF Moved, LegalMoves, OthersKept, Unconfirmed, Safe, LeaseDiscipline
  <2> QED BY <2>2, <2>3 DEF Safe
<1> QED BY <1>1, <1>2, <1>3, TableStep

LEMMA SafeInit == Init => Safe
  BY DEF Init, NoRow, Safe, OneInFlightPerKey, LeaseDiscipline, InFlight, Unconfirmed

LEMMA SafeInvariance == Spec => []Safe
<1>1. TypeOK /\ OpOK /\ Safe /\ [Next]_vars => Safe'
  BY SafeStep
<1> QED BY TypeCorrect, SafeInit, <1>1, PTL DEF Spec

\* At most one launch per canonical key is ever in flight, whatever the
\* callers do and however stale what they read is.
THEOREM LaunchSafety == Spec => []OneInFlightPerKey
  BY SafeInvariance, PTL DEF Safe

\* A launch has a lease until its process is confirmed and none afterwards:
\* confirm_active clears it in the transaction that confirms.
THEOREM LaunchLeases == Spec => []LeaseDiscipline
  BY SafeInvariance, PTL DEF Safe

\* Statuses move only along the transition map although operations read and
\* write in separate transactions.
THEOREM LaunchMoves == Spec => MovesFollowTransitionMap
<1> DEFINE Legal == \A l \in Launches :
                      \/ reg'[l].status = reg[l].status
                      \/ reg[l].status = "ABSENT" /\ reg'[l].status = "RESERVED"
                      \/ <<reg[l].status, reg'[l].status>> \in LegalMoves
<1>1. TypeOK /\ OpOK /\ [Next]_vars => [Legal]_vars
  <2> SUFFICES ASSUME TypeOK, OpOK, [Next]_vars
               PROVE  Legal
    OBVIOUS
  <2> QED BY TableStep DEF Inserted, Moved, OthersKept, Exists
<1> HIDE DEF Legal
<1>2. Spec => [][Legal]_vars
  BY TypeCorrect, <1>1, PTL DEF Spec
<1> QED BY <1>2 DEF MovesFollowTransitionMap, Legal

-----------------------------------------------------------------------------
(* Lost panes: PaneLostIsTrue is not inductive.  A reconciler holds the     *)
(* launches that tmux did not list through many steps of others, so it has  *)
(* to be known that a pane which is gone never comes back for its launch:   *)
(* only confirm_active gives a launch a pane, once, before it has one.      *)

\* A launch that was confirmed in a pane, which is gone or was once not
\* listed because list-panes failed.
Lost(l) == reg[l].pane /\ (l \notin alive \/ l \in unlisted)

PanesAreConfirmed ==
  \A l \in Launches : reg[l].pane => reg[l].status \notin {"ABSENT", "RESERVED", "SPAWNING"}

\* What a reconciler of lost panes has in hand in each of its steps.
PaneNotes(o) ==
  /\ o.at = "panes" => \A l \in o.todo : reg[l].pane
  /\ o.at \in {"sweep", "cas"} /\ o.reason = "pane_lost" => \A l \in o.todo : Lost(l)
  /\ o.at = "cas" /\ o.reason = "pane_lost" => Lost(o.launch)

PaneInv ==
  /\ PanesAreConfirmed
  /\ PaneLostIsTrue
  /\ \A p \in Procs : PaneNotes(op[p])

\* No pane is forgotten, and none that is gone comes back.
PanesStay ==
  \A l \in Launches : /\ reg[l].pane => reg'[l].pane
                      /\ Lost(l) => Lost(l)'

LEMMA PaneNotesStay ==
  ASSUME TypeOK, NEW o \in Operation, NotesOK(o), PaneNotes(o), PanesStay
  PROVE  /\ o.at = "panes" => \A l \in o.todo : reg'[l].pane
         /\ o.at \in {"sweep", "cas"} /\ o.reason = "pane_lost" => \A l \in o.todo : Lost(l)'
         /\ o.at = "cas" /\ o.reason = "pane_lost" => Lost(o.launch)'
<1>1. o.todo \subseteq Launches /\ (o.at = "cas" => o.launch \in Launches)
  BY DEF Operation, NotesOK
<1>. QED BY <1>1 DEF PaneNotes, PanesStay, Lost

\* One process changes its notes, or none does.
LEMMA PaneNotesKept ==
  ASSUME TypeOK, OpOK, PaneInv, PanesStay,
         \/ op' = op
         \/ \E p \in Procs, o \in Operation :
              NotesOK(o) /\ PaneNotes(o) /\ op' = [op EXCEPT ![p] = o]
  PROVE  \A q \in Procs : PaneNotes(op[q])'
<1> SUFFICES ASSUME NEW q \in Procs
             PROVE  PaneNotes(op[q])'
  OBVIOUS
<1>1. PICK o \in Operation : NotesOK(o) /\ PaneNotes(o) /\ op'[q] = o
  BY DEF TypeOK, OpOK, PaneInv
<1>. QED BY <1>1, PaneNotesStay DEF PaneNotes, Lost

LEMMA PaneLostIsAReason == None # "pane_lost"
BY NoneAssumption

LEMMA IdleHasNoPanes == PaneNotes(Idle)
BY DEF PaneNotes, Idle

\* A process goes on to a list of launches, or to the next one of it.
LEMMA ProceedKeepsPanes ==
  ASSUME NEW o \in Operation, o.key = None => (o.reason = "pane_lost" => \A l \in o.todo : Lost(l))
  PROVE  PaneNotes(Proceed(o))
<1>1. CASE o.key # None
  BY <1>1, ToClaimOK DEF Proceed, PaneNotes, Operation
<1>2. CASE o.key = None
  BY <1>2 DEF Proceed, PaneNotes, Idle, Operation
<1>. QED BY <1>1, <1>2

LEMMA ReadKeepsPanes ==
  ASSUME TypeOK, NEW o \in Operation, NEW l \in Launches,
         NEW target \in {"FAILED", "TERMINATING", "QUARANTINED"},
         NEW reason \in QuarantineReasons \cup {None},
         o.reason = "pane_lost" => \A m \in o.todo : Lost(m),
         reason = "pane_lost" => Lost(l) /\ \A m \in o.todo : Lost(m)
  PROVE  PaneNotes(ReadThenCas(o, l, target, reason))
<1> DEFINE r == ReadThenCas(o, l, target, reason)
<1>1. CASE can_transition_to(reg[l].status, target)
  <2>1. r.at = "cas" /\ r.launch = l /\ r.reason = reason /\ r.todo = o.todo
    BY <1>1 DEF ReadThenCas, Operation
  <2>2. PaneNotes(r)
    <3>. HIDE DEF r
    <3>. QED BY <2>1 DEF PaneNotes
  <2>. QED BY <2>2
<1>2. CASE ~can_transition_to(reg[l].status, target)
  BY <1>2, ProceedKeepsPanes DEF ReadThenCas
<1>. QED BY <1>1, <1>2

\* What the transactions that change the table do to the panes.
LEMMA TableKeepsPanes ==
  ASSUME TypeOK, OpOK, PaneInv, [Next]_vars
  PROVE  PanesStay /\ PanesAreConfirmed' /\ PaneLostIsTrue'
<1>1. ASSUME NEW p \in Procs, NEW l \in Launches, RequestClaim(p, l)
      PROVE  PanesStay /\ PanesAreConfirmed' /\ PaneLostIsTrue'
  <2> DEFINE row == [NoRow EXCEPT !.status = "RESERVED", !.key = op[p].key,
                             !.created = now, !.lease = now + LeaseDuration,
                             !.parent = op[p].parent]
  <2>1. row.pane = FALSE /\ row.reason = None
    BY DEF NoRow
  <2>2. reg' = [reg EXCEPT ![l] = row] /\ alive' = alive /\ unlisted' = unlisted
    BY <1>1 DEF RequestClaim
  <2>3. ~reg[l].pane
    BY <1>1 DEF RequestClaim, Exists, PaneInv, PanesAreConfirmed
  <2>4. None # "pane_lost"
    BY PaneLostIsAReason
  <2> HIDE DEF row
  <2>5. reg'[l] = row /\ \A m \in Launches \ {l} : reg'[m] = reg[m]
    BY <2>2 DEF TypeOK
  <2>. QED
    BY <2>1, <2>2, <2>3, <2>4, <2>5
    DEF PanesStay, Lost, PaneInv, PanesAreConfirmed, PaneLostIsTrue
<1>2. ASSUME NEW l \in Launches, NEW from \in LaunchStatus, NEW to \in LaunchStatus,
             NEW reason \in QuarantineReasons \cup {None},
             reg' = CasRow(l, from, to, reason), alive' = alive, unlisted' = unlisted,
             to \notin {"RESERVED", "SPAWNING"} \/ from = "RESERVED",
             reason = "pane_lost" => Lost(l)
      PROVE  PanesStay /\ PanesAreConfirmed' /\ PaneLostIsTrue'
  <2>1. \A m \in Launches :
          /\ reg'[m].pane = reg[m].pane
          /\ reg'[m].status = IF m = l /\ reg[l].status = from THEN to ELSE reg[m].status
          /\ reg'[m].reason = IF m = l /\ reg[l].status = from /\ reason # None
                              THEN reason ELSE reg[m].reason
    BY <1>2, CasRowFacts
  <2>2. to # "ABSENT"
    BY DEF LaunchStatus
  <2>3. PanesStay
    BY <1>2, <2>1 DEF PanesStay, Lost
  <2>4. PanesAreConfirmed'
    BY <1>2, <2>1, <2>2 DEF PaneInv, PanesAreConfirmed
  <2>5. PaneLostIsTrue'
    BY <1>2, <2>1 DEF PaneInv, PaneLostIsTrue, Lost
  <2>. QED BY <2>3, <2>4, <2>5
<1>3. ASSUME NEW l \in Launches, confirm_spawning(l) \/ confirm_terminated(l)
      PROVE  PanesStay /\ PanesAreConfirmed' /\ PaneLostIsTrue'
  <2>1. {"RESERVED", "SPAWNING", "TERMINATING", "TERMINATED"} \subseteq LaunchStatus
    BY DEF LaunchStatus
  <2>2. None # "pane_lost"
    BY PaneLostIsAReason
  <2>. QED BY <1>2, <1>3, <2>1, <2>2 DEF confirm_spawning, confirm_terminated
<1>4. ASSUME NEW l \in Launches, NEW pane \in PaneChoices, confirm_active(l, pane)
      PROVE  PanesStay /\ PanesAreConfirmed' /\ PaneLostIsTrue'
  <2>1. reg[l] \in AgentLaunch /\ reg[l].status = "SPAWNING"
    BY <1>4 DEF confirm_active, TypeOK, NoRow
  <2> DEFINE row == ActiveRow(reg[l], pane)
  <2>2. row.status = "ACTIVE" /\ row.reason = reg[l].reason
    BY <2>1 DEF ActiveRow, AgentLaunch
  <2>3. /\ reg' = [reg EXCEPT ![l] = row] /\ alive' \subseteq alive \cup {l}
        /\ unlisted' = unlisted
    BY <1>4 DEF confirm_active
  <2> HIDE DEF row
  <2>4. reg'[l] = row /\ \A m \in Launches \ {l} : reg'[m] = reg[m]
    BY <2>3 DEF TypeOK
  <2>5. ~reg[l].pane /\ reg[l].reason # "pane_lost"
    BY <2>1 DEF PaneInv, PanesAreConfirmed, PaneLostIsTrue
  <2>. QED
    BY <2>2, <2>3, <2>4, <2>5
    DEF PanesStay, Lost, PaneInv, PanesAreConfirmed, PaneLostIsTrue
<1>5. ASSUME NEW p \in Procs, Cas(p)
      PROVE  PanesStay /\ PanesAreConfirmed' /\ PaneLostIsTrue'
  <2>1. /\ op[p].launch \in Launches /\ op[p].seen \in LaunchStatus
        /\ op[p].target \in {"FAILED", "TERMINATING", "QUARANTINED"}
        /\ op[p].target \in LaunchStatus
        /\ op[p].reason \in QuarantineReasons \cup {None}
        /\ op[p].reason = "pane_lost" => Lost(op[p].launch)
    BY <1>5 DEF Cas, TypeOK, OpOK, NotesOK, Operation, LaunchStatus, PaneInv, PaneNotes
  <2>. QED BY <1>2, <1>5, <2>1 DEF Cas
<1>6. ASSUME reg' = reg, alive' \subseteq alive, unlisted \subseteq unlisted'
      PROVE  PanesStay /\ PanesAreConfirmed' /\ PaneLostIsTrue'
  BY <1>6 DEF PanesStay, Lost, PaneInv, PanesAreConfirmed, PaneLostIsTrue
<1>7. ASSUME NEW p \in Procs,
             \/ \E k \in Keys, par \in ParentChoices : RequestFind(p, k, par)
             \/ RequestReread(p) \/ RequestWalk(p) \/ RequestLost(p)
             \/ Abort(p) \/ Reconcile(p)
             \/ \E l \in Launches : \/ mark_failed(p, l)
                                     \/ begin_termination(p, l)
                                     \/ quarantine(p, l)
      PROVE  UNCHANGED <<reg, alive>> /\ unlisted \subseteq unlisted'
  BY <1>7 DEF RequestFind, RequestReread, RequestWalk, RequestLost, Abort,
       Reconcile, reconcile_expired_leases, reconcile_lost_panes, QueryPanes, Sweep,
       mark_failed, begin_termination, quarantine, ReadFor
<1>8. ASSUME Tick \/ (\E l \in Launches : PaneDies(l)) \/ UNCHANGED vars
      PROVE  reg' = reg /\ alive' \subseteq alive /\ unlisted' = unlisted
  BY <1>8 DEF Tick, PaneDies, vars
<1> QED
  BY <1>1, <1>3, <1>4, <1>5, <1>6, <1>7, <1>8 DEF Next, Request, Manage, Confirm

LEMMA PaneNotesStep ==
  ASSUME TypeOK, OpOK, PaneInv, [Next]_vars
  PROVE  \A q \in Procs : PaneNotes(op[q])'
<1>0. PanesStay
  BY TableKeepsPanes
<1>1. ASSUME NEW p \in Procs, NEW k \in Keys, NEW par \in ParentChoices,
             RequestFind(p, k, par)
      PROVE  \A q \in Procs : PaneNotes(op[q])'
  <2> DEFINE claim == ToClaim(k, par)
             again(l) == [Idle EXCEPT !.at = "read", !.key = k, !.parent = par,
                                      !.launch = l]
  <2>1. claim \in Operation /\ NotesOK(claim) /\ PaneNotes(claim)
    BY LineageAssumption, ToClaimOK DEF PaneNotes
  <2>2. ASSUME NEW l \in Launches
        PROVE  again(l) \in Operation /\ NotesOK(again(l)) /\ PaneNotes(again(l))
    BY LineageAssumption, IdleOK DEF Operation, Steps, NotesOK, PaneNotes
  <2>3. \/ op' = [op EXCEPT ![p] = claim]
        \/ op' = [op EXCEPT ![p] = Idle]
        \/ \E l \in Launches : op' = [op EXCEPT ![p] = again(l)]
    BY <1>1 DEF RequestFind, find_active, Blocking
  <2> HIDE DEF claim, again
  <2>. QED BY <1>0, <2>1, <2>2, <2>3, IdleOK, IdleHasNoPanes, PaneNotesKept
<1>2. ASSUME NEW p \in Procs, RequestReread(p)
      PROVE  \A q \in Procs : PaneNotes(op[q])'
  <2> DEFINE o == ReadThenCas(op[p], op[p].launch, "QUARANTINED", "lease_expired")
  <2>1. /\ op[p] \in Operation /\ op[p].launch \in Launches
        /\ op[p].at = "read" /\ op[p].key # None
    BY <1>2, NoneAssumption DEF RequestReread, TypeOK, OpOK, NotesOK
  <2>2. "lease_expired" \in QuarantineReasons \cup {None}
    BY DEF QuarantineReasons
  <2>3. o \in Operation /\ NotesOK(o)
    BY <2>1, <2>2, ReadThenCasFacts
  <2>4. PaneNotes(o)
    <3>1. CASE can_transition_to(reg[op[p].launch].status, "QUARANTINED")
      <4>1. o.at = "cas" /\ o.reason = "lease_expired"
        BY <2>1, <3>1 DEF ReadThenCas, Operation
      <4> HIDE DEF o
      <4>. QED BY <4>1 DEF PaneNotes
    <3>2. CASE ~can_transition_to(reg[op[p].launch].status, "QUARANTINED")
      BY <2>1, <3>2, ProceedKeepsPanes DEF ReadThenCas
    <3>. QED BY <3>1, <3>2
  <2>5. op' = [op EXCEPT ![p] = o]
    BY <1>2 DEF RequestReread
  <2> HIDE DEF o
  <2>. QED BY <1>0, <2>3, <2>4, <2>5, PaneNotesKept
<1>3. ASSUME NEW p \in Procs,
             \/ RequestWalk(p) \/ RequestLost(p) \/ Abort(p)
             \/ \E l \in Launches : RequestClaim(p, l)
      PROVE  \A q \in Procs : PaneNotes(op[q])'
  <2>1. CASE RequestWalk(p)
    <3>1. /\ op[p] \in Operation /\ NotesOK(op[p]) /\ op[p].at = "walk"
          /\ op' = [op EXCEPT ![p] = Walked(op[p], MaxLineageDepth)]
      BY <2>1 DEF RequestWalk, TypeOK, OpOK
    <3>2. PaneNotes(Walked(op[p], MaxLineageDepth))
      BY <3>1, WalkedOK DEF PaneNotes
    <3>. QED BY <1>0, <3>1, <3>2, WalkedOK, PaneNotesKept
  <2>2. CASE op' = [op EXCEPT ![p] = Idle]
    BY <1>0, <2>2, IdleOK, IdleHasNoPanes, PaneNotesKept
  <2>. QED BY <1>3, <2>1, <2>2 DEF RequestLost, Abort, RequestClaim
<1>4. ASSUME NEW p \in Procs, NEW l \in Launches,
             mark_failed(p, l) \/ begin_termination(p, l) \/ quarantine(p, l)
      PROVE  \A q \in Procs : PaneNotes(op[q])'
  <2>1. PICK target \in {"FAILED", "TERMINATING", "QUARANTINED"},
             reason \in {"requested", None} : ReadFor(p, l, target, reason)
    BY <1>4 DEF mark_failed, begin_termination, quarantine
  <2> DEFINE o == ReadThenCas(Idle, l, target, reason)
  <2>2. reason \in QuarantineReasons \cup {None} /\ reason # "pane_lost"
    BY PaneLostIsAReason DEF QuarantineReasons
  <2>3. o \in Operation /\ NotesOK(o)
    BY <2>2, IdleOK, ReadThenCasFacts
  <2>4. Idle.todo = {} /\ Idle.reason # "pane_lost"
    BY PaneLostIsAReason DEF Idle
  <2>5. PaneNotes(o)
    BY <2>2, <2>4, IdleOK, ReadKeepsPanes
  <2>6. op' = [op EXCEPT ![p] = o]
    BY <2>1 DEF ReadFor
  <2> HIDE DEF o
  <2>. QED BY <1>0, <2>3, <2>5, <2>6, PaneNotesKept
<1>5. ASSUME NEW p \in Procs, Cas(p)
      PROVE  \A q \in Procs : PaneNotes(op[q])'
  <2>1. op[p] \in Operation /\ op[p].at = "cas" /\ op' = [op EXCEPT ![p] = Proceed(op[p])]
    BY <1>5 DEF Cas, TypeOK
  <2>2. op[p].reason = "pane_lost" => \A l \in op[p].todo : Lost(l)
    BY <2>1 DEF PaneInv, PaneNotes
  <2>3. PaneNotes(Proceed(op[p]))
    BY <2>1, <2>2, ProceedKeepsPanes
  <2>4. Proceed(op[p]) \in Operation /\ NotesOK(Proceed(op[p]))
    BY <2>1, ProceedFacts
  <2>. QED BY <1>0, <2>1, <2>3, <2>4, PaneNotesKept
<1>6. ASSUME NEW p \in Procs, reconcile_expired_leases(p) \/ reconcile_lost_panes(p)
      PROVE  \A q \in Procs : PaneNotes(op[q])'
  <2>1. ASSUME NEW todo \in SUBSET Launches
        PROVE  LET o1 == [Idle EXCEPT !.at = "sweep", !.reason = "lease_expired",
                                      !.todo = todo]
                   o2 == [Idle EXCEPT !.at = "panes", !.todo = todo]
               IN  /\ o1 \in Operation /\ NotesOK(o1) /\ PaneNotes(o1)
                   /\ o2 \in Operation /\ NotesOK(o2)
                   /\ (\A l \in todo : reg[l].pane) => PaneNotes(o2)
    BY IdleOK DEF Operation, Steps, QuarantineReasons, NotesOK, PaneNotes
  <2>2. list_expired_leases \in SUBSET Launches
    BY DEF list_expired_leases
  <2>3. PICK o \in Operation : NotesOK(o) /\ PaneNotes(o) /\ op' = [op EXCEPT ![p] = o]
    <3>1. CASE reconcile_expired_leases(p)
      BY <2>1, <2>2, <3>1 DEF reconcile_expired_leases
    <3>2. CASE reconcile_lost_panes(p)
      <4>1. PICK todo \in SUBSET Launches :
              /\ \A l \in todo : reg[l].pane
              /\ op' = [op EXCEPT ![p] = [Idle EXCEPT !.at = "panes", !.todo = todo]]
        BY <3>2 DEF reconcile_lost_panes
      <4>. QED BY <2>1, <4>1
    <3>. QED BY <1>6, <3>1, <3>2
  <2>. QED BY <1>0, <2>3, PaneNotesKept
<1>7. ASSUME NEW p \in Procs, QueryPanes(p)
      PROVE  \A q \in Procs : PaneNotes(op[q])'
  <2>1. PICK lost \in {op[p].todo \ alive, op[p].todo, {}} :
          /\ op' = [op EXCEPT ![p] = Proceed([Idle EXCEPT !.reason = "pane_lost", !.todo = lost])]
          /\ unlisted' = unlisted \cup (lost \cap alive)
    BY <1>7 DEF QueryPanes
  <2>2. lost \in SUBSET Launches /\ \A l \in lost : Lost(l)'
    BY <1>7, <2>1 DEF QueryPanes, TypeOK, Operation, PaneInv, PaneNotes, Lost
  <2>3. PaneNotes(op[p])'
    <3> DEFINE o == [Idle EXCEPT !.reason = "pane_lost", !.todo = lost]
    <3>1. o.key = None /\ o.todo = lost
      BY DEF Idle
    <3> HIDE DEF o
    <3>2. /\ Proceed(o).at \in {"sweep", "idle"}
          /\ Proceed(o).at = "sweep" => Proceed(o).todo = lost
      BY <3>1 DEF Proceed, Idle
    <3>3. op'[p] = Proceed(o)
      BY <2>1 DEF TypeOK, o
    <3>. QED BY <2>2, <3>2, <3>3 DEF PaneNotes, Lost
  <2>4. ASSUME NEW q \in Procs \ {p}
        PROVE  PaneNotes(op[q])'
    <3>1. op'[q] = op[q] /\ op[q] \in Operation /\ NotesOK(op[q]) /\ PaneNotes(op[q])
      BY <2>1 DEF TypeOK, OpOK, PaneInv
    <3>. QED BY <1>0, <3>1, PaneNotesStay DEF PaneNotes, Lost
  <2>. QED BY <2>3, <2>4
<1>8. ASSUME NEW p \in Procs, NEW l \in Launches, Sweep(p, l)
      PROVE  \A q \in Procs : PaneNotes(op[q])'
  <2> DEFINE c == [op[p] EXCEPT !.todo = op[p].todo \ {l}]
             o == ReadThenCas(c, l, "QUARANTINED", op[p].reason)
  <2>1. /\ c \in Operation /\ op[p].reason \in QuarantineReasons \cup {None}
        /\ c.todo = op[p].todo \ {l} /\ c.reason = op[p].reason
    BY DEF TypeOK, Operation
  <2>2. op[p].at = "sweep" /\ l \in op[p].todo /\ op' = [op EXCEPT ![p] = o]
    BY <1>8 DEF Sweep
  <2>3. op[p].reason = "pane_lost" => \A m \in op[p].todo : Lost(m)
    BY <2>2 DEF PaneInv, PaneNotes
  <2> HIDE DEF c
  <2>4. o \in Operation /\ NotesOK(o)
    BY <2>1, ReadThenCasFacts
  <2>5. PaneNotes(o)
    BY <2>1, <2>2, <2>3, ReadKeepsPanes
  <2> HIDE DEF o
  <2>. QED BY <1>0, <2>2, <2>4, <2>5, PaneNotesKept
<1>9. ASSUME Tick \/ (\E l \in Launches : Confirm(l)) \/ UNCHANGED vars
      PROVE  \A q \in Procs : PaneNotes(op[q])'
  <2>1. op' = op
    BY <1>9 DEF Tick, Confirm, confirm_spawning, confirm_active, confirm_terminated, PaneDies, vars
  <2>. QED BY <1>0, <2>1, PaneNotesKept
<1> QED
  BY <1>1, <1>2, <1>3, <1>4, <1>5, <1>6, <1>7, <1>8, <1>9
  DEF Next, Request, Reconcile, Manage

LEMMA PaneInit == Init => PaneInv
BY IdleHasNoPanes, PaneLostIsAReason
DEF Init, PaneInv, PanesAreConfirmed, PaneLostIsTrue, NoRow, PaneNotes, Idle

\* reconcile_lost_panes: the list of launches, the answer of tmux and each
\* compare-and-set are separate steps, and a launch it quarantines had a pane
\* and has lost it, or ran in it when a list-panes failed.
THEOREM LostPanesAreLost == Spec => []PaneLostIsTrue
<1>1. TypeOK /\ OpOK /\ PaneInv /\ [Next]_vars => PaneInv'
  BY TableKeepsPanes, PaneNotesStep DEF PaneInv
<1>2. PaneInv => PaneLostIsTrue
  BY DEF PaneInv
<1> QED BY TypeCorrect, PaneInit, <1>1, <1>2, PTL DEF Spec

-----------------------------------------------------------------------------
(* Lineage: every row's parent is a row, so that the ancestors a new row is *)
(* checked against are not changed by it.  Ancestor is a recursive function *)
(* of the depth; what is said of every depth is proved by looking at the    *)
(* smallest one where it fails.                                             *)

Below == {ss \in Nat \X Nat : ss[1] < ss[2]}

LEMMA SmallestNumber ==
  ASSUME NEW S \in SUBSET Nat, S # {}
  PROVE  \E v \in S : \A w \in S : v <= w
<1>1. IsWellFoundedOn(Below, Nat)
  BY NatLessThanWellFounded, Zenon DEF OpToRel, Below
<1>2. PICK v \in S : \A w \in S : ~(<<w, v>> \in Below)
  BY <1>1, WFMin
<1>3. ASSUME NEW w \in S
      PROVE  v <= w
  <2>1. v \in Nat /\ w \in Nat
    OBVIOUS
  <2>2. w < v => <<w, v>> \in Below
    BY <2>1 DEF Below
  <2>. QED BY <1>2, <2>1, <2>2
<1>. QED BY <1>3

Depths == 1..MaxLineageDepth

\* The next ancestor after launch l in a table.
ParentIn(table, l) == IF l = None THEN None ELSE table[l].parent

\* What Ancestor computes, in any table.
AncestorIn(table, par) ==
  LET anc[n \in 1..MaxLineageDepth] ==
        IF n = 1 THEN par
        ELSE IF anc[n - 1] = None THEN None
        ELSE table[anc[n - 1]].parent
  IN  anc

Chain(table, par, f, n) ==
  \A i \in 1..n : f[i] = IF i = 1 THEN par ELSE ParentIn(table, f[i - 1])

\* There is a chain of any length.
LEMMA ChainExists ==
  ASSUME NEW table, NEW par, NEW n \in Nat
  PROVE  \E f : f = [i \in 1..n |-> f[i]] /\ Chain(table, par, f, n)
<1> DEFINE Has(k) == \E f : f = [i \in 1..k |-> f[i]] /\ Chain(table, par, f, k)
           S == {k \in Nat : ~Has(k)}
<1>1. SUFFICES S = {}
  OBVIOUS
<1>2. SUFFICES ASSUME S # {} PROVE FALSE
  OBVIOUS
<1>3. PICK k \in S : \A j \in S : k <= j
  <2>. HIDE DEF S
  <2>1. S \in SUBSET Nat
    BY DEF S
  <2>. QED BY <1>2, <2>1, SmallestNumber
<1>4. CASE k = 0
  <2> DEFINE f == [i \in 1..0 |-> None]
  <2>1. f = [i \in 1..0 |-> f[i]] /\ Chain(table, par, f, 0)
    BY DEF Chain
  <2>. QED BY <1>3, <1>4, <2>1
<1>5. CASE k # 0
  <2>1. k - 1 \in Nat /\ k - 1 \notin S
    BY <1>3, <1>5
  <2>2. PICK g : g = [i \in 1..(k - 1) |-> g[i]] /\ Chain(table, par, g, k - 1)
    BY <2>1
  <2> DEFINE f == [i \in 1..k |-> IF i = k THEN IF k = 1 THEN par ELSE ParentIn(table, g[k - 1])
                                  ELSE g[i]]
  <2>3. \A i \in 1..k : f[i] = IF i = 1 THEN par ELSE ParentIn(table, f[i - 1])
    <3>1. SUFFICES ASSUME NEW i \in 1..k
                   PROVE  f[i] = IF i = 1 THEN par ELSE ParentIn(table, f[i - 1])
      OBVIOUS
    <3>2. CASE i = k /\ k = 1
      BY <3>2
    <3>3. CASE i = k /\ k # 1
      <4>1. i - 1 \in 1..k /\ i - 1 # k
        BY <1>3, <3>3
      <4>. QED BY <3>3, <4>1
    <3>4. CASE i # k
      <4>1. i \in 1..(k - 1) /\ (i # 1 => i - 1 \in 1..k /\ i - 1 # k)
        BY <1>3, <3>4
      <4>2. g[i] = IF i = 1 THEN par ELSE ParentIn(table, g[i - 1])
        BY <2>2, <4>1 DEF Chain
      <4>. QED BY <3>4, <4>1, <4>2
    <3>. QED BY <3>2, <3>3, <3>4
  <2>4. f = [i \in 1..k |-> f[i]]
    OBVIOUS
  <2>5. Has(k)
    <3>. HIDE DEF f
    <3>. QED BY <2>3, <2>4 DEF Chain
  <2>. QED BY <1>3, <2>5
<1>. QED BY <1>4, <1>5

LEMMA AncestorFacts ==
  ASSUME NEW table, NEW par
  PROVE  \A n \in Depths :
           AncestorIn(table, par)[n] =
             IF n = 1 THEN par ELSE ParentIn(table, AncestorIn(table, par)[n - 1])
<1> DEFINE Unfold(f) == [n \in 1..MaxLineageDepth |->
                           IF n = 1 THEN par
                           ELSE IF f[n - 1] = None THEN None
                           ELSE table[f[n - 1]].parent]
           anc == CHOOSE f : f = Unfold(f)
<1>1. AncestorIn(table, par) = anc
  BY DEF AncestorIn
<1>2. PICK f : f = [i \in Depths |-> f[i]] /\ Chain(table, par, f, MaxLineageDepth)
  BY ChainExists, LineageAssumption DEF Depths
<1>3. f = Unfold(f)
  BY <1>2 DEF Chain, Depths, ParentIn
<1>4. anc = Unfold(anc)
  <2>. HIDE DEF Unfold
  <2>. QED BY <1>3
<1>5. \A n \in Depths : anc[n] = IF n = 1 THEN par ELSE ParentIn(table, anc[n - 1])
  <2>1. \A a : a = Unfold(a) =>
          \A n \in Depths : a[n] = IF n = 1 THEN par ELSE ParentIn(table, a[n - 1])
    BY DEF Depths, ParentIn
  <2>. HIDE DEF anc
  <2>. QED BY <1>4, <2>1
<1>. QED BY <1>1, <1>5

\* The ancestors of a row are rows, and a table in which the rows have kept
\* their parents gives it the same ones.
ParentsKept(table) ==
  \A l \in Launches : Exists(l) =>
    /\ table[l].parent = reg[l].parent
    /\ reg[l].parent \in Launches \cup {None}
    /\ reg[l].parent # None => Exists(reg[l].parent)

SameAncestor(table, par, n) ==
  /\ AncestorIn(table, par)[n] = Ancestor(par)[n]
  /\ Ancestor(par)[n] # None => Exists(Ancestor(par)[n])

LEMMA AncestorsStay ==
  ASSUME TypeOK, NEW table, NEW par \in Launches \cup {None}, par # None => Exists(par),
         ParentsKept(table), NEW m \in Depths
  PROVE  SameAncestor(table, par, m)
<1> DEFINE a(n) == AncestorIn(reg, par)[n]
           b(n) == AncestorIn(table, par)[n]
           Same(n) == /\ b(n) = a(n)
                      /\ a(n) \in Launches \cup {None}
                      /\ a(n) # None => Exists(a(n))
           S == {n \in Depths : ~Same(n)}
<1>0. /\ Ancestor(par) = AncestorIn(reg, par)
      /\ \A n \in Depths : /\ a(n) = IF n = 1 THEN par ELSE ParentIn(reg, a(n - 1))
                           /\ b(n) = IF n = 1 THEN par ELSE ParentIn(table, b(n - 1))
  <2>1. Ancestor(par) = AncestorIn(reg, par)
    BY DEF Ancestor, AncestorIn
  <2>2. \A n \in Depths : a(n) = IF n = 1 THEN par ELSE ParentIn(reg, a(n - 1))
    BY AncestorFacts
  <2>3. \A n \in Depths : b(n) = IF n = 1 THEN par ELSE ParentIn(table, b(n - 1))
    BY AncestorFacts
  <2>. QED BY <2>1, <2>2, <2>3
<1>. HIDE DEF a, b
<1>1. SUFFICES ASSUME S # {} PROVE FALSE
  BY <1>0 DEF a, b, SameAncestor
<1>2. PICK n \in S : \A j \in S : n <= j
  <2>. HIDE DEF S
  <2>1. S \in SUBSET Nat
    BY LineageAssumption DEF S, Depths
  <2>. QED BY <1>1, <2>1, SmallestNumber
<1>3. CASE n = 1
  BY <1>0, <1>2, <1>3
<1>4. CASE n # 1
  <2>1. n - 1 \in Depths /\ n - 1 \notin S /\ n \in Depths
    BY <1>2, <1>4, LineageAssumption DEF Depths
  <2>2. Same(n - 1)
    BY <2>1
  <2>3. a(n) = ParentIn(reg, a(n - 1)) /\ b(n) = ParentIn(table, b(n - 1))
    BY <1>0, <1>4, <2>1
  <2>4. Same(n)
    BY <2>2, <2>3 DEF ParentIn, ParentsKept
  <2>. QED BY <1>2, <2>4
<1>. QED BY <1>3, <1>4

\* Beyond the root there are no ancestors.
LEMMA NoneAboveTheRoot ==
  ASSUME NEW table, NEW par, NEW d \in Depths, AncestorIn(table, par)[d] = None
  PROVE  AncestorIn(table, par)[MaxLineageDepth] = None
<1> DEFINE a(n) == AncestorIn(table, par)[n]
           S == {n \in Depths : d <= n /\ a(n) # None}
<1>0. /\ a(d) = None
      /\ \A n \in Depths : a(n) = IF n = 1 THEN par ELSE ParentIn(table, a(n - 1))
  BY AncestorFacts
<1>. HIDE DEF a
<1>1. SUFFICES ASSUME S # {} PROVE FALSE
  BY LineageAssumption DEF Depths, a
<1>2. PICK n \in S : \A j \in S : n <= j
  <2>. HIDE DEF S
  <2>1. S \in SUBSET Nat
    BY LineageAssumption DEF S, Depths
  <2>. QED BY <1>1, <2>1, SmallestNumber
<1>3. n # d /\ n # 1
  BY <1>0, <1>2 DEF Depths
<1>4. n - 1 \in Depths /\ d <= n - 1 /\ n - 1 \notin S /\ n \in Depths
  BY <1>2, <1>3, LineageAssumption DEF Depths
<1>5. a(n) = ParentIn(table, None)
  BY <1>0, <1>3, <1>4
<1>. QED BY <1>2, <1>5 DEF ParentIn

ParentsExist == \A l \in Launches : Exists(l) /\ reg[l].parent # None => Exists(reg[l].parent)

\* A parent under which the walk lets a launch be claimed.
ValidParent(par) ==
  par # None => Exists(par) /\ Ancestor(par)[MaxLineageDepth] = None

\* What the walk has established so far.
WalkNotes(o) ==
  /\ o.at = "claim" => ValidParent(o.parent)
  /\ o.at = "walk" => /\ Ancestor(o.parent)[o.depth] = o.launch
                      /\ o.depth # 1 => Exists(o.parent)

LineageInv ==
  /\ ParentsExist
  /\ LineageBounded
  /\ \A p \in Procs : WalkNotes(op[p])

LEMMA FirstAncestor ==
  ASSUME NEW table, NEW par
  PROVE  AncestorIn(table, par)[1] = par
BY AncestorFacts, LineageAssumption DEF Depths

LEMMA ToClaimWalks ==
  ASSUME NEW k, NEW par
  PROVE  WalkNotes(ToClaim(k, par))
<1>1. Ancestor(par)[1] = par
  <2>1. Ancestor(par) = AncestorIn(reg, par)
    BY DEF Ancestor, AncestorIn
  <2>. QED BY <2>1, FirstAncestor
<1>2. CASE par = None
  BY <1>2 DEF WalkNotes, ToClaim, Idle, ValidParent
<1>3. CASE par # None
  <2> DEFINE o == ToClaim(k, par)
  <2>1. o.at = "walk" /\ o.parent = par /\ o.launch = par /\ o.depth = 1
    BY <1>3 DEF ToClaim, Idle
  <2> HIDE DEF o
  <2>2. WalkNotes(o)
    BY <1>1, <2>1 DEF WalkNotes
  <2>. QED BY <2>2 DEF o
<1>. QED BY <1>2, <1>3

LEMMA ProceedWalks ==
  ASSUME NEW o \in Operation
  PROVE  WalkNotes(Proceed(o))
<1>1. CASE o.key # None
  BY <1>1, ToClaimWalks DEF Proceed
<1>2. CASE o.key = None
  BY <1>2 DEF Proceed, WalkNotes, Idle
<1>. QED BY <1>1, <1>2

LEMMA ReadThenCasWalks ==
  ASSUME NEW o \in Operation, NEW l, NEW target, NEW reason
  PROVE  WalkNotes(ReadThenCas(o, l, target, reason))
<1>1. CASE can_transition_to(reg[l].status, target)
  <2>1. ReadThenCas(o, l, target, reason).at = "cas"
    BY <1>1 DEF ReadThenCas, Operation
  <2>. QED BY <2>1 DEF WalkNotes
<1>2. CASE ~can_transition_to(reg[l].status, target)
  BY <1>2, ProceedWalks DEF ReadThenCas
<1>. QED BY <1>1, <1>2

\* One step of the walk: the row it reads is the next ancestor, so that the
\* walk ends at the root, or before it has gone MAX_LINEAGE_DEPTH far.
LEMMA WalkedWalks ==
  ASSUME TypeOK, ParentsExist, NEW o \in Operation, NotesOK(o), WalkNotes(o), o.at = "walk"
  PROVE  WalkNotes(Walked(o, MaxLineageDepth))
<1> DEFINE par == o.parent
           d == o.depth
           next == reg[o.launch].parent
           claim == [Idle EXCEPT !.at = "claim", !.key = o.key, !.parent = o.parent]
           on == [o EXCEPT !.launch = next, !.depth = d + 1]
<1>1. /\ par \in Launches /\ o.launch \in Launches /\ o.launch # None
      /\ d \in Depths /\ d + 1 \in Depths /\ d + 1 # 1 /\ (d + 1) - 1 = d
  BY LineageAssumption, NoneAssumption DEF NotesOK, Depths
<1>2. Ancestor(par)[d] = o.launch /\ (d # 1 => Exists(par))
  BY DEF WalkNotes
<1>3. Ancestor(par) = AncestorIn(reg, par)
  BY DEF Ancestor, AncestorIn
<1>4. Ancestor(par)[1] = par
  BY <1>3, FirstAncestor
<1>5. Ancestor(par)[d + 1] = next
  <2>1. AncestorIn(reg, par)[d + 1] = ParentIn(reg, AncestorIn(reg, par)[d])
    <3>1. \A n \in Depths : AncestorIn(reg, par)[n] =
             IF n = 1 THEN par ELSE ParentIn(reg, AncestorIn(reg, par)[n - 1])
      BY AncestorFacts
    <3>. HIDE DEF par, d
    <3>. QED BY <1>1, <3>1
  <2>. QED BY <1>1, <1>2, <1>3, <2>1 DEF ParentIn
<1>6. Exists(o.launch) => Exists(par)
  BY <1>2, <1>4
<1>7. d # 1 => Exists(o.launch)
  <2> SUFFICES ASSUME d # 1 PROVE Exists(o.launch)
    OBVIOUS
  <2>1. ParentsKept(reg)
    <3>1. \A l \in Launches : reg[l].parent \in Launches \cup {None}
      BY DEF TypeOK, AgentLaunch, NoRow
    <3>. QED BY <3>1 DEF ParentsExist, ParentsKept
  <2>2. SameAncestor(reg, par, d)
    <3>1. par \in Launches \cup {None} /\ (par # None => Exists(par))
      BY <1>1, <1>2
    <3> HIDE DEF par, d
    <3>. QED BY <1>1, <2>1, <3>1, AncestorsStay
  <2>. QED BY <1>1, <1>2, <2>2 DEF SameAncestor
<1>8. CASE Walked(o, MaxLineageDepth) = Idle
  BY <1>8 DEF WalkNotes, Idle
<1>9. CASE Walked(o, MaxLineageDepth) = claim /\ Exists(o.launch) /\ next = None
  <2>1. Ancestor(par)[MaxLineageDepth] = None
    <3>. HIDE DEF par, d
    <3>. QED BY <1>1, <1>3, <1>5, <1>9, NoneAboveTheRoot
  <2>2. claim.at = "claim" /\ claim.parent = par
    BY DEF Idle
  <2>. HIDE DEF claim
  <2>. QED BY <1>6, <1>9, <2>1, <2>2 DEF WalkNotes, ValidParent
<1>10. CASE Walked(o, MaxLineageDepth) = on /\ Exists(o.launch)
  <2>1. on.at = "walk" /\ on.parent = par /\ on.depth = d + 1 /\ on.launch = next
    BY DEF Operation
  <2>. HIDE DEF on
  <2>. QED BY <1>5, <1>6, <1>10, <2>1 DEF WalkNotes
<1>11. \/ Walked(o, MaxLineageDepth) = Idle
       \/ Walked(o, MaxLineageDepth) = claim /\ Exists(o.launch) /\ next = None
       \/ Walked(o, MaxLineageDepth) = on /\ Exists(o.launch)
  BY <1>7 DEF Walked
<1>. QED BY <1>8, <1>9, <1>10, <1>11

\* Rows are inserted and keep their parents.
Grows ==
  \A l \in Launches : Exists(l) =>
    /\ Exists(l)'
    /\ reg'[l].parent = reg[l].parent
    /\ reg[l].parent \in Launches \cup {None}
    /\ reg[l].parent # None => Exists(reg[l].parent)

LEMMA TableGrows ==
  ASSUME TypeOK, OpOK, ParentsExist, [Next]_vars
  PROVE  /\ Grows
         /\ \A l \in Launches : ~Exists(l) /\ Exists(l)' =>
              /\ reg'[l].parent \in Launches \cup {None}
              /\ \E p \in Procs : op[p].at = "claim" /\ reg'[l].parent = op[p].parent
<1>1. \A l \in Launches : reg[l].parent \in Launches \cup {None}
  BY DEF TypeOK, AgentLaunch, NoRow
<1>. QED BY <1>1, TableStep
         DEF Grows, ParentsExist, Inserted, Moved, OthersKept, LegalMoves, Exists

LEMMA AncestorsKept ==
  ASSUME TypeOK, Grows, NEW par \in Launches \cup {None}, par # None => Exists(par),
         NEW n \in Depths
  PROVE  AncestorIn(reg', par)[n] = Ancestor(par)[n]
<1>1. ParentsKept(reg')
  BY DEF Grows, ParentsKept
<1>2. SameAncestor(reg', par, n)
  BY <1>1, AncestorsStay
<1>. QED BY <1>2 DEF SameAncestor

LEMMA WalkNotesStay ==
  ASSUME TypeOK, Grows, NEW o \in Operation, NotesOK(o), WalkNotes(o)
  PROVE  /\ o.at = "claim" /\ o.parent # None =>
              Exists(o.parent)' /\ AncestorIn(reg', o.parent)[MaxLineageDepth] = None
         /\ o.at = "walk" => /\ AncestorIn(reg', o.parent)[o.depth] = o.launch
                             /\ o.depth # 1 => Exists(o.parent)'
<1>1. CASE o.at = "claim" /\ o.parent # None
  <2>1. /\ o.parent \in Launches /\ Exists(o.parent)
        /\ Ancestor(o.parent)[MaxLineageDepth] = None
    BY <1>1 DEF WalkNotes, ValidParent, Operation
  <2>2. MaxLineageDepth \in Depths
    BY LineageAssumption DEF Depths
  <2>. QED BY <1>1, <2>1, <2>2, AncestorsKept DEF Grows
<1>2. CASE o.at = "walk"
  <2>1. o.parent \in Launches /\ o.depth \in Depths
    BY <1>2, LineageAssumption DEF NotesOK, Depths
  <2>2. Ancestor(o.parent)[o.depth] = o.launch /\ (o.depth # 1 => Exists(o.parent))
    BY <1>2 DEF WalkNotes
  <2>3. CASE Exists(o.parent)
    BY <1>2, <2>1, <2>2, <2>3, AncestorsKept DEF Grows
  <2>4. CASE ~Exists(o.parent)
    <3>1. o.depth = 1
      BY <2>2, <2>4
    <3>2. Ancestor(o.parent) = AncestorIn(reg, o.parent)
      BY DEF Ancestor, AncestorIn
    <3>. QED BY <1>2, <2>2, <3>1, <3>2, FirstAncestor
  <2>. QED BY <2>3, <2>4
<1>. QED BY <1>1, <1>2

\* One process changes its notes, or none does.
LEMMA WalkNotesKept ==
  ASSUME TypeOK, OpOK, LineageInv, Grows,
         \/ op' = op
         \/ \E p \in Procs, o \in Operation :
              NotesOK(o) /\ WalkNotes(o) /\ op' = [op EXCEPT ![p] = o]
  PROVE  \A q \in Procs : WalkNotes(op[q])'
<1> SUFFICES ASSUME NEW q \in Procs
             PROVE  WalkNotes(op[q])'
  OBVIOUS
<1>1. PICK o \in Operation : NotesOK(o) /\ WalkNotes(o) /\ op'[q] = o
  BY DEF TypeOK, OpOK, LineageInv
<1>2. /\ o.at = "claim" /\ o.parent # None =>
           Exists(o.parent)' /\ AncestorIn(reg', o.parent)[MaxLineageDepth] = None
      /\ o.at = "walk" => /\ AncestorIn(reg', o.parent)[o.depth] = o.launch
                          /\ o.depth # 1 => Exists(o.parent)'
  BY <1>1, WalkNotesStay
<1>. QED BY <1>1, <1>2 DEF WalkNotes, ValidParent, Ancestor, AncestorIn, Exists

LEMMA WalkNotesStep ==
  ASSUME TypeOK, OpOK, LineageInv, [Next]_vars
  PROVE  \A q \in Procs : WalkNotes(op[q])'
<1>0. Grows
  BY TableGrows DEF LineageInv
<1>i. Idle \in Operation /\ NotesOK(Idle) /\ WalkNotes(Idle)
  BY IdleOK DEF WalkNotes
<1>1. SUFFICES \/ op' = op
               \/ \E p \in Procs : \E o \in Operation :
                    WalkNotes(o) /\ op' = [op EXCEPT ![p] = o]
  <2>1. OpOK' /\ TypeOK'
    BY TypeStep
  <2>2. ASSUME NEW p \in Procs, NEW o \in Operation, op' = [op EXCEPT ![p] = o]
        PROVE  NotesOK(o)
    BY <2>1, <2>2 DEF TypeOK, OpOK, NotesOK
  <2>. QED BY <1>0, <2>2, WalkNotesKept
<1>2. ASSUME NEW p \in Procs, NEW k \in Keys, NEW par \in ParentChoices,
             RequestFind(p, k, par)
      PROVE  \E o \in Operation : WalkNotes(o) /\ op' = [op EXCEPT ![p] = o]
  <2> DEFINE claim == ToClaim(k, par)
             again(l) == [Idle EXCEPT !.at = "read", !.key = k, !.parent = par,
                                      !.launch = l]
  <2>1. claim \in Operation /\ WalkNotes(claim)
    BY LineageAssumption, ToClaimOK, ToClaimWalks
  <2>2. ASSUME NEW l \in Launches
        PROVE  again(l) \in Operation /\ WalkNotes(again(l))
    BY LineageAssumption, IdleOK DEF Operation, Steps, WalkNotes
  <2>3. \/ op' = [op EXCEPT ![p] = claim]
        \/ op' = [op EXCEPT ![p] = Idle]
        \/ \E l \in Launches : op' = [op EXCEPT ![p] = again(l)]
    BY <1>2 DEF RequestFind, find_active, Blocking
  <2> HIDE DEF claim, again
  <2>. QED BY <1>i, <2>1, <2>2, <2>3
<1>3. ASSUME NEW p \in Procs, RequestWalk(p)
      PROVE  \E o \in Operation : WalkNotes(o) /\ op' = [op EXCEPT ![p] = o]
  <2>1. /\ op[p] \in Operation /\ NotesOK(op[p]) /\ WalkNotes(op[p]) /\ op[p].at = "walk"
        /\ op' = [op EXCEPT ![p] = Walked(op[p], MaxLineageDepth)]
    BY <1>3 DEF RequestWalk, TypeOK, OpOK, LineageInv
  <2>. QED BY <2>1, WalkedOK, WalkedWalks DEF LineageInv
<1>4. ASSUME NEW p \in Procs,
             \/ RequestReread(p) \/ Cas(p)
             \/ \E l \in Launches : \/ mark_failed(p, l)
                                     \/ begin_termination(p, l)
                                     \/ quarantine(p, l)
                                     \/ Sweep(p, l)
      PROVE  \E o \in Operation : WalkNotes(o) /\ op' = [op EXCEPT ![p] = o]
  <2>1. op[p] \in Operation
    BY DEF TypeOK
  <2>2. PICK o : op' = [op EXCEPT ![p] = o] /\ WalkNotes(o)
    <3>1. CASE Cas(p)
      BY <2>1, <3>1, ProceedWalks DEF Cas
    <3>2. CASE RequestReread(p)
      BY <2>1, <3>2, ReadThenCasWalks DEF RequestReread
    <3>3. ASSUME NEW l \in Launches,
                 mark_failed(p, l) \/ begin_termination(p, l) \/ quarantine(p, l)
          PROVE  \E o : op' = [op EXCEPT ![p] = o] /\ WalkNotes(o)
      BY <3>3, IdleOK, ReadThenCasWalks DEF mark_failed, begin_termination, quarantine, ReadFor
    <3>4. ASSUME NEW l \in Launches, Sweep(p, l)
          PROVE  \E o : op' = [op EXCEPT ![p] = o] /\ WalkNotes(o)
      <4> DEFINE c == [op[p] EXCEPT !.todo = op[p].todo \ {l}]
      <4>1. c \in Operation
        BY <2>1 DEF Operation
      <4>2. op' = [op EXCEPT ![p] = ReadThenCas(c, l, "QUARANTINED", op[p].reason)]
        BY <3>4 DEF Sweep
      <4>. HIDE DEF c
      <4>. QED BY <4>1, <4>2, ReadThenCasWalks
    <3>. QED BY <1>4, <3>1, <3>2, <3>3, <3>4
  <2>3. op'[p] = o /\ op' \in [Procs -> Operation]
    <3>1. TypeOK'
      BY TypeStep
    <3>. QED BY <2>2, <3>1 DEF TypeOK
  <2>. QED BY <2>2, <2>3
<1>5. ASSUME NEW p \in Procs,
             \/ RequestLost(p) \/ Abort(p)
             \/ \E l \in Launches : RequestClaim(p, l)
      PROVE  \E o \in Operation : WalkNotes(o) /\ op' = [op EXCEPT ![p] = o]
  <2>1. op' = [op EXCEPT ![p] = Idle]
    BY <1>5 DEF RequestLost, Abort, RequestClaim
  <2>. QED BY <1>i, <2>1
<1>6. ASSUME NEW p \in Procs, reconcile_expired_leases(p) \/ reconcile_lost_panes(p)
      PROVE  \E o \in Operation : WalkNotes(o) /\ op' = [op EXCEPT ![p] = o]
  <2>1. PICK o : op' = [op EXCEPT ![p] = o] /\ o.at \in {"sweep", "panes"}
    <3>1. \A todo : /\ [Idle EXCEPT !.at = "sweep", !.reason = "lease_expired",
                                    !.todo = todo].at = "sweep"
                    /\ [Idle EXCEPT !.at = "panes", !.todo = todo].at = "panes"
      BY DEF Idle
    <3>2. CASE reconcile_expired_leases(p)
      BY <3>1, <3>2 DEF reconcile_expired_leases
    <3>3. CASE reconcile_lost_panes(p)
      BY <3>1, <3>3 DEF reconcile_lost_panes
    <3>. QED BY <1>6, <3>2, <3>3
  <2>2. op'[p] = o /\ op' \in [Procs -> Operation]
    <3>1. TypeOK'
      BY TypeStep
    <3>. QED BY <2>1, <3>1 DEF TypeOK
  <2>. QED BY <2>1, <2>2 DEF WalkNotes
<1>7. ASSUME NEW p \in Procs, QueryPanes(p)
      PROVE  \E o \in Operation : WalkNotes(o) /\ op' = [op EXCEPT ![p] = o]
  <2>1. PICK lost \in SUBSET Launches :
          op' = [op EXCEPT ![p] =
                   Proceed([Idle EXCEPT !.reason = "pane_lost", !.todo = lost])]
    BY <1>7 DEF QueryPanes, TypeOK, Operation
  <2> DEFINE o == [Idle EXCEPT !.reason = "pane_lost", !.todo = lost]
  <2>2. o \in Operation
    BY IdleOK DEF Operation, Steps, QuarantineReasons
  <2> HIDE DEF o
  <2>. QED BY <2>1, <2>2, ProceedFacts, ProceedWalks DEF o
<1>8. ASSUME Tick \/ (\E l \in Launches : Confirm(l)) \/ UNCHANGED vars
      PROVE  op' = op
  BY <1>8 DEF Tick, Confirm, confirm_spawning, confirm_active, confirm_terminated, PaneDies, vars
<1> QED
  BY <1>2, <1>3, <1>4, <1>5, <1>6, <1>7, <1>8 DEF Next, Request, Reconcile, Manage

LEMMA LineageStep ==
  ASSUME TypeOK, OpOK, LineageInv, [Next]_vars
  PROVE  LineageInv'
<1>1. Grows
  BY TableGrows DEF LineageInv
<1>2. \A l \in Launches : Exists(l)' =>
        /\ reg'[l].parent \in Launches \cup {None}
        /\ ValidParent(reg'[l].parent)
  <2>1. ASSUME NEW l \in Launches, Exists(l)
        PROVE  /\ reg'[l].parent \in Launches \cup {None}
               /\ ValidParent(reg'[l].parent)
    BY <1>1, <2>1 DEF Grows, LineageInv, LineageBounded, ValidParent
  <2>2. ASSUME NEW l \in Launches, ~Exists(l), Exists(l)'
        PROVE  /\ reg'[l].parent \in Launches \cup {None}
               /\ ValidParent(reg'[l].parent)
    BY <2>2, TableGrows DEF LineageInv, WalkNotes
  <2>. QED BY <2>1, <2>2
<1>3. ParentsExist'
  BY <1>1, <1>2 DEF Grows, ParentsExist, ValidParent, Exists
<1>4. ASSUME NEW l \in Launches, Exists(l)'
      PROVE  AncestorIn(reg', reg'[l].parent)[MaxLineageDepth] = None
  <2> DEFINE par == reg'[l].parent
  <2>1. MaxLineageDepth \in Depths /\ 1 \in Depths
    BY LineageAssumption DEF Depths
  <2>2. CASE par = None
    <3>1. AncestorIn(reg', par)[1] = None
      BY <2>2, FirstAncestor
    <3>. HIDE DEF par
    <3>. QED BY <2>1, <3>1, NoneAboveTheRoot DEF par
  <2>3. CASE par # None
    <3>1. par \in Launches /\ Exists(par) /\ Ancestor(par)[MaxLineageDepth] = None
      BY <1>2, <1>4, <2>3 DEF ValidParent
    <3>. HIDE DEF par
    <3>2. AncestorIn(reg', par)[MaxLineageDepth] = Ancestor(par)[MaxLineageDepth]
      BY <1>1, <2>1, <3>1, AncestorsKept
    <3>. QED BY <3>1, <3>2 DEF par
  <2>. QED BY <2>2, <2>3
<1>5. LineageBounded' <=>
        \A l \in Launches : Exists(l)' => AncestorIn(reg', reg'[l].parent)[MaxLineageDepth] = None
  BY DEF LineageBounded, Exists, Ancestor, AncestorIn
<1>6. \A q \in Procs : WalkNotes(op[q])'
  BY WalkNotesStep
<1>. QED BY <1>3, <1>4, <1>5, <1>6 DEF LineageInv

LEMMA LineageInit == Init => LineageInv
BY DEF Init, NoRow, LineageInv, ParentsExist, LineageBounded, Exists, WalkNotes, Idle

\* _validate_parent_launch_id: whatever parents callers pass, and whatever
\* other processes insert between the reads of one walk and its claim, no
\* launch has MAX_LINEAGE_DEPTH ancestors, and none is its own ancestor.
THEOREM LineagesAreBounded == Spec => []LineageBounded
<1>1. TypeOK /\ OpOK /\ LineageInv /\ [Next]_vars => LineageInv'
  BY LineageStep
<1>2. LineageInv => LineageBounded
  BY DEF LineageInv
<1> QED BY TypeCorrect, LineageInit, <1>1, <1>2, PTL DEF Spec

-----------------------------------------------------------------------------
(* Refinement *)

\* The registry implements LaunchSlots: one slot per canonical key.
THEOREM LaunchRefinesSlots == Spec => ImplementsSlots
<1> DEFINE heldBar  == [k \in Keys |-> InFlightOf(k)]
           spentBar == {l \in Launches : Exists(l)}
<1>1. Init => Slots!Init
  <2> SUFFICES ASSUME Init PROVE Slots!Init
    OBVIOUS
  <2>1. \A l \in Launches : reg[l].status = "ABSENT"
    BY DEF Init, NoRow
  <2>2. \A k \in Keys : InFlightOf(k) = {}
    BY <2>1 DEF InFlightOf, InFlight
  <2>3. spentBar = {}
    BY <2>1 DEF Exists
  <2> QED BY <2>2, <2>3 DEF Slots!Init
<1>2. TypeOK /\ OpOK /\ Safe /\ [Next]_vars => [Slots!Next]_(Slots!slotVars)
  <2> SUFFICES ASSUME TypeOK, OpOK, Safe, [Next]_vars
               PROVE  [Slots!Next]_(Slots!slotVars)
    OBVIOUS
  <2>1. CASE UNCHANGED reg
    BY <2>1 DEF Slots!slotVars, InFlightOf, Exists
  <2>2. ASSUME NEW l \in Launches, Inserted(l)
        PROVE  Slots!Next
    <3>1. PICK k \in Keys : k = reg'[l].key
      BY <2>2 DEF Inserted
    <3>2. InFlightOf(k) = {}
      BY <2>2, <3>1 DEF Inserted, IndexFree, IndexStatuses, InFlightOf, InFlight
    <3>3. l \notin spentBar
      BY <2>2 DEF Inserted
    <3>4. \A j \in Keys : InFlightOf(j)' = IF j = k THEN {l} ELSE InFlightOf(j)
      <4>1. \A j \in Keys : l \notin InFlightOf(j)
        BY <2>2 DEF Inserted, Exists, InFlightOf, InFlight
      <4>2. \A j \in Keys : \A m \in Launches \ {l} :
              m \in InFlightOf(j)' <=> m \in InFlightOf(j)
        BY <2>2 DEF Inserted, OthersKept, InFlightOf
      <4>3. \A j \in Keys : l \in InFlightOf(j)' <=> j = k
        BY <2>2, <3>1 DEF Inserted, InFlightOf, InFlight
      <4>4. \A j \in Keys : InFlightOf(j) \subseteq Launches /\ InFlightOf(j)' \subseteq Launches
        BY DEF InFlightOf
      <4> QED BY <3>2, <4>1, <4>2, <4>3, <4>4
    <3>5. heldBar' = [heldBar EXCEPT ![k] = {l}]
      BY <3>4
    <3>6. spentBar' = spentBar \cup {l}
      BY <2>2 DEF Inserted, OthersKept, Exists
    <3>7. Slots!Acquire(k, l)
      BY <3>2, <3>3, <3>5, <3>6 DEF Slots!Acquire
    <3> QED BY <3>7 DEF Slots!Next
  <2>3. ASSUME NEW l \in Launches, Moved(l)
        PROVE  [Slots!Next]_(Slots!slotVars)
    <3>1. reg[l].status # "ABSENT" /\ reg'[l].status # "ABSENT"
      BY <2>3 DEF Moved, LegalMoves
    <3>2. spentBar' = spentBar
      BY <2>3, <3>1 DEF Moved, OthersKept, Exists
    <3>3. reg'[l].status \in InFlight => reg[l].status \in InFlight
      BY <2>3 DEF Moved, LegalMoves, InFlight
    <3>4. \A j \in Keys : \A m \in Launches \ {l} :
            m \in InFlightOf(j)' <=> m \in InFlightOf(j)
      BY <2>3 DEF Moved, OthersKept, InFlightOf
    <3>5. CASE reg[l].status \in InFlight /\ reg'[l].status \notin InFlight
      <4>1. PICK k \in Keys : k = reg[l].key
        BY <3>1 DEF TypeOK, NoRow, AgentLaunch
      <4>2. l \in InFlightOf(k)
        BY <3>5, <4>1 DEF InFlightOf
      <4>3. \A j \in Keys : InFlightOf(j)' = IF j = k THEN InFlightOf(k) \ {l}
                                                       ELSE InFlightOf(j)
        BY <2>3, <3>4, <3>5, <4>1 DEF Moved, InFlightOf
      <4>4. heldBar' = [heldBar EXCEPT ![k] = heldBar[k] \ {l}]
        BY <4>3
      <4>5. Slots!Release(k, l)
        BY <4>2, <4>4, <3>2 DEF Slots!Release
      <4> QED BY <4>5 DEF Slots!Next
    <3>6. CASE reg[l].status \in InFlight <=> reg'[l].status \in InFlight
      <4>1. \A j \in Keys : InFlightOf(j)' = InFlightOf(j)
        BY <2>3, <3>4, <3>6 DEF Moved, InFlightOf
      <4>2. heldBar' = heldBar
        BY <4>1
      <4> QED BY <4>2, <3>2 DEF Slots!slotVars
    <3> QED BY <3>3, <3>5, <3>6
  <2> QED BY <2>1, <2>2, <2>3, TableStep
<1>3. TypeOK /\ OpOK /\ Safe /\ [Next]_vars => Safe'
  BY SafeStep
<1> QED BY TypeCorrect, SafeInit, <1>1, <1>2, <1>3, PTL DEF Spec, ImplementsSlots, Slots!Spec

=============================================================================
