---------------------------- MODULE StoresProofs ----------------------------
(***************************************************************************)
(* What holds of the stores.  The memory, its incremental sync, its export *)
(* and import, and its diff: types for every number of writers; the        *)
(* journal describes the rows, for one writer and any front ends; the      *)
(* watermark never passes what was delivered, for every number of writers  *)
(* and pushers and every chunk size; the other machine converges, for one  *)
(* writer and any number of pushers; what was exported is imported; what a *)
(* diff lists turns the reference into the target.  Then the migrations of *)
(* the database, the message store and the telemetry.                      *)
(***************************************************************************)
EXTENDS Sync, Vault, Diff, Schema, Messaging, Telemetry,
        FiniteSetTheorems, SequenceTheorems, WellFoundedInduction, TLAPS

-----------------------------------------------------------------------------
(* Numbers *)

Below == {ss \in Nat \X Nat : ss[1] < ss[2]}

\* A nonempty set of numbers has a smallest.
LEMMA SmallestNumber ==
  ASSUME NEW S \in SUBSET Nat, S # {}
  PROVE  \E v \in S : \A w \in S : v <= w
<1>1. IsWellFoundedOn(Below, Nat)
  BY NatLessThanWellFounded, Zenon DEF OpToRel, Below
<1>2. PICK v \in S : \A w \in S : ~(<<w, v>> \in Below)
  BY <1>1, WFMin
<1>3. ASSUME NEW w \in S
      PROVE  v <= w
  <2>1. v \in Nat /\ w \in Nat
    OBVIOUS
  <2>2. w < v => <<w, v>> \in Below
    BY <2>1 DEF Below
  <2>. QED BY <1>2, <2>1, <2>2
<1>. QED BY <1>3

\* A nonempty set of numbers that has a bound has a largest.
LEMMA LargestNumber ==
  ASSUME NEW n \in Nat, NEW S \in SUBSET (1..n), S # {}
  PROVE  \E v \in S : \A w \in S : w <= v
<1>. DEFINE T == {n - k : k \in S}
<1>1. T \in SUBSET Nat /\ T # {}
  <2>1. \A k \in S : n - k \in Nat
    OBVIOUS
  <2>. QED BY <2>1
<1>2. PICK t \in T : \A u \in T : t <= u
  <2>. HIDE DEF T
  <2>. QED BY <1>1, SmallestNumber
<1>3. PICK v \in S : t = n - v
  BY <1>2
<1>4. ASSUME NEW w \in S
      PROVE  w <= v
  <2>1. n - w \in T
    OBVIOUS
  <2>2. n - v <= n - w
    BY <1>2, <1>3, <2>1
  <2>. QED BY <2>2
<1>. QED BY <1>4

-----------------------------------------------------------------------------
(* Types of the memory.  An operation carries what its next steps need: a  *)
(* topic to look up, an id to change, a content to write.                  *)

MemoryOpOK(o) ==
  /\ o \in MemoryOperation
  /\ o.at \in {"lookup", "upsert"} => o.obs.topic # None
  /\ o.at \in {"lookup", "upsert", "create", "find_event", "search", "update"} =>
       o.obs.content # None
  /\ o.at \in {"read", "update", "delete"} => o.id \in Ids
  /\ o.at = "record" => o.mutation \in Mutation
  /\ o.fallback /\ o.kind = "save" => o.obs.content # None
  /\ o.fallback /\ o.kind = "delete" => o.id \in Ids

MemoryInv == MemoryTypeOK /\ \A p \in Writers : MemoryOpOK(mop[p])

\* None is no identifier and no content.
LEMMA NoneIsNew ==
  /\ None \notin Ids /\ None \notin Contents /\ None \notin Topics
  /\ None \notin Projects /\ None \notin Keys /\ None \notin Titles
BY MemoryAssumption

\* A writer that does nothing.
LEMMA MemoryIdleOK == MemoryOpOK(MemoryIdle) /\ MemoryIdle.at = "idle"
BY DEF MemoryOpOK, MemoryIdle, MemoryOperation, NoRow, Fields, NoMutation

\* The operation of one process changes.
LEMMA OperationsStay ==
  ASSUME MemoryInv, NEW p \in Writers, NEW o, MemoryOpOK(o), MemoryAt(p, o)
  PROVE  /\ mop' \in [Writers -> MemoryOperation]
         /\ \A q \in Writers : MemoryOpOK(mop'[q])
         /\ mop'[p] = o /\ \A q \in Writers : q # p => mop'[q] = mop[q]
<1>1. /\ mop \in [Writers -> MemoryOperation] /\ \A q \in Writers : MemoryOpOK(mop[q])
      /\ o \in MemoryOperation
  BY DEF MemoryInv, MemoryTypeOK, MemoryOpOK
<1>2. mop'[p] = o /\ \A q \in Writers : q # p => mop'[q] = mop[q]
  BY <1>1 DEF MemoryAt
<1>. QED BY <1>1, <1>2 DEF MemoryAt

\* Where an operation goes on when it keeps what it carries.
LEMMA GoesOn ==
  ASSUME NEW o, MemoryOpOK(o),
         NEW step \in {"idle", "lookup", "create", "upsert", "read", "update", "search",
                       "owner", "delete", "find_event"},
         NEW m \in Mutation \cup {NoMutation}, NEW again \in BOOLEAN,
         again => o.fallback,
         step \in {"lookup", "upsert"} => o.obs.topic # None,
         step \in {"lookup", "upsert", "create", "find_event", "search", "update"} =>
           o.obs.content # None,
         step \in {"read", "update", "delete"} => o.id \in Ids
  PROVE  MemoryOpOK([o EXCEPT !.at = step, !.mutation = m, !.fallback = again])
BY DEF MemoryOpOK, MemoryOperation

\* An operation that ends leaves its writer at a step other than the recording.
LEMMA EndedOK ==
  ASSUME MemoryInv, NEW p \in Writers, Ended(p)
  PROVE  \E o : MemoryOpOK(o) /\ MemoryAt(p, o) /\ o.at # "record"
<1>1. MemoryOpOK(mop[p])
  BY DEF MemoryInv
<1>2. CASE MemoryAt(p, MemoryIdle)
  BY <1>2, MemoryIdleOK
<1>3. CASE /\ mop[p].fallback /\ mop[p].kind = "save"
           /\ MemoryAt(p, [mop[p] EXCEPT !.at = IF mop[p].obs.topic = None THEN "create" ELSE "lookup",
                                     !.mutation = NoMutation, !.fallback = FALSE])
  <2>. DEFINE step == IF mop[p].obs.topic = None THEN "create" ELSE "lookup"
              o == [mop[p] EXCEPT !.at = step, !.mutation = NoMutation, !.fallback = FALSE]
  <2>1. mop[p].obs.content # None
    BY <1>1, <1>3 DEF MemoryOpOK
  <2>2. MemoryOpOK(o)
    BY <1>1, <2>1, GoesOn
  <2>3. o.at # "record"
    BY <1>1 DEF MemoryOpOK, MemoryOperation
  <2>. HIDE DEF o
  <2>. QED BY <1>3, <2>2, <2>3 DEF o
<1>4. CASE /\ mop[p].fallback /\ mop[p].kind = "delete"
           /\ MemoryAt(p, [mop[p] EXCEPT !.at = "delete", !.mutation = NoMutation, !.fallback = FALSE])
  <2>. DEFINE o == [mop[p] EXCEPT !.at = "delete", !.mutation = NoMutation, !.fallback = FALSE]
  <2>1. mop[p].id \in Ids
    BY <1>1, <1>4 DEF MemoryOpOK
  <2>2. MemoryOpOK(o)
    BY <1>1, <2>1, GoesOn
  <2>3. o.at # "record"
    BY <1>1 DEF MemoryOpOK, MemoryOperation
  <2>. HIDE DEF o
  <2>. QED BY <1>4, <2>2, <2>3 DEF o
<1>. QED BY <1>2, <1>3, <1>4 DEF Ended

\* What the steps of an operation do to the rows, the journal and lost.
MemoryTablesOK ==
  /\ rows \in MemoryTable /\ fresh \subseteq Ids
  /\ journal \in Seq(Mutation) /\ lost \subseteq Ids

\* One row is put, and the others stay.
LEMMA PutTypes ==
  ASSUME rows \in MemoryTable, NEW i \in Ids, NEW obs \in Observation \cup {NoRow}
  PROVE  /\ Put(rows, i, obs) \in MemoryTable
         /\ Put(rows, i, obs)[i] = obs
         /\ \A j \in Ids : j # i => Put(rows, i, obs)[j] = rows[j]
BY DEF Put, MemoryTable

\* A row has all its fields, and a stored one its content.
LEMMA RowFields ==
  ASSUME rows \in MemoryTable, NEW i \in Ids
  PROVE  /\ rows[i] \in Fields
         /\ rows[i] = NoRow \/ rows[i] \in Observation
         /\ Stored(rows, i) => rows[i].content # None
         /\ ~Stored(rows, i) => rows[i].content = None
<1>1. rows[i] \in Observation \cup {NoRow}
  BY DEF MemoryTable
<1>. QED BY <1>1 DEF Observation, Fields, NoRow, Stored

\* A step that ends the operation without a row keeps the types.
LEMMA FailsKeeps ==
  ASSUME MemoryInv, NEW p \in Writers, Ended(p),
         rows' = rows, fresh' = fresh, journal' \in Seq(Mutation), lost' \subseteq Ids
  PROVE  MemoryInv'
<1>1. PICK o : MemoryOpOK(o) /\ MemoryAt(p, o)
  BY EndedOK
<1>2. mop' \in [Writers -> MemoryOperation] /\ \A q \in Writers : MemoryOpOK(mop'[q])
  BY <1>1, OperationsStay
<1>. QED BY <1>2 DEF MemoryInv, MemoryTypeOK

\* A step that only goes on keeps the types.
LEMMA AdvanceKeeps ==
  ASSUME MemoryInv, NEW p \in Writers, NEW o, MemoryOpOK(o), MemoryAt(p, o),
         UNCHANGED <<rows, fresh, journal, lost>>
  PROVE  MemoryInv'
<1>1. mop' \in [Writers -> MemoryOperation] /\ \A q \in Writers : MemoryOpOK(mop'[q])
  BY OperationsStay
<1>. QED BY <1>1 DEF MemoryInv, MemoryTypeOK

\* An operation that goes on to the write of its row.
LEMMA WriteStepOK ==
  ASSUME NEW o, MemoryOpOK(o),
         NEW step \in {"create", "upsert"},
         o.obs.content # None, step = "upsert" => o.obs.topic # None
  PROVE  MemoryOpOK([o EXCEPT !.at = step])
BY DEF MemoryOpOK, MemoryOperation

\* A row is written and the operation goes on to its entry.
LEMMA WrittenKeeps ==
  ASSUME MemoryInv, NEW p \in Writers, NEW store \in MemoryTable, NEW m \in Mutation,
         Written(p, store, m), fresh' \subseteq Ids
  PROVE  /\ MemoryInv'
         /\ mop'[p].at = "record" /\ mop'[p].mutation = m
<1>. DEFINE o == [mop[p] EXCEPT !.at = "record", !.mutation = m]
<1>1. MemoryOpOK(mop[p]) /\ mop[p] \in MemoryOperation
  BY DEF MemoryInv, MemoryOpOK
<1>2. MemoryOpOK(o) /\ o.at = "record" /\ o.mutation = m
  BY <1>1 DEF MemoryOpOK, MemoryOperation
<1>3. MemoryAt(p, o) /\ rows' = store /\ UNCHANGED <<journal, lost>>
  BY DEF Written
<1>. HIDE DEF o
<1>4. /\ mop' \in [Writers -> MemoryOperation] /\ \A q \in Writers : MemoryOpOK(mop'[q])
      /\ mop'[p] = o
  BY <1>2, <1>3, OperationsStay
<1>. QED BY <1>2, <1>3, <1>4 DEF MemoryInv, MemoryTypeOK

\* The four ways of writing a row: a new one, or one that is there.
Writes(p) ==
  \E i \in Ids, obs \in Observation \cup {NoRow}, m \in Mutation :
    /\ Written(p, Put(rows, i, obs), m)
    /\ m.id = i
    /\ IF obs = NoRow THEN m.op = "delete"
       ELSE m.op # "delete" /\ m.content = obs.content /\ m.topic = obs.topic
    /\ fresh' \subseteq Ids
    /\ IF m.op = "insert" THEN i \in fresh /\ fresh' = fresh \ {i}
       ELSE Stored(rows, i) /\ fresh' = fresh

\* The insert of a row, or its failure.
LEMMA CreateWrites ==
  ASSUME MemoryInv, NEW p \in Writers, CreateRow(p)
  PROVE  Writes(p) \/ Fails(p)
<1>. DEFINE obs == mop[p].obs
            m(i) == [op |-> "insert", entity |-> i, id |-> i, content |-> obs.content,
                     topic |-> obs.topic, project |-> obs.project]
<1>1. PICK i \in fresh :
        IF CanCreate(rows, i, obs)
        THEN Written(p, Put(rows, i, obs), m(i)) /\ fresh' = fresh \ {i}
        ELSE Fails(p)
  BY DEF CreateRow
<1>2. i \in Ids /\ fresh \subseteq Ids
  BY DEF MemoryInv, MemoryTypeOK
<1>3. obs \in Observation
  BY DEF MemoryInv, MemoryOpOK, MemoryOperation, Observation, CreateRow
<1>4. obs \in Fields /\ obs.content # None
  BY <1>3 DEF Observation
<1>. HIDE DEF obs
<1>5. m(i) \in Mutation
  BY <1>2, <1>4 DEF Mutation, Fields
<1>6. obs # NoRow
  BY <1>4 DEF NoRow
<1>7. /\ m(i).id = i /\ m(i).op = "insert"
      /\ m(i).content = obs.content /\ m(i).topic = obs.topic
  OBVIOUS
<1>. HIDE DEF m
<1>. QED BY <1>1, <1>2, <1>3, <1>5, <1>6, <1>7 DEF Writes

\* The upsert of a row under its topic key, or its failure.
LEMMA UpsertWrites ==
  ASSUME MemoryInv, NEW p \in Writers, Upsert(p)
  PROVE  Writes(p) \/ Fails(p)
<1>. DEFINE obs == mop[p].obs
            new(i) == [obs EXCEPT !.key = rows[i].key]
            m(i) == [op |-> "update", entity |-> obs.topic, id |-> i,
                     content |-> obs.content, topic |-> obs.topic, project |-> obs.project]
<1>1. \/ Fails(p)
      \/ \E i \in UpsertTargets(rows, obs.topic, obs.project) :
           Written(p, Put(rows, i, new(i)), m(i)) /\ UNCHANGED fresh
  BY DEF Upsert
<1>2. \A i \in UpsertTargets(rows, obs.topic, obs.project) : i \in Ids /\ Stored(rows, i)
  BY DEF UpsertTargets, OfTopic, InProject
<1>3. obs \in Fields /\ obs.content # None /\ obs.topic # None
  BY DEF MemoryInv, MemoryOpOK, MemoryOperation, Upsert
<1>4. rows \in MemoryTable /\ fresh \subseteq Ids
  BY DEF MemoryInv, MemoryTypeOK
<1>. HIDE DEF obs
<1>5. SUFFICES ASSUME NEW i \in Ids, Written(p, Put(rows, i, new(i)), m(i)), fresh' = fresh,
                      Stored(rows, i)
               PROVE  Writes(p)
  BY <1>1, <1>2
<1>6. /\ new(i) \in Observation /\ new(i).content = obs.content
      /\ new(i).topic = obs.topic /\ new(i) # NoRow
  <2>1. rows[i] \in Fields
    BY <1>4, RowFields
  <2>2. /\ new(i) \in Fields /\ new(i).content = obs.content /\ new(i).topic = obs.topic
    BY <1>3, <2>1 DEF Fields
  <2>. HIDE DEF new
  <2>. QED BY <1>3, <2>2 DEF Observation, NoRow
<1>7. m(i) \in Mutation
  BY <1>3 DEF Mutation, Fields
<1>8. /\ m(i).id = i /\ m(i).op # "delete" /\ m(i).op # "insert"
      /\ m(i).content = obs.content /\ m(i).topic = obs.topic
  OBVIOUS
<1>. HIDE DEF new, m
<1>. QED BY <1>4, <1>5, <1>6, <1>7, <1>8 DEF Writes

LEMMA UpdateWrites ==
  ASSUME MemoryInv, NEW p \in Writers, UpdateWrite(p)
  PROVE  Writes(p) \/ Fails(p)
<1>. DEFINE obs == mop[p].obs
            i == mop[p].id
            m == [op |-> "update", entity |-> i, id |-> i, content |-> obs.content,
                  topic |-> obs.topic, project |-> obs.project]
<1>1. \/ Fails(p)
      \/ Written(p, Put(rows, i, obs), m) /\ UNCHANGED fresh /\ Stored(rows, i)
  BY DEF UpdateWrite, CanUpdate
<1>2. obs \in Fields /\ obs.content # None /\ i \in Ids
  BY DEF MemoryInv, MemoryOpOK, MemoryOperation, UpdateWrite
<1>3. fresh \subseteq Ids
  BY DEF MemoryInv, MemoryTypeOK
<1>. HIDE DEF obs, i
<1>4. obs \in Observation /\ obs # NoRow
  BY <1>2 DEF Observation, NoRow
<1>5. m \in Mutation
  BY <1>2 DEF Mutation, Fields
<1>6. m.id = i /\ m.op = "update" /\ m.content = obs.content /\ m.topic = obs.topic
  OBVIOUS
<1>. HIDE DEF m
<1>. QED BY <1>1, <1>2, <1>3, <1>4, <1>5, <1>6 DEF Writes

LEMMA DeleteWrites ==
  ASSUME MemoryInv, NEW p \in Writers, DeleteWrite(p)
  PROVE  Writes(p) \/ Fails(p)
<1>. DEFINE i == mop[p].id
            m == [op |-> "delete", entity |-> i, id |-> i, content |-> None,
                  topic |-> None, project |-> None]
<1>1. \/ Fails(p)
      \/ Written(p, Put(rows, i, NoRow), m) /\ UNCHANGED fresh /\ Stored(rows, i)
  BY DEF DeleteWrite, Remove, Put
<1>2. i \in Ids /\ fresh \subseteq Ids
  BY DEF MemoryInv, MemoryTypeOK, MemoryOpOK, DeleteWrite
<1>. HIDE DEF i
<1>3. m \in Mutation /\ m.id = i /\ m.op = "delete"
  BY <1>2 DEF Mutation
<1>. HIDE DEF m
<1>. QED BY <1>1, <1>2, <1>3 DEF Writes

\* A lookup that goes on writes nothing.
LEMMA StepIsQuiet ==
  ASSUME NEW p \in Writers, MemoryOpOK(mop[p]),
         NEW step \in {"create", "upsert"}, Advance(p, step),
         mop[p].at \in {"lookup", "find_event", "search"},
         mop[p].obs.content # None, step = "upsert" => mop[p].obs.topic # None
  PROVE  /\ mop[p].at # "record" /\ UNCHANGED <<rows, fresh, journal, lost>>
         /\ \E o : MemoryOpOK(o) /\ o.at # "record" /\ MemoryAt(p, o)
<1>. DEFINE o == [mop[p] EXCEPT !.at = step]
<1>1. MemoryOpOK(o)
  BY WriteStepOK
<1>2. o.at # "record"
  BY DEF MemoryOpOK, MemoryOperation
<1>3. MemoryAt(p, o) /\ UNCHANGED <<rows, fresh, journal, lost>>
  BY DEF Advance
<1>. HIDE DEF o
<1>. QED BY <1>1, <1>2, <1>3

\* update reads the row it is to write.
LEMMA UpdateReadOK ==
  ASSUME MemoryInv, NEW p \in Writers, UpdateRead(p), ~Fails(p)
  PROVE  \E o : /\ MemoryOpOK(o) /\ o.at = "update" /\ MemoryAt(p, o)
                /\ UNCHANGED <<rows, fresh, journal, lost>>
<1>. DEFINE i == mop[p].id
            given == mop[p].obs
            keep(new, old) == IF new # None THEN new ELSE old
            obs == [content |-> keep(given.content, rows[i].content),
                    title |-> keep(given.title, rows[i].title),
                    topic |-> keep(given.topic, rows[i].topic),
                    project |-> keep(given.project, rows[i].project),
                    key |-> rows[i].key]
            o == [mop[p] EXCEPT !.at = "update", !.obs = obs]
<1>1. /\ Stored(rows, i) /\ MemoryAt(p, o) /\ UNCHANGED <<rows, fresh, journal, lost>>
  BY DEF UpdateRead
<1>2. MemoryOpOK(mop[p]) /\ mop[p] \in MemoryOperation /\ given \in Fields /\ i \in Ids
  BY DEF MemoryInv, MemoryOpOK, MemoryOperation, UpdateRead
<1>3. rows[i] \in Fields /\ rows[i].content # None
  BY <1>1, <1>2, RowFields DEF MemoryInv, MemoryTypeOK
<1>4. obs \in Fields /\ obs.content # None
  <2>. HIDE DEF i, given
  <2>. QED BY <1>2, <1>3 DEF Fields
<1>5. MemoryOpOK(o) /\ o.at = "update"
  <2>. HIDE DEF obs
  <2>. QED BY <1>2, <1>4 DEF MemoryOpOK, MemoryOperation
<1>. HIDE DEF o
<1>. QED BY <1>1, <1>5

\* What a step of an operation is, as far as the rest of the proof needs it.
LEMMA StepShape ==
  ASSUME MemoryInv, NEW p \in Writers, Step(p)
  PROVE  \/ Writes(p) /\ mop[p].at # "record"
         \/ Record(p) \/ RecordLost(p)
         \/ /\ mop[p].at # "record" /\ UNCHANGED <<rows, fresh, journal, lost>>
            /\ \E o : MemoryOpOK(o) /\ o.at # "record" /\ MemoryAt(p, o)
<1>. DEFINE Quiet == /\ mop[p].at # "record" /\ UNCHANGED <<rows, fresh, journal, lost>>
                     /\ \E o : MemoryOpOK(o) /\ o.at # "record" /\ MemoryAt(p, o)
<1>1. Fails(p) /\ mop[p].at # "record" => Quiet
  BY EndedOK DEF Fails
<1>2. MemoryOpOK(mop[p])
  BY DEF MemoryInv
<1>3. CASE SaveLookup(p)
  <2>1. \E step \in {"create", "upsert"} : Advance(p, step)
    BY <1>3 DEF SaveLookup
  <2>2. mop[p].obs.content # None /\ mop[p].obs.topic # None
    BY <1>2, <1>3 DEF MemoryOpOK, SaveLookup
  <2>3. mop[p].at = "lookup"
    BY <1>3 DEF SaveLookup
  <2>. QED BY <1>2, <2>1, <2>2, <2>3, StepIsQuiet
<1>4. CASE CreateRow(p)
  BY <1>1, <1>4, CreateWrites DEF CreateRow
<1>5. CASE Upsert(p)
  BY <1>1, <1>5, UpsertWrites DEF Upsert
<1>6. CASE UpdateRead(p)
  <2>1. mop[p].at # "record"
    BY <1>6 DEF UpdateRead
  <2>2. CASE Fails(p)
    BY <1>1, <2>1, <2>2
  <2>3. CASE ~Fails(p)
    <3>1. PICK o : /\ MemoryOpOK(o) /\ o.at = "update" /\ MemoryAt(p, o)
                   /\ UNCHANGED <<rows, fresh, journal, lost>>
      BY <1>6, <2>3, UpdateReadOK
    <3>. QED BY <2>1, <3>1
  <2>. QED BY <2>2, <2>3
<1>7. CASE UpdateWrite(p)
  BY <1>1, <1>7, UpdateWrites DEF UpdateWrite
<1>8. CASE DeleteWrite(p)
  BY <1>1, <1>8, DeleteWrites DEF DeleteWrite
<1>9. CASE FindEvent(p)
  <2>1. mop[p].at = "find_event" /\ (Fails(p) \/ Advance(p, "create"))
    BY <1>9 DEF FindEvent
  <2>2. mop[p].obs.content # None
    BY <1>2, <2>1 DEF MemoryOpOK
  <2>. QED BY <1>1, <1>2, <2>1, <2>2, StepIsQuiet
<1>10. CASE CaptureSearch(p)
  <2>1. mop[p].at = "search" /\ (Fails(p) \/ Advance(p, "create"))
    BY <1>10 DEF CaptureSearch
  <2>2. mop[p].obs.content # None
    BY <1>2, <2>1 DEF MemoryOpOK
  <2>. QED BY <1>1, <1>2, <2>1, <2>2, StepIsQuiet
<1>. QED BY <1>3, <1>4, <1>5, <1>6, <1>7, <1>8, <1>9, <1>10 DEF Step

\* A recorded mutation, or a lost one, keeps the types.
LEMMA RecordsKeep ==
  ASSUME MemoryInv, NEW p \in Writers, Record(p) \/ RecordLost(p)
  PROVE  MemoryInv'
<1>1. mop[p].mutation \in Mutation /\ mop[p].mutation.id \in Ids
  BY DEF MemoryInv, MemoryOpOK, Record, RecordLost, Mutation
<1>2. /\ rows' = rows /\ fresh' = fresh /\ Ended(p)
      /\ journal' = journal \/ journal' = Append(journal, mop[p].mutation)
      /\ lost' = lost \/ lost' = lost \cup {mop[p].mutation.id}
  BY DEF Record, RecordLost
<1>3. journal \in Seq(Mutation) /\ lost \subseteq Ids
  BY DEF MemoryInv, MemoryTypeOK
<1>4. journal' \in Seq(Mutation) /\ lost' \subseteq Ids
  BY <1>1, <1>2, <1>3
<1>. QED BY <1>2, <1>4, FailsKeeps

LEMMA WritesKeep ==
  ASSUME MemoryInv, NEW p \in Writers, Writes(p)
  PROVE  MemoryInv'
<1>1. PICK i \in Ids, obs \in Observation \cup {NoRow}, m \in Mutation :
        Written(p, Put(rows, i, obs), m) /\ fresh' \subseteq Ids
  BY DEF Writes
<1>2. rows \in MemoryTable
  BY DEF MemoryInv, MemoryTypeOK
<1>3. Put(rows, i, obs) \in MemoryTable
  BY <1>2, PutTypes
<1>. QED BY <1>1, <1>3, WrittenKeeps

\* Every step of an operation keeps the types.
LEMMA WriterStepKeeps ==
  ASSUME MemoryInv, NEW p \in Writers, Step(p)
  PROVE  MemoryInv'
<1>1. CASE \E o : MemoryOpOK(o) /\ MemoryAt(p, o) /\ UNCHANGED <<rows, fresh, journal, lost>>
  BY <1>1, AdvanceKeeps
<1>. QED BY <1>1, StepShape, RecordsKeep, WritesKeep

\* A front end begins an operation, merges projects or cleans up.
Starts(p) ==
  /\ mop[p].at = "idle" /\ UNCHANGED <<rows, fresh, journal, lost>>
  /\ \E o : MemoryOpOK(o) /\ o.at # "record" /\ MemoryAt(p, o)

\* The commands that begin an operation.
LEMMA BeginsStarts ==
  ASSUME NEW p, NEW o, MemoryOpOK(o), o.at # "record", Begins(p, o)
  PROVE  Starts(p)
BY DEF Begins, Starts

\* A save begins an operation.
LEMMA SavesStarts ==
  ASSUME NEW p, NEW content \in Contents, NEW title \in TitlesOrNone,
         NEW topic \in TopicsOrNone, NEW project \in Scopes,
         NEW again \in BOOLEAN, Saves(p, content, title, topic, project, again)
  PROVE  Starts(p)
<1>. DEFINE obs == Given(content, title, topic, project)
            o == [MemoryIdle EXCEPT !.at = IF topic = None THEN "create" ELSE "lookup",
                                    !.kind = "save", !.fallback = again, !.obs = obs]
<1>1. obs \in Fields /\ obs.content # None /\ obs.topic = topic
  BY NoneIsNew DEF Given, Fields, TitlesOrNone, TopicsOrNone, Scopes
<1>. HIDE DEF obs
<1>2. MemoryOpOK(o) /\ o.at # "record"
  BY <1>1 DEF MemoryOpOK, MemoryIdle, MemoryOperation, NoMutation
<1>3. Begins(p, o)
  BY DEF Saves, obs
<1>. HIDE DEF o
<1>. QED BY <1>2, <1>3, BeginsStarts

LEMMA UpdatesStarts ==
  ASSUME NEW p, NEW i \in Ids, NEW content \in Contents \cup {None},
         NEW title \in TitlesOrNone, NEW topic \in TopicsOrNone, NEW project \in Scopes,
         Updates(p, i, content, title, topic, project)
  PROVE  Starts(p)
<1>. DEFINE obs == Given(content, title, topic, project)
            o == [MemoryIdle EXCEPT !.at = "read", !.kind = "update", !.id = i, !.obs = obs]
<1>1. obs \in Fields
  BY DEF Given, Fields, TitlesOrNone, TopicsOrNone, Scopes
<1>. HIDE DEF obs
<1>2. MemoryOpOK(o) /\ o.at # "record"
  BY <1>1 DEF MemoryOpOK, MemoryIdle, MemoryOperation, NoMutation
<1>3. Begins(p, o)
  BY DEF Updates, obs
<1>. HIDE DEF o
<1>. QED BY <1>2, <1>3, BeginsStarts

LEMMA DeletesStarts ==
  ASSUME NEW p, NEW i \in Ids, NEW again \in BOOLEAN, Deletes(p, i, again)
  PROVE  Starts(p)
<1>. DEFINE o == [MemoryIdle EXCEPT !.at = "delete", !.kind = "delete", !.id = i,
                                    !.fallback = again]
<1>1. MemoryOpOK(o) /\ o.at # "record"
  BY DEF MemoryOpOK, MemoryIdle, MemoryOperation, NoMutation, NoRow, Fields
<1>2. Begins(p, o)
  BY DEF Deletes
<1>. HIDE DEF o
<1>. QED BY <1>1, <1>2, BeginsStarts

LEMMA CaptureStarts ==
  ASSUME NEW p, NEW content \in Contents, NEW project \in Scopes,
         memory_capture_passive(p, content, project)
  PROVE  Starts(p)
<1>. DEFINE obs == Given(content, None, None, project)
            o == [MemoryIdle EXCEPT !.at = "search", !.kind = "save", !.obs = obs]
<1>1. obs \in Fields /\ obs.content # None
  BY NoneIsNew DEF Given, Fields, Scopes
<1>. HIDE DEF obs
<1>2. MemoryOpOK(o) /\ o.at # "record"
  BY <1>1 DEF MemoryOpOK, MemoryIdle, MemoryOperation, NoMutation
<1>3. Begins(p, o)
  BY DEF memory_capture_passive, obs
<1>. HIDE DEF o
<1>. QED BY <1>2, <1>3, BeginsStarts

LEMMA EventStarts ==
  ASSUME NEW p, NEW content \in Contents, NEW key \in Keys, save_event(p, content, key)
  PROVE  Starts(p)
<1>. DEFINE obs == [Given(content, None, None, None) EXCEPT !.key = key]
            o == [MemoryIdle EXCEPT !.at = "find_event", !.kind = "event", !.obs = obs]
<1>1. obs \in Fields /\ obs.content # None
  BY NoneIsNew DEF Given, Fields
<1>. HIDE DEF obs
<1>2. MemoryOpOK(o) /\ o.at # "record"
  BY <1>1 DEF MemoryOpOK, MemoryIdle, MemoryOperation, NoMutation
<1>3. Begins(p, o)
  BY DEF save_event, obs
<1>. HIDE DEF o
<1>. QED BY <1>2, <1>3, BeginsStarts

\* A command begins an operation, or is one of the two that have one step.
LEMMA CommandShape ==
  ASSUME NEW p \in Writers, Command(p)
  PROVE  \/ Starts(p)
         \/ \E from, to \in Projects : merge_projects(p, from, to)
         \/ cleanup_old_observations(p)
<1>1. CASE \E content \in Contents, project \in Scopes :
             \/ \E title \in TitlesOrNone, topic \in TopicsOrNone :
                  \/ cli_save(p, content, title, topic, project)
                  \/ dispatch_save(p, content, title, topic, project)
                  \/ memory_save(p, content, title, topic, project)
                  \/ create_observation(p, content, title, topic, project)
             \/ save_summary(p, content, project) \/ file_ops(p, content, project)
             \/ memory_session_summary(p, content, project)
  <2>1. SummaryTopic \in TopicsOrNone /\ None \in TopicsOrNone /\ None \in TitlesOrNone
    BY MemoryAssumption DEF TopicsOrNone, TitlesOrNone
  <2>2. \E content \in Contents, title \in TitlesOrNone, topic \in TopicsOrNone,
           project \in Scopes, again \in BOOLEAN :
          Saves(p, content, title, topic, project, again)
    BY <1>1, <2>1 DEF cli_save, dispatch_save, memory_save, create_observation,
                      save_summary, file_ops, memory_session_summary
  <2>. QED BY <2>2, SavesStarts
<1>2. CASE \E content \in Contents, project \in Scopes :
             memory_capture_passive(p, content, project)
  BY <1>2, CaptureStarts
<1>3. CASE \E content \in Contents, key \in Keys : save_event(p, content, key)
  BY <1>3, EventStarts
<1>4. CASE \E i \in Ids \ fresh :
             \E content \in Contents \cup {None}, topic \in TopicsOrNone, project \in Scopes :
                \/ cli_update(p, i, content, topic, project)
                \/ \E title \in TitlesOrNone :
                     \/ memory_update(p, i, content, title, topic, project)
                     \/ update_observation(p, i, content, title, topic, project)
  <2>1. None \in TitlesOrNone
    BY DEF TitlesOrNone
  <2>2. \E i \in Ids, content \in Contents \cup {None}, title \in TitlesOrNone,
           topic \in TopicsOrNone, project \in Scopes :
          Updates(p, i, content, title, topic, project)
    BY <1>4, <2>1 DEF cli_update, memory_update, update_observation
  <2>. QED BY <2>2, UpdatesStarts
<1>5. CASE \E i \in Ids \ fresh :
             \/ \E project \in Projects, force \in BOOLEAN :
                  \/ cli_delete(p, i, project, force)
                  \/ dispatch_delete(p, i, project, force)
                  \/ memory_delete(p, i, project)
             \/ delete_observation(p, i)
  BY <1>5, DeletesStarts DEF cli_delete, dispatch_delete, memory_delete, delete_observation
<1>. QED BY <1>1, <1>2, <1>3, <1>4, <1>5 DEF Command

\* A merge changes the projects of rows and nothing else of them.
LEMMA MergeFacts ==
  ASSUME MemoryInv, NEW p, NEW from \in Projects, NEW to \in Projects,
         merge_projects(p, from, to)
  PROVE  /\ rows' \in MemoryTable
         /\ \A i \in Ids : /\ Stored(rows', i) <=> Stored(rows, i)
                           /\ rows'[i].content = rows[i].content
                           /\ rows'[i].topic = rows[i].topic
<1>1. rows' = [i \in Ids |-> IF rows[i].project = from
                             THEN [rows[i] EXCEPT !.project = to] ELSE rows[i]]
  BY DEF merge_projects
<1>2. ASSUME NEW i \in Ids
      PROVE  /\ rows'[i] \in Observation \cup {NoRow}
             /\ rows'[i] # NoRow <=> rows[i] # NoRow
             /\ rows'[i].content = rows[i].content /\ rows'[i].topic = rows[i].topic
  <2>1. rows[i] \in Fields /\ (rows[i] = NoRow \/ rows[i] \in Observation)
    BY RowFields DEF MemoryInv, MemoryTypeOK
  <2>2. rows'[i] = IF rows[i].project = from
                   THEN [rows[i] EXCEPT !.project = to] ELSE rows[i]
    BY <1>1
  <2>3. CASE rows[i].project # from
    BY <2>1, <2>2, <2>3
  <2>4. CASE rows[i].project = from
    <3>1. rows[i] # NoRow
      BY <2>4, NoneIsNew DEF NoRow
    <3>2. rows[i].content # None
      BY <2>1, <3>1 DEF Observation
    <3>3. /\ rows'[i] \in Fields
          /\ rows'[i].content = rows[i].content /\ rows'[i].topic = rows[i].topic
      BY <2>1, <2>2, <2>4 DEF Fields
    <3>4. rows'[i] \in Observation /\ rows'[i] # NoRow
      BY <3>2, <3>3 DEF Observation, NoRow
    <3>. QED BY <3>1, <3>3, <3>4
  <2>. QED BY <2>3, <2>4
<1>. QED BY <1>1, <1>2 DEF MemoryTable, Stored

\* What a cleanup of old observations leaves alone.
LEMMA CleanupFacts ==
  ASSUME MemoryInv, NEW p, cleanup_old_observations(p)
  PROVE  /\ rows' \in MemoryTable /\ lost \subseteq lost' /\ lost' \subseteq Ids
         /\ \A i \in Ids \ lost' : rows'[i] = rows[i]
         /\ UNCHANGED <<fresh, journal, mop>> /\ mop[p].at = "idle"
<1>1. PICK old \in SUBSET {i \in Ids : Stored(rows, i)} :
        /\ rows' = [i \in Ids |-> IF i \in old THEN NoRow ELSE rows[i]]
        /\ lost' = lost \cup old
  BY DEF cleanup_old_observations
<1>2. rows \in MemoryTable /\ lost \subseteq Ids
  BY DEF MemoryInv, MemoryTypeOK
<1>3. rows' \in MemoryTable
  BY <1>1, <1>2 DEF MemoryTable
<1>. QED BY <1>1, <1>2, <1>3 DEF cleanup_old_observations

\* Every command keeps the types.
LEMMA CommandKeeps ==
  ASSUME MemoryInv, NEW p \in Writers, Command(p)
  PROVE  MemoryInv'
<1>1. CASE Starts(p)
  BY <1>1, AdvanceKeeps DEF Starts
<1>2. CASE \E from, to \in Projects : merge_projects(p, from, to)
  <2>1. rows' \in MemoryTable
    BY <1>2, MergeFacts
  <2>2. UNCHANGED <<fresh, journal, lost, mop>>
    BY <1>2 DEF merge_projects
  <2>. QED BY <2>1, <2>2 DEF MemoryInv, MemoryTypeOK
<1>3. CASE cleanup_old_observations(p)
  BY <1>3, CleanupFacts DEF MemoryInv, MemoryTypeOK
<1>. QED BY <1>1, <1>2, <1>3, CommandShape

\* An empty memory is typed.
LEMMA MemoryInitOK == MemoryInit => MemoryInv
<1>. SUFFICES ASSUME MemoryInit
              PROVE  MemoryInv
  OBVIOUS
<1>1. rows \in MemoryTable
  BY DEF MemoryInit, EmptyMemory, MemoryTable
<1>2. <<>> \in Seq(Mutation)
  BY EmptySeq
<1>3. MemoryIdle \in MemoryOperation
  BY MemoryIdleOK DEF MemoryOpOK
<1>. QED BY <1>1, <1>2, <1>3, MemoryIdleOK DEF MemoryInit, MemoryInv, MemoryTypeOK

\* So is one that stays.
LEMMA MemoryVarsStay ==
  MemoryInv /\ UNCHANGED memoryVars => MemoryInv'
BY DEF MemoryInv, MemoryTypeOK, memoryVars

\* Pushes, pulls and files leave the memory alone.
LEMMA OnlyWritersWrite ==
  ASSUME [SyncNext]_syncVars
  PROVE  (\E p \in Writers : Command(p) \/ Step(p)) \/ UNCHANGED memoryVars
<1>1. (\E p \in Pushers : Push(p)) => UNCHANGED memoryVars
  BY DEF Push, export_incremental, GitAdd, GitCommit, GitPush, commit_export_watermark,
         PusherDies, PushStep
<1>2. Pull => UNCHANGED memoryVars
  BY DEF Pull, GitPull, ImportChunk, PullerDies
<1>3. File => UNCHANGED memoryVars
  BY DEF File, ExportRead, ExportWrite, ExportWatermark, import_observations, ExportStep
<1>. QED BY <1>1, <1>2, <1>3 DEF SyncNext, syncVars

\* The types are kept by every step of the sync.
LEMMA MemoryInvKept ==
  ASSUME MemoryInv, [SyncNext]_syncVars
  PROVE  MemoryInv'
BY OnlyWritersWrite, CommandKeeps, WriterStepKeeps, MemoryVarsStay

-----------------------------------------------------------------------------
(* The journal.  With one writer an observation is described by its last   *)
(* mutation except while the operation that wrote its row has still to     *)
(* record it, and then the mutation it carries describes the row.          *)

Describes(m, row) ==
  IF row # NoRow
  THEN m.op # "delete" /\ m.content = row.content /\ m.topic = row.topic
  ELSE m.op = "delete"

Recording(p, i) == mop[p].at = "record" /\ mop[p].mutation.id = i

JournalInv(p) ==
  /\ mop[p].at = "record" => Describes(mop[p].mutation, rows[mop[p].mutation.id])
  /\ \A i \in Ids \ lost : ~Recording(p, i) => Journalled(i)

LEMMA LatestMutation ==
  ASSUME journal \in Seq(Mutation), NEW i, MutationsOf(i) # {}
  PROVE  \E n \in MutationsOf(i) :
           /\ n \in DOMAIN journal /\ LastOf(i) = journal[n]
           /\ n = CHOOSE m \in MutationsOf(i) : \A k \in MutationsOf(i) : k <= m
<1>. DEFINE M == MutationsOf(i)
<1>1. Len(journal) \in Nat /\ M \in SUBSET (1..Len(journal)) /\ DOMAIN journal = 1..Len(journal)
  BY LenProperties DEF MutationsOf
<1>. HIDE DEF M
<1>2. \E n \in M : \A k \in M : k <= n
  <2>1. M # {}
    BY DEF M
  <2>. QED BY <1>1, <2>1, LargestNumber
<1>. DEFINE n == CHOOSE m \in M : \A k \in M : k <= m
<1>3. n \in M
  BY <1>2
<1>. QED BY <1>1, <1>3 DEF M, LastOf

\* What is said of an observation depends on the journal and on its row.
LEMMA JournalledStays ==
  ASSUME NEW i, journal' = journal, Journalled(i),
         Stored(rows', i) <=> Stored(rows, i),
         Stored(rows, i) => /\ rows'[i].content = rows[i].content
                            /\ rows'[i].topic = rows[i].topic
  PROVE  Journalled(i)'
<1>1. MutationsOf(i)' = MutationsOf(i)
  BY DEF MutationsOf
<1>2. LastOf(i)' = LastOf(i)
  BY <1>1 DEF LastOf
<1>3. CASE Stored(rows, i)
  BY <1>1, <1>2, <1>3 DEF Journalled
<1>4. CASE ~Stored(rows, i)
  BY <1>1, <1>2, <1>4 DEF Journalled
<1>. QED BY <1>3, <1>4

\* An entry is the last of its observation, and no other has a new one.
LEMMA AppendedEntry ==
  ASSUME journal \in Seq(Mutation), NEW m \in Mutation, journal' = Append(journal, m)
  PROVE  /\ MutationsOf(m.id)' # {} /\ LastOf(m.id)' = m
         /\ \A i \in Ids : i # m.id =>
              MutationsOf(i)' = MutationsOf(i) /\ (MutationsOf(i) # {} => LastOf(i)' = LastOf(i))
<1>. DEFINE new == Len(journal) + 1
<1>1. /\ Len(journal) \in Nat /\ DOMAIN journal = 1..Len(journal)
      /\ journal' \in Seq(Mutation) /\ DOMAIN journal' = 1..new
      /\ journal'[new] = m /\ \A n \in 1..Len(journal) : journal'[n] = journal[n]
  BY LenProperties
<1>2. new \in MutationsOf(m.id)' /\ \A k \in MutationsOf(m.id)' : k <= new
  BY <1>1 DEF MutationsOf
<1>3. LastOf(m.id)' = m
  <2>. DEFINE M == MutationsOf(m.id)'
  <2>0. \A k \in M : k \in Nat
    BY <1>1 DEF MutationsOf
  <2>. HIDE DEF M, new
  <2>1. (CHOOSE n \in M : \A k \in M : k <= n) = new
    <3>1. \A n \in M : (\A k \in M : k <= n) => n = new
      BY <1>2, <2>0 DEF M
    <3>2. \E n \in M : \A k \in M : k <= n
      BY <1>2 DEF M
    <3>. QED BY <3>1, <3>2
  <2>2. LastOf(m.id)' = journal'[CHOOSE n \in M : \A k \in M : k <= n]
    BY DEF LastOf, M
  <2>. QED BY <1>1, <2>1, <2>2
<1>4. ASSUME NEW i \in Ids, i # m.id
      PROVE  MutationsOf(i)' = MutationsOf(i) /\ (MutationsOf(i) # {} => LastOf(i)' = LastOf(i))
  <2>1. MutationsOf(i)' = MutationsOf(i)
    BY <1>1, <1>4 DEF MutationsOf
  <2>2. ASSUME MutationsOf(i) # {}
        PROVE  LastOf(i)' = LastOf(i)
    <3>1. PICK n \in MutationsOf(i) :
            /\ n \in DOMAIN journal /\ LastOf(i) = journal[n]
            /\ n = CHOOSE k \in MutationsOf(i) : \A j \in MutationsOf(i) : j <= k
      BY <2>2, LatestMutation
    <3>2. LastOf(i)' = journal'[n]
      BY <2>1, <3>1 DEF LastOf
    <3>. QED BY <1>1, <3>1, <3>2
  <2>. QED BY <2>1, <2>2
<1>. QED BY <1>2, <1>3, <1>4

\* An operation that ends has nothing left to record.
LEMMA JournalEnded ==
  ASSUME MemoryInv, NEW p \in Writers, Ended(p)
  PROVE  mop'[p].at # "record"
<1>1. PICK o : MemoryOpOK(o) /\ MemoryAt(p, o) /\ o.at # "record"
  BY EndedOK
<1>. QED BY <1>1, OperationsStay

\* The recorded mutation is the last of its row.
LEMMA RecordJournals ==
  ASSUME MemoryInv, NEW p \in Writers, JournalInv(p), Record(p)
  PROVE  JournalInv(p)'
<1>0. PICK m : m = mop[p].mutation
  OBVIOUS
<1>1. /\ mop[p].at = "record" /\ journal' = Append(journal, m) /\ Ended(p)
      /\ rows' = rows /\ lost' = lost
  BY <1>0 DEF Record
<1>2. m \in Mutation /\ m.id \in Ids /\ journal \in Seq(Mutation)
  BY <1>0, <1>1 DEF MemoryInv, MemoryTypeOK, MemoryOpOK, Mutation
<1>3. mop'[p].at # "record"
  BY <1>1, JournalEnded
<1>4. Describes(m, rows[m.id])
  BY <1>0, <1>1 DEF JournalInv
<1>5. /\ MutationsOf(m.id)' # {} /\ LastOf(m.id)' = m
      /\ \A i \in Ids : i # m.id =>
           MutationsOf(i)' = MutationsOf(i) /\ (MutationsOf(i) # {} => LastOf(i)' = LastOf(i))
  BY <1>1, <1>2, AppendedEntry
<1>6. ASSUME NEW i \in Ids \ lost
      PROVE  Journalled(i)'
  <2>1. CASE i = m.id
    BY <1>1, <1>4, <1>5, <2>1 DEF Journalled, Describes, Stored
  <2>2. CASE i # m.id
    <3>1. Journalled(i)
      BY <1>0, <2>2 DEF JournalInv, Recording
    <3>2. MutationsOf(i)' = MutationsOf(i) /\ (MutationsOf(i) # {} => LastOf(i)' = LastOf(i))
      BY <1>5, <2>2
    <3>3. Stored(rows', i) = Stored(rows, i) /\ rows'[i] = rows[i]
      BY <1>1
    <3>4. CASE Stored(rows, i)
      BY <3>1, <3>2, <3>3, <3>4 DEF Journalled
    <3>5. CASE ~Stored(rows, i)
      BY <3>1, <3>2, <3>3, <3>5 DEF Journalled
    <3>. QED BY <3>4, <3>5
  <2>. QED BY <2>1, <2>2
<1>. QED BY <1>1, <1>3, <1>6 DEF JournalInv, Recording

\* Everything else leaves the journal alone.
LEMMA JournalKept ==
  ASSUME NEW p, JournalInv(p), journal' = journal, lost \subseteq lost',
         mop[p].at # "record", mop'[p].at # "record",
         \A i \in Ids \ lost' :
           /\ Stored(rows', i) <=> Stored(rows, i)
           /\ rows'[i].content = rows[i].content /\ rows'[i].topic = rows[i].topic
  PROVE  JournalInv(p)'
<1>1. \A i \in Ids \ lost' : Journalled(i)'
  BY JournalledStays DEF JournalInv, Recording
<1>. QED BY <1>1 DEF JournalInv, Recording

\* A written row is exempt until its mutation is recorded.
LEMMA WriteJournals ==
  ASSUME MemoryInv, NEW p \in Writers, JournalInv(p), Writes(p), mop[p].at # "record"
  PROVE  JournalInv(p)'
<1>1. PICK i \in Ids, obs \in Observation \cup {NoRow}, m \in Mutation :
        /\ Written(p, Put(rows, i, obs), m) /\ m.id = i /\ fresh' \subseteq Ids
        /\ IF obs = NoRow THEN m.op = "delete"
           ELSE m.op # "delete" /\ m.content = obs.content /\ m.topic = obs.topic
  BY DEF Writes
<1>2. /\ rows' = Put(rows, i, obs) /\ Put(rows, i, obs) \in MemoryTable /\ rows'[i] = obs
      /\ \A j \in Ids : j # i => rows'[j] = rows[j]
      /\ journal' = journal /\ lost' = lost
  BY <1>1, PutTypes DEF Written, MemoryInv, MemoryTypeOK
<1>3. mop'[p].at = "record" /\ mop'[p].mutation = m
  BY <1>1, <1>2, WrittenKeeps
<1>4. Describes(m, rows'[i])
  BY <1>1, <1>2 DEF Describes
<1>5. ASSUME NEW j \in Ids \ lost, j # i
      PROVE  Journalled(j)'
  <2>1. Journalled(j)
    BY DEF JournalInv, Recording
  <2>. QED BY <1>2, <1>5, <2>1, JournalledStays DEF Stored
<1>. QED BY <1>1, <1>2, <1>3, <1>4, <1>5 DEF JournalInv, Recording

\* A row whose mutation is lost is exempt for good.
LEMMA LossExempts ==
  ASSUME MemoryInv, NEW p \in Writers, JournalInv(p), RecordLost(p)
  PROVE  JournalInv(p)'
<1>1. /\ lost' = lost \cup {mop[p].mutation.id} /\ Ended(p)
      /\ rows' = rows /\ journal' = journal
  BY DEF RecordLost
<1>2. mop'[p].at # "record"
  BY <1>1, JournalEnded
<1>3. \A i \in Ids \ lost' : Journalled(i)
  BY <1>1 DEF JournalInv, Recording
<1>4. \A i \in Ids \ lost' : Journalled(i)'
  BY <1>1, <1>3, JournalledStays
<1>. QED BY <1>2, <1>4 DEF JournalInv, Recording

\* An operation that begins or goes on and writes nothing.
LEMMA QuietJournals ==
  ASSUME MemoryInv, NEW p \in Writers, JournalInv(p), mop[p].at # "record",
         UNCHANGED <<rows, fresh, journal, lost>>,
         \E o : MemoryOpOK(o) /\ o.at # "record" /\ MemoryAt(p, o)
  PROVE  JournalInv(p)'
<1>1. mop'[p].at # "record"
  BY OperationsStay
<1>. QED BY <1>1, JournalKept

\* The journal describes the rows of one writer, whatever it does.
LEMMA JournalInvKept ==
  ASSUME NEW p \in Writers, Writers = {p}, MemoryInv, JournalInv(p), [SyncNext]_syncVars
  PROVE  JournalInv(p)'
<1>1. CASE Step(p)
  BY <1>1, StepShape, WriteJournals, RecordJournals, LossExempts, QuietJournals
<1>2. CASE Command(p)
  <2>1. CASE Starts(p)
    BY <2>1, QuietJournals DEF Starts
  <2>2. ASSUME NEW from \in Projects, NEW to \in Projects, merge_projects(p, from, to)
        PROVE  JournalInv(p)'
    <3>1. UNCHANGED <<journal, lost, mop>> /\ mop[p].at = "idle"
      BY <2>2 DEF merge_projects
    <3>2. \A i \in Ids : /\ Stored(rows', i) <=> Stored(rows, i)
                         /\ rows'[i].content = rows[i].content
                         /\ rows'[i].topic = rows[i].topic
      BY <2>2, MergeFacts
    <3>. QED BY <3>1, <3>2, JournalKept
  <2>3. CASE cleanup_old_observations(p)
    <3>1. /\ lost \subseteq lost' /\ UNCHANGED <<journal, mop>> /\ mop[p].at = "idle"
          /\ \A i \in Ids \ lost' : rows'[i] = rows[i]
      BY <2>3, CleanupFacts
    <3>. QED BY <3>1, JournalKept DEF Stored
  <2>. QED BY <1>2, <2>1, <2>2, <2>3, CommandShape
<1>3. CASE UNCHANGED memoryVars
  <2>1. UNCHANGED <<rows, journal, lost, mop>>
    BY <1>3 DEF memoryVars
  <2>2. \A i \in Ids : Journalled(i)' <=> Journalled(i)
    BY <2>1 DEF Journalled, MutationsOf, LastOf, Stored
  <2>. QED BY <2>1, <2>2 DEF JournalInv, Recording
<1>4. Command(p) \/ Step(p) \/ UNCHANGED memoryVars
  BY OnlyWritersWrite
<1>. QED BY <1>1, <1>2, <1>3, <1>4

\* An empty journal describes an empty memory.
LEMMA JournalInit ==
  ASSUME NEW p \in Writers, MemoryInit
  PROVE  JournalInv(p)
<1>1. mop[p].at = "idle"
  BY DEF MemoryInit, MemoryIdle
<1>2. \A i \in Ids : ~Stored(rows, i) /\ MutationsOf(i) = {}
  <2>1. DOMAIN journal = {}
    BY EmptySeq DEF MemoryInit
  <2>. QED BY <2>1 DEF MemoryInit, EmptyMemory, Stored, MutationsOf
<1>. QED BY <1>1, <1>2 DEF JournalInv, Journalled

\* The rows, the journal and every operation have their types, for any
\* number of processes; and an operation that is about to write has what it
\* writes with: a save under a topic its topic, a deletion its id.
THEOREM MemoryTypeCorrect == SyncSpec => []MemoryTypeOK
<1>1. SyncInit => MemoryInv
  BY MemoryInitOK DEF SyncInit
<1>2. MemoryInv /\ [SyncNext]_syncVars => MemoryInv'
  BY MemoryInvKept
<1>3. MemoryInv => MemoryTypeOK
  BY DEF MemoryInv
<1>. QED BY <1>1, <1>2, <1>3, PTL DEF SyncSpec

\* The last mutation of every observation describes its row whenever the
\* process that uses the store is between operations, for any sets of ids,
\* contents, topics and projects: _record_mutation is called with what the
\* repository wrote, on every path that writes a row.
THEOREM JournalFollowsRows ==
  ASSUME NEW w, Writers = {w}
  PROVE  SyncSpec => []JournalKnowsRows
<1>. DEFINE IInv == MemoryInv /\ JournalInv(w)
<1>1. SyncInit => IInv
  BY MemoryInitOK, JournalInit DEF SyncInit
<1>2. IInv /\ [SyncNext]_syncVars => IInv'
  BY MemoryInvKept, JournalInvKept
<1>3. IInv => JournalKnowsRows
  BY DEF JournalInv, JournalKnowsRows, Recording
<1>. QED BY <1>1, <1>2, <1>3, PTL DEF SyncSpec

-----------------------------------------------------------------------------
(* The pieces of a push *)

\* Division, as far as the number of pieces needs it.
LEMMA Division ==
  ASSUME NEW a \in Nat, NEW b \in Nat \ {0}
  PROVE  /\ a \div b \in Nat
         /\ (a \div b) * b <= a
         /\ a < (a \div b) * b + b
BY SMTT(30)

\* Pieces of one size that take less room are fewer.
LEMMA FewerPieces ==
  ASSUME NEW a \in Nat, NEW b \in Nat, NEW c \in Nat \ {0}, a * c < b * c
  PROVE  a < b
BY SMTT(30)

\* The pieces an interval is cut into are chunk files, and cover it.
LEMMA CutCovers ==
  ASSUME NEW lo \in Nat, NEW hi \in Nat, lo <= hi
  PROVE  /\ Cut(lo, hi) \in Seq(Chunk)
         /\ \A n \in DOMAIN Cut(lo, hi) : Cut(lo, hi)[n].at = "file"
         /\ \A s \in lo..hi : \E n \in DOMAIN Cut(lo, hi) :
              s \in Cut(lo, hi)[n].lo..Cut(lo, hi)[n].hi
<1>0. ChunkSize \in Nat \ {0}
  BY SyncAssumption
<1>. DEFINE q == (hi - lo + ChunkSize) \div ChunkSize
            first(n) == lo + (n - 1) * ChunkSize
            last(n) == first(n) + ChunkSize - 1
            end(n) == IF last(n) < hi THEN last(n) ELSE hi
            piece(n) == [lo |-> first(n), hi |-> end(n), at |-> "file", failed |-> FALSE]
<1>1. hi - lo + ChunkSize \in Nat
  BY <1>0
<1>2. q \in Nat /\ hi - lo + ChunkSize < q * ChunkSize + ChunkSize
  BY <1>0, <1>1, Division
<1>3. q * ChunkSize \in Nat /\ hi - lo < q * ChunkSize
  <2>1. q * ChunkSize \in Nat
    BY <1>0, <1>2
  <2>. QED BY <1>0, <1>2, <2>1
<1>4. Cut(lo, hi) = [n \in 1..q |-> piece(n)]
  BY DEF Cut
<1>5. \A n \in 1..q : piece(n) \in Chunk
  <2>. SUFFICES ASSUME NEW n \in 1..q
                PROVE  piece(n) \in Chunk
    OBVIOUS
  <2>1. n - 1 \in Nat
    BY <1>2
  <2>2. (n - 1) * ChunkSize \in Nat
    BY <1>0, <2>1
  <2>3. first(n) \in Nat /\ last(n) \in Nat /\ end(n) \in Nat
    BY <1>0, <2>2
  <2>. QED BY <2>3 DEF Chunk
<1>6. Cut(lo, hi) \in Seq(Chunk)
  BY <1>2, <1>4, <1>5, IsASeq
<1>7. ASSUME NEW s \in lo..hi
      PROVE  \E n \in 1..q : s \in first(n)..end(n)
  <2>. DEFINE k == (s - lo) \div ChunkSize
  <2>1. s - lo \in Nat
    OBVIOUS
  <2>2. k \in Nat /\ k * ChunkSize <= s - lo /\ s - lo < k * ChunkSize + ChunkSize
    BY <1>0, <2>1, Division
  <2>3. k * ChunkSize \in Nat
    BY <1>0, <2>2
  <2>4. k * ChunkSize < q * ChunkSize
    BY <1>3, <2>2, <2>3
  <2>5. k < q
    BY <1>0, <1>2, <2>2, <2>4, FewerPieces
  <2>6. k + 1 \in 1..q /\ (k + 1) - 1 = k
    BY <1>2, <2>2, <2>5
  <2>. HIDE DEF k, q
  <2>7. first(k + 1) = lo + k * ChunkSize
    BY <2>6
  <2>8. s \in first(k + 1)..end(k + 1)
    BY <1>0, <2>2, <2>3, <2>7
  <2>. QED BY <2>6, <2>8
<1>8. /\ DOMAIN Cut(lo, hi) = 1..q
      /\ \A n \in 1..q : /\ Cut(lo, hi)[n].at = "file"
                        /\ Cut(lo, hi)[n].lo = first(n)
                        /\ Cut(lo, hi)[n].hi = end(n)
  <2>. HIDE DEF q, first, end
  <2>. QED BY <1>4
<1>9. \A s \in lo..hi : \E n \in DOMAIN Cut(lo, hi) :
        s \in Cut(lo, hi)[n].lo..Cut(lo, hi)[n].hi
  <2>. HIDE DEF q, first, end
  <2>. QED BY <1>7, <1>8, Zenon
<1>. QED BY <1>6, <1>8, <1>9, Zenon

-----------------------------------------------------------------------------
(* Pushes.  A push moves its chunks from the files to the remote, or has   *)
(* been told that they failed; other pushes only help them on.             *)

InPlace(at, c) ==
  /\ at = "add" => c.at = "file"
  /\ at = "commit" => c.at # "file" \/ c.failed
  /\ at = "push" => c.at \in {"commit", "remote"} \/ c.failed
  /\ at = "watermark" => c.at = "remote" \/ c.failed

PushInv ==
  /\ watermark \in Nat
  /\ chunks \in Seq(Chunk)
  /\ push \in [Pushers -> PushOperation]
  /\ \A p \in Pushers :
       /\ push[p].mine \subseteq DOMAIN chunks
       /\ \A n \in push[p].mine : InPlace(push[p].at, chunks[n])
  /\ \A p, q \in Pushers : p # q => push[p].mine \cap push[q].mine = {}

\* The export moves the watermark only after it has written a file.
FileInv ==
  /\ export.max \in Nat
  /\ \E S : files \in Seq(S)
  /\ export.at = "watermark" => files # <<>>

Safe(s) == Delivered(s) \/ Unnoticed(s)

PushHolds(p, s) == \E n \in push[p].mine : s \in chunks[n].lo..chunks[n].hi

\* What a push is about to promise is delivered, failed or in its hands.
CoverInv ==
  files = <<>> =>
    /\ \A s \in 1..watermark : Safe(s)
    /\ \A p \in Pushers :
         push[p].at # "idle" => \A s \in 1..push[p].max : Safe(s) \/ PushHolds(p, s)

\* A chunk keeps its interval; one that is delivered, or that failed, stays so.
GoesForward(c, d) ==
  /\ d.lo = c.lo /\ d.hi = c.hi
  /\ c.at = "remote" => d.at = "remote"
  /\ c.failed => d.failed

ChunksGoForward ==
  /\ DOMAIN chunks \subseteq DOMAIN chunks'
  /\ \A n \in DOMAIN chunks : GoesForward(chunks[n], chunks'[n])

LEMMA SafeStays ==
  ASSUME ChunksGoForward, NEW s, Safe(s)
  PROVE  Safe(s)'
BY DEF ChunksGoForward, GoesForward, Safe, Delivered, Unnoticed, AtRemote

\* The chunks are of one length and each of them steps.
LEMMA ChunksRewritten ==
  ASSUME chunks \in Seq(Chunk), NEW f, f = [n \in DOMAIN chunks |-> f[n]],
         \A n \in DOMAIN chunks : f[n] \in Chunk
  PROVE  f \in Seq(Chunk) /\ DOMAIN f = DOMAIN chunks
<1>1. Len(chunks) \in Nat /\ DOMAIN chunks = 1..Len(chunks)
  BY LenProperties
<1>. QED BY <1>1

LEMMA MovedChunks ==
  ASSUME chunks \in Seq(Chunk), NEW from,
         NEW to \in {"file", "index", "commit", "remote"}, from # "remote"
  PROVE  /\ Moved(from, to) \in Seq(Chunk) /\ DOMAIN Moved(from, to) = DOMAIN chunks
         /\ \A n \in DOMAIN chunks :
              /\ GoesForward(chunks[n], Moved(from, to)[n])
              /\ Moved(from, to)[n].at = IF chunks[n].at = from THEN to ELSE chunks[n].at
<1>1. \A n \in DOMAIN chunks : chunks[n] \in Chunk
  BY ElementOfSeq, LenProperties
<1>2. \A n \in DOMAIN chunks : [chunks[n] EXCEPT !.at = to] \in Chunk
  BY <1>1 DEF Chunk
<1>3. /\ DOMAIN Moved(from, to) = DOMAIN chunks
      /\ \A n \in DOMAIN chunks :
           Moved(from, to)[n] = IF chunks[n].at = from THEN [chunks[n] EXCEPT !.at = to]
                                ELSE chunks[n]
      /\ Moved(from, to) = [n \in DOMAIN chunks |-> Moved(from, to)[n]]
  BY DEF Moved
<1>4. Moved(from, to) \in Seq(Chunk)
  BY <1>1, <1>2, <1>3, ChunksRewritten
<1>5. \A n \in DOMAIN chunks :
        /\ GoesForward(chunks[n], Moved(from, to)[n])
        /\ Moved(from, to)[n].at = IF chunks[n].at = from THEN to ELSE chunks[n].at
  BY <1>1, <1>3 DEF GoesForward, Chunk
<1>. QED BY <1>3, <1>4, <1>5

LEMMA FailingChunks ==
  ASSUME chunks \in Seq(Chunk), NEW mine
  PROVE  /\ Failing(mine) \in Seq(Chunk) /\ DOMAIN Failing(mine) = DOMAIN chunks
         /\ \A n \in DOMAIN chunks :
              /\ GoesForward(chunks[n], Failing(mine)[n])
              /\ Failing(mine)[n].at = chunks[n].at
              /\ n \in mine => chunks[n].at = "remote" \/ Failing(mine)[n].failed
<1>1. \A n \in DOMAIN chunks : chunks[n] \in Chunk
  BY ElementOfSeq, LenProperties
<1>2. \A n \in DOMAIN chunks : [chunks[n] EXCEPT !.failed = TRUE] \in Chunk
  BY <1>1 DEF Chunk
<1>3. /\ DOMAIN Failing(mine) = DOMAIN chunks
      /\ \A n \in DOMAIN chunks :
           Failing(mine)[n] = IF n \in mine /\ chunks[n].at # "remote"
                              THEN [chunks[n] EXCEPT !.failed = TRUE] ELSE chunks[n]
      /\ Failing(mine) = [n \in DOMAIN chunks |-> Failing(mine)[n]]
  BY DEF Failing
<1>4. Failing(mine) \in Seq(Chunk)
  BY <1>1, <1>2, <1>3, ChunksRewritten
<1>5. \A n \in DOMAIN chunks :
        /\ GoesForward(chunks[n], Failing(mine)[n])
        /\ Failing(mine)[n].at = chunks[n].at
        /\ n \in mine => chunks[n].at = "remote" \/ Failing(mine)[n].failed
  BY <1>1, <1>3 DEF GoesForward, Chunk
<1>. QED BY <1>3, <1>4, <1>5

\* What another push's step does for a chunk.
Helped(c, d) ==
  /\ GoesForward(c, d)
  /\ d.at = "file" <=> c.at = "file"
  /\ c.at = "commit" => d.at \in {"commit", "remote"}

LEMMA PlaceStays ==
  ASSUME NEW c \in Chunk, NEW d \in Chunk, Helped(c, d), NEW at, InPlace(at, c)
  PROVE  InPlace(at, d)
BY DEF Helped, GoesForward, InPlace, Chunk

\* A push takes one step on, and the chunks of the others are helped.
LEMMA PushAdvances ==
  ASSUME PushInv, CoverInv, NEW p \in Pushers, NEW at \in {"commit", "push", "watermark"},
         push[p].at # "idle", PushStep(p, [push[p] EXCEPT !.at = at]), watermark' = watermark,
         chunks' \in Seq(Chunk), DOMAIN chunks' = DOMAIN chunks,
         \A n \in DOMAIN chunks : GoesForward(chunks[n], chunks'[n]),
         \A n \in push[p].mine : InPlace(at, chunks'[n]),
         \A n \in DOMAIN chunks \ push[p].mine : Helped(chunks[n], chunks'[n])
  PROVE  PushInv' /\ CoverInv'
<1>1. push[p] \in PushOperation
  BY DEF PushInv
<1>2. /\ push' \in [Pushers -> PushOperation]
      /\ push'[p].mine = push[p].mine /\ push'[p].max = push[p].max /\ push'[p].at = at
      /\ \A q \in Pushers : q # p => push'[q] = push[q]
  BY <1>1 DEF PushInv, PushStep, PushOperation
<1>3. \A n \in DOMAIN chunks : chunks[n] \in Chunk /\ chunks'[n] \in Chunk
  BY ElementOfSeq, LenProperties DEF PushInv
<1>4. \A q \in Pushers : push'[q].mine = push[q].mine
  BY <1>2
<1>5. ASSUME NEW q \in Pushers, q # p, NEW n \in push[q].mine
      PROVE  InPlace(push[q].at, chunks'[n])
  <2>1. n \in DOMAIN chunks \ push[p].mine /\ InPlace(push[q].at, chunks[n])
    BY <1>5 DEF PushInv
  <2>. QED BY <1>3, <2>1, PlaceStays
<1>6. PushInv'
  <2>1. ASSUME NEW q \in Pushers
        PROVE  /\ push'[q].mine \subseteq DOMAIN chunks'
               /\ \A n \in push'[q].mine : InPlace(push'[q].at, chunks'[n])
    <3>1. CASE q = p
      BY <1>2, <3>1 DEF PushInv
    <3>2. CASE q # p
      BY <1>2, <1>5, <3>2 DEF PushInv
    <3>. QED BY <3>1, <3>2
  <2>2. \A q, r \in Pushers : q # r => push'[q].mine \cap push'[r].mine = {}
    BY <1>4 DEF PushInv
  <2>. QED BY <1>2, <2>1, <2>2 DEF PushInv
<1>7. files' = files
  BY DEF PushStep, fileVars
<1>8. ChunksGoForward
  BY DEF ChunksGoForward
<1>9. ASSUME NEW q \in Pushers, NEW s, PushHolds(q, s)
      PROVE  PushHolds(q, s)'
  <2>1. PICK n \in push[q].mine : s \in chunks[n].lo..chunks[n].hi
    BY <1>9 DEF PushHolds
  <2>2. n \in DOMAIN chunks
    BY <2>1 DEF PushInv
  <2>3. s \in chunks'[n].lo..chunks'[n].hi
    BY <2>1, <2>2 DEF GoesForward
  <2>. QED BY <1>4, <2>3 DEF PushHolds
<1>10. ASSUME files' = <<>>
       PROVE  /\ \A s \in 1..watermark' : Safe(s)'
              /\ \A q \in Pushers :
                   push'[q].at # "idle" => \A s \in 1..push'[q].max : Safe(s)' \/ PushHolds(q, s)'
  <2>1. \A s \in 1..watermark' : Safe(s)'
    BY <1>7, <1>8, <1>10, SafeStays DEF CoverInv
  <2>2. ASSUME NEW q \in Pushers, push'[q].at # "idle"
        PROVE  push[q].at # "idle" /\ push'[q].max = push[q].max
    <3>1. CASE q = p
      BY <1>2, <3>1
    <3>2. CASE q # p
      BY <1>2, <2>2, <3>2
    <3>. QED BY <3>1, <3>2
  <2>3. ASSUME NEW q \in Pushers, push'[q].at # "idle", NEW s \in 1..push'[q].max
        PROVE  Safe(s)' \/ PushHolds(q, s)'
    <3>1. Safe(s) \/ PushHolds(q, s)
      BY <1>7, <1>10, <2>2, <2>3 DEF CoverInv
    <3>. QED BY <1>8, <1>9, <3>1, SafeStays
  <2>. QED BY <2>1, <2>3
<1>. QED BY <1>6, <1>10 DEF CoverInv

\* A push ends, and the watermark is where it was or where it was to go.
LEMMA PushEnds ==
  ASSUME PushInv, CoverInv, NEW p \in Pushers, PushStep(p, PushIdle), chunks' = chunks,
         watermark' \in Nat, files = <<>> => \A s \in 1..watermark' : Safe(s)
  PROVE  PushInv' /\ CoverInv'
<1>1. PushIdle \in PushOperation /\ PushIdle.mine = {} /\ PushIdle.at = "idle"
  BY DEF PushIdle, PushOperation
<1>2. /\ push' \in [Pushers -> PushOperation] /\ push'[p] = PushIdle
      /\ \A q \in Pushers : q # p => push'[q] = push[q]
  BY <1>1 DEF PushInv, PushStep
<1>3. ASSUME NEW q \in Pushers
      PROVE  push'[q] = PushIdle \/ push'[q] = push[q]
  BY <1>2
<1>4. PushInv'
  BY <1>1, <1>2, <1>3 DEF PushInv
<1>5. files' = files
  BY DEF PushStep, fileVars
<1>6. \A s : Safe(s)' <=> Safe(s)
  BY DEF Safe, Delivered, Unnoticed, AtRemote
<1>7. ASSUME NEW q \in Pushers, push'[q].at # "idle"
      PROVE  push'[q] = push[q] /\ \A s : PushHolds(q, s)' <=> PushHolds(q, s)
  BY <1>1, <1>3, <1>7 DEF PushHolds
<1>. QED BY <1>4, <1>5, <1>6, <1>7 DEF CoverInv

LEMMA ExportKeeps ==
  ASSUME MemoryInv, PushInv, CoverInv, NEW p \in Pushers, export_incremental(p)
  PROVE  PushInv' /\ CoverInv'
<1>1. Len(journal) \in Nat /\ watermark \in Nat /\ watermark < Len(journal)
  BY LenProperties DEF MemoryInv, MemoryTypeOK, PushInv, export_incremental
<1>. DEFINE cut == Cut(watermark + 1, Len(journal))
<1>2. PICK new : new = cut
  OBVIOUS
<1>3. /\ new \in Seq(Chunk)
      /\ \A n \in DOMAIN new : new[n].at = "file"
      /\ \A s \in (watermark + 1)..Len(journal) : \E n \in DOMAIN new : s \in new[n].lo..new[n].hi
  <2>1. watermark + 1 \in Nat /\ watermark + 1 <= Len(journal)
    BY <1>1
  <2>. QED BY <1>1, <1>2, <2>1, CutCovers
<1>. DEFINE before == Len(chunks)
            after == Len(chunks) + Len(new)
<1>4. /\ before \in Nat /\ Len(new) \in Nat
      /\ DOMAIN chunks = 1..before /\ DOMAIN new = 1..Len(new)
  BY <1>3, LenProperties DEF PushInv
<1>. DEFINE op == [at |-> "add", mine |-> (before + 1)..after, max |-> Len(journal)]
<1>5. /\ chunks' = chunks \o new /\ PushStep(p, op) /\ watermark' = watermark
      /\ push[p].at = "idle"
  BY <1>2 DEF export_incremental
<1>6. /\ chunks' \in Seq(Chunk) /\ DOMAIN chunks' = 1..after
      /\ \A n \in 1..before : chunks'[n] = chunks[n]
      /\ \A n \in 1..Len(new) : chunks'[before + n] = new[n]
  <2>1. /\ chunks' \in Seq(Chunk) /\ Len(chunks') = after
        /\ \A n \in 1..after : chunks'[n] = IF n <= before THEN chunks[n] ELSE new[n - before]
    BY <1>3, <1>5, ConcatProperties DEF PushInv
  <2>2. DOMAIN chunks' = 1..after
    BY <2>1, LenProperties
  <2>3. \A n \in 1..Len(new) : chunks'[before + n] = new[n]
    <3>. SUFFICES ASSUME NEW n \in 1..Len(new)
                  PROVE  chunks'[before + n] = new[n]
      OBVIOUS
    <3>1. before + n \in 1..after /\ ~(before + n <= before) /\ (before + n) - before = n
      BY <1>4
    <3>. HIDE DEF before, after
    <3>. QED BY <2>1, <3>1
  <2>4. \A n \in 1..before : n \in 1..after /\ n <= before
    BY <1>4
  <2>. QED BY <2>1, <2>2, <2>3, <2>4
<1>7. ChunksGoForward
  BY <1>4, <1>6 DEF ChunksGoForward, GoesForward
<1>8. op \in PushOperation
  BY <1>1, <1>4 DEF PushOperation
<1>9. /\ push' \in [Pushers -> PushOperation] /\ push'[p] = op
      /\ \A q \in Pushers : q # p => push'[q] = push[q]
  BY <1>5, <1>8 DEF PushInv, PushStep
<1>10. \A n \in op.mine : n \in DOMAIN chunks' /\ n \notin DOMAIN chunks /\ chunks'[n].at = "file"
  <2>. SUFFICES ASSUME NEW n \in (before + 1)..after
                PROVE  n \in DOMAIN chunks' /\ n \notin DOMAIN chunks /\ chunks'[n].at = "file"
    OBVIOUS
  <2>1. n - before \in 1..Len(new) /\ before + (n - before) = n /\ n \in 1..after /\ n \notin 1..before
    BY <1>4
  <2>2. chunks'[n] = new[n - before]
    BY <1>6, <2>1
  <2>. QED BY <1>3, <1>4, <1>6, <2>1, <2>2
<1>. HIDE DEF op
<1>11. op.at = "add" /\ op.max = Len(journal)
  BY DEF op
<1>12. PushInv'
  <2>1. ASSUME NEW q \in Pushers
        PROVE  /\ push'[q].mine \subseteq DOMAIN chunks'
               /\ \A n \in push'[q].mine : InPlace(push'[q].at, chunks'[n])
    <3>1. CASE q = p
      BY <1>9, <1>10, <1>11, <3>1 DEF InPlace
    <3>2. CASE q # p
      <4>1. push[q].mine \subseteq DOMAIN chunks /\ \A n \in push[q].mine : InPlace(push[q].at, chunks[n])
        BY DEF PushInv
      <4>. QED BY <1>4, <1>6, <1>7, <1>9, <3>2, <4>1 DEF ChunksGoForward
    <3>. QED BY <3>1, <3>2
  <2>2. ASSUME NEW q \in Pushers, NEW r \in Pushers, q # r
        PROVE  push'[q].mine \cap push'[r].mine = {}
    <3>1. push[q].mine \subseteq DOMAIN chunks /\ push[r].mine \subseteq DOMAIN chunks
      BY DEF PushInv
    <3>2. CASE q = p
      BY <1>9, <1>10, <2>2, <3>1, <3>2
    <3>3. CASE r = p
      BY <1>9, <1>10, <2>2, <3>1, <3>3
    <3>4. CASE q # p /\ r # p
      BY <1>9, <2>2, <3>4 DEF PushInv
    <3>. QED BY <3>2, <3>3, <3>4
  <2>. QED BY <1>1, <1>5, <1>6, <1>9, <2>1, <2>2 DEF PushInv
<1>13. files' = files
  BY <1>5 DEF PushStep, fileVars
<1>14. \A s \in (watermark + 1)..Len(journal) : PushHolds(p, s)'
  <2>. SUFFICES ASSUME NEW s \in (watermark + 1)..Len(journal)
                PROVE  PushHolds(p, s)'
    OBVIOUS
  <2>1. PICK n \in 1..Len(new) : s \in new[n].lo..new[n].hi
    BY <1>3, <1>4
  <2>2. before + n \in (before + 1)..after
    BY <1>4
  <2>3. s \in chunks'[before + n].lo..chunks'[before + n].hi
    BY <1>6, <2>1
  <2>. QED BY <1>9, <2>2, <2>3 DEF PushHolds, op
<1>15. ASSUME files' = <<>>, NEW q \in Pushers, push'[q].at # "idle", NEW s \in 1..push'[q].max
       PROVE  Safe(s)' \/ PushHolds(q, s)'
  <2>1. CASE q = p
    <3>1. s \in 1..watermark \/ s \in (watermark + 1)..Len(journal)
      BY <1>1, <1>9, <1>11, <1>15, <2>1
    <3>. QED BY <1>7, <1>13, <1>14, <1>15, <2>1, <3>1, SafeStays DEF CoverInv
  <2>2. CASE q # p
    <3>1. push'[q] = push[q]
      BY <1>9, <2>2
    <3>2. Safe(s) \/ PushHolds(q, s)
      BY <1>13, <1>15, <3>1 DEF CoverInv
    <3>3. PushHolds(q, s) => PushHolds(q, s)'
      BY <1>7, <3>1 DEF PushInv, PushHolds, ChunksGoForward, GoesForward
    <3>. QED BY <1>7, <3>2, <3>3, SafeStays
  <2>. QED BY <2>1, <2>2
<1>16. \A s \in 1..watermark' : files' = <<>> => Safe(s)'
  BY <1>5, <1>7, <1>13, SafeStays DEF CoverInv
<1>. QED BY <1>12, <1>15, <1>16 DEF CoverInv

LEMMA GitAddKeeps ==
  ASSUME PushInv, CoverInv, NEW p \in Pushers, GitAdd(p)
  PROVE  PushInv' /\ CoverInv'
<1>. DEFINE added == [n \in DOMAIN chunks |->
                        IF n \in push[p].mine THEN [chunks[n] EXCEPT !.at = "index"]
                        ELSE chunks[n]]
<1>1. /\ push[p].at = "add" /\ PushStep(p, [push[p] EXCEPT !.at = "commit"])
      /\ watermark' = watermark /\ (chunks' = added \/ chunks' = Failing(push[p].mine))
  BY DEF GitAdd
<1>2. \A n \in push[p].mine : n \in DOMAIN chunks /\ chunks[n].at = "file"
  BY <1>1 DEF PushInv, InPlace
<1>3. \A n \in DOMAIN chunks : chunks[n] \in Chunk
  BY ElementOfSeq, LenProperties DEF PushInv
<1>4. CASE chunks' = added
  <2>1. /\ DOMAIN added = DOMAIN chunks
        /\ \A n \in DOMAIN chunks :
             added[n] = IF n \in push[p].mine THEN [chunks[n] EXCEPT !.at = "index"]
                        ELSE chunks[n]
        /\ added = [n \in DOMAIN chunks |-> added[n]]
    OBVIOUS
  <2>. HIDE DEF added
  <2>2. \A n \in DOMAIN chunks : [chunks[n] EXCEPT !.at = "index"] \in Chunk
    BY <1>3 DEF Chunk
  <2>3. added \in Seq(Chunk)
    BY <1>3, <2>1, <2>2, ChunksRewritten DEF PushInv
  <2>4. \A n \in DOMAIN chunks : GoesForward(chunks[n], added[n])
    BY <1>2, <1>3, <2>1 DEF GoesForward, Chunk
  <2>5. \A n \in push[p].mine : InPlace("commit", added[n])
    BY <1>2, <1>3, <2>1 DEF InPlace, Chunk
  <2>6. \A n \in DOMAIN chunks \ push[p].mine : Helped(chunks[n], added[n])
    BY <2>1 DEF Helped, GoesForward
  <2>. QED BY <1>1, <1>4, <2>1, <2>3, <2>4, <2>5, <2>6, PushAdvances
<1>5. CASE chunks' = Failing(push[p].mine)
  <2>1. \A n \in push[p].mine : InPlace("commit", chunks'[n])
    BY <1>2, <1>5, FailingChunks DEF InPlace, PushInv
  <2>2. \A n \in DOMAIN chunks \ push[p].mine : Helped(chunks[n], chunks'[n])
    BY <1>5, FailingChunks DEF Helped, PushInv
  <2>. QED BY <1>1, <1>5, <2>1, <2>2, FailingChunks, PushAdvances DEF PushInv
<1>. QED BY <1>1, <1>4, <1>5

LEMMA GitCommitKeeps ==
  ASSUME PushInv, CoverInv, NEW p \in Pushers, GitCommit(p)
  PROVE  PushInv' /\ CoverInv'
<1>1. /\ push[p].at = "commit" /\ PushStep(p, [push[p] EXCEPT !.at = "push"])
      /\ watermark' = watermark
      /\ chunks' = Moved("index", "commit") \/ chunks' = Failing(push[p].mine)
  BY DEF GitCommit
<1>2. \A n \in push[p].mine : n \in DOMAIN chunks /\ (chunks[n].at # "file" \/ chunks[n].failed)
  BY <1>1 DEF PushInv, InPlace
<1>3. \A n \in DOMAIN chunks : chunks[n] \in Chunk
  BY ElementOfSeq, LenProperties DEF PushInv
<1>4. CASE chunks' = Moved("index", "commit")
  <2>1. /\ chunks' \in Seq(Chunk) /\ DOMAIN chunks' = DOMAIN chunks
        /\ \A n \in DOMAIN chunks :
             /\ GoesForward(chunks[n], chunks'[n])
             /\ chunks'[n].at = IF chunks[n].at = "index" THEN "commit" ELSE chunks[n].at
    BY <1>4, MovedChunks DEF PushInv
  <2>2. \A n \in push[p].mine : InPlace("push", chunks'[n])
    BY <1>2, <1>3, <2>1 DEF InPlace, GoesForward, Chunk
  <2>3. \A n \in DOMAIN chunks \ push[p].mine : Helped(chunks[n], chunks'[n])
    BY <1>3, <2>1 DEF Helped, Chunk
  <2>. QED BY <1>1, <2>1, <2>2, <2>3, PushAdvances
<1>5. CASE chunks' = Failing(push[p].mine)
  <2>1. \A n \in push[p].mine : InPlace("push", chunks'[n])
    BY <1>2, <1>5, FailingChunks DEF InPlace, PushInv
  <2>2. \A n \in DOMAIN chunks \ push[p].mine : Helped(chunks[n], chunks'[n])
    BY <1>5, FailingChunks DEF Helped, PushInv
  <2>. QED BY <1>1, <1>5, <2>1, <2>2, FailingChunks, PushAdvances DEF PushInv
<1>. QED BY <1>1, <1>4, <1>5

LEMMA GitPushKeeps ==
  ASSUME PushInv, CoverInv, NEW p \in Pushers, GitPush(p)
  PROVE  PushInv' /\ CoverInv'
<1>1. push[p].at = "push" /\ watermark' = watermark
  BY DEF GitPush
<1>2. CASE chunks' = Moved("commit", "remote") /\ PushStep(p, [push[p] EXCEPT !.at = "watermark"])
  <2>1. \A n \in push[p].mine :
          n \in DOMAIN chunks /\ (chunks[n].at \in {"commit", "remote"} \/ chunks[n].failed)
    BY <1>1 DEF PushInv, InPlace
  <2>2. /\ chunks' \in Seq(Chunk) /\ DOMAIN chunks' = DOMAIN chunks
        /\ \A n \in DOMAIN chunks :
             /\ GoesForward(chunks[n], chunks'[n])
             /\ chunks'[n].at = IF chunks[n].at = "commit" THEN "remote" ELSE chunks[n].at
    BY <1>2, MovedChunks DEF PushInv
  <2>3. \A n \in push[p].mine : InPlace("watermark", chunks'[n])
    BY <2>1, <2>2 DEF InPlace, GoesForward
  <2>4. \A n \in DOMAIN chunks \ push[p].mine : Helped(chunks[n], chunks'[n])
    BY <2>2 DEF Helped
  <2>. QED BY <1>1, <1>2, <2>2, <2>3, <2>4, PushAdvances
<1>3. CASE PushStep(p, PushIdle) /\ chunks' = chunks
  BY <1>1, <1>3, PushEnds DEF PushInv, CoverInv
<1>. QED BY <1>2, <1>3 DEF GitPush

\* The step the rest is for: all that the push promises is at the remote.
LEMMA CommitKeeps ==
  ASSUME PushInv, CoverInv, NEW p \in Pushers, commit_export_watermark(p)
  PROVE  PushInv' /\ CoverInv'
<1>1. /\ push[p].at = "watermark" /\ watermark' = push[p].max /\ chunks' = chunks
      /\ PushStep(p, PushIdle)
  BY DEF commit_export_watermark
<1>2. watermark' \in Nat
  BY <1>1 DEF PushInv, PushOperation
<1>3. \A s : PushHolds(p, s) => Safe(s)
  BY <1>1 DEF PushInv, InPlace, PushHolds, Safe, Delivered, Unnoticed, AtRemote
<1>4. files = <<>> => \A s \in 1..watermark' : Safe(s)
  BY <1>1, <1>3 DEF CoverInv
<1>. QED BY <1>1, <1>2, <1>4, PushEnds

LEMMA PushKeeps ==
  ASSUME MemoryInv, PushInv, CoverInv, NEW p \in Pushers, Push(p)
  PROVE  PushInv' /\ CoverInv'
<1>1. PusherDies(p) => PushInv' /\ CoverInv'
  BY PushEnds DEF PusherDies, PushInv, CoverInv
<1>. QED BY <1>1, ExportKeeps, GitAddKeeps, GitCommitKeeps, GitPushKeeps, CommitKeeps DEF Push

\* A step that leaves the pushes alone.
LEMMA PushStays ==
  ASSUME PushInv, CoverInv, UNCHANGED <<chunks, push>>, watermark' \in Nat,
         files' = <<>> => files = <<>> /\ watermark' = watermark
  PROVE  PushInv' /\ CoverInv'
<1>1. PushInv'
  BY DEF PushInv
<1>2. \A s : Safe(s)' <=> Safe(s)
  BY DEF Safe, Delivered, Unnoticed, AtRemote
<1>3. \A p, s : PushHolds(p, s)' <=> PushHolds(p, s)
  BY DEF PushHolds
<1>. QED BY <1>1, <1>2, <1>3 DEF CoverInv

\* sync export and sync import leave the chunks alone.
LEMMA FileKeeps ==
  ASSUME MemoryInv, PushInv, FileInv, CoverInv, File
  PROVE  PushInv' /\ FileInv' /\ CoverInv'
<1>0. Len(journal) \in Nat /\ export.max \in Nat /\ watermark \in Nat
  BY LenProperties DEF MemoryInv, MemoryTypeOK, FileInv, PushInv
<1>1. ASSUME NEW filter \in Scopes, ExportRead(filter)
      PROVE  PushInv' /\ FileInv' /\ CoverInv'
  <2>1. UNCHANGED <<chunks, push, watermark, files>>
    BY <1>1 DEF ExportRead, ExportStep
  <2>2. export'.max = Len(journal) /\ export'.at = "write"
    BY <1>1 DEF ExportRead, ExportStep
  <2>. QED BY <1>0, <2>1, <2>2, PushStays DEF FileInv
<1>2. CASE ExportWrite
  <2>1. PICK S : files \in Seq(S)
    BY DEF FileInv
  <2>2. PICK r : files' = Append(files, r)
    BY <1>2 DEF ExportWrite
  <2>3. files \in Seq(S \cup {r})
    BY <2>1, SeqDef
  <2>4. files' \in Seq(S \cup {r}) /\ files' # <<>>
    BY <2>2, <2>3, AppendProperties
  <2>5. UNCHANGED <<chunks, push, watermark>> /\ export' = [export EXCEPT !.at = "watermark"]
    BY <1>2 DEF ExportWrite, ExportStep
  <2>6. export'.max = export.max
    BY <2>5
  <2>. QED BY <1>0, <2>4, <2>5, <2>6, PushStays DEF FileInv
<1>3. CASE ExportWatermark
  <2>1. UNCHANGED <<chunks, push, files>> /\ export' = ExportIdle /\ files # <<>>
    BY <1>3 DEF ExportWatermark, ExportStep, FileInv
  <2>2. watermark' \in Nat
    BY <1>0, <1>3 DEF ExportWatermark
  <2>. QED BY <2>1, <2>2, PushStays DEF FileInv, ExportIdle
<1>4. ASSUME NEW n \in DOMAIN files, import_observations(n)
      PROVE  PushInv' /\ FileInv' /\ CoverInv'
  <2>1. UNCHANGED <<chunks, push, watermark, files, export>>
    BY <1>4 DEF import_observations, pushVars
  <2>. QED BY <1>0, <2>1, PushStays DEF FileInv
<1>. QED BY <1>1, <1>2, <1>3, <1>4 DEF File

\* What holds of chunks, files and the watermark is kept by every step.
LEMMA DeliveryKept ==
  ASSUME MemoryInv, PushInv, FileInv, CoverInv, [SyncNext]_syncVars
  PROVE  PushInv' /\ FileInv' /\ CoverInv'
<1>1. ASSUME NEW p \in Pushers, Push(p)
      PROVE  PushInv' /\ FileInv' /\ CoverInv'
  <2>1. UNCHANGED fileVars
    BY <1>1 DEF Push, export_incremental, GitAdd, GitCommit, GitPush,
                commit_export_watermark, PusherDies, PushStep
  <2>. QED BY <1>1, <2>1, PushKeeps DEF FileInv, fileVars
<1>2. ASSUME UNCHANGED <<pushVars, fileVars>>
      PROVE  PushInv' /\ FileInv' /\ CoverInv'
  BY <1>2, PushStays DEF PushInv, FileInv, pushVars, fileVars
<1>3. Pull => UNCHANGED <<pushVars, fileVars>>
  BY DEF Pull, GitPull, ImportChunk, PullerDies
<1>. QED BY <1>1, <1>2, <1>3, FileKeeps DEF SyncNext, syncVars

\* Nothing has been exported at first.
LEMMA DeliveryInit ==
  ASSUME SyncInit
  PROVE  PushInv /\ FileInv /\ CoverInv
<1>1. PushIdle \in PushOperation /\ PushIdle.mine = {} /\ PushIdle.at = "idle"
  BY DEF PushIdle, PushOperation
<1>2. <<>> \in Seq(Chunk) /\ files \in Seq({})
  BY EmptySeq DEF SyncInit
<1>. QED BY <1>1, <1>2 DEF SyncInit, PushInv, FileInv, CoverInv, ExportIdle

\* Nothing the watermark has passed is missing from the remote, for any
\* number of writers and of pushes in one clone, any size of chunk, and
\* whichever pushes die or are refused: the watermark follows what a push
\* exported and no later entry, a chunk that was committed by one push is
\* pushed by any, and only git add and git commit failing, which nobody looks
\* at, or sync export, can lose a mutation.
THEOREM WatermarksAreDelivered == SyncSpec => []WatermarkIsDelivered
<1>. DEFINE IInv == MemoryInv /\ PushInv /\ FileInv /\ CoverInv
<1>1. SyncInit => IInv
  BY MemoryInitOK, DeliveryInit DEF SyncInit
<1>2. IInv /\ [SyncNext]_syncVars => IInv'
  BY MemoryInvKept, DeliveryKept
<1>3. IInv => WatermarkIsDelivered
  BY DEF CoverInv, WatermarkIsDelivered, Safe
<1>. QED BY <1>1, <1>2, <1>3, PTL DEF SyncSpec

-----------------------------------------------------------------------------
(*****************************************************************************)
(* Convergence.  What the first n mutations make of an observation is        *)
(* After(n, i).  While the other machine applies mutations again, each of    *)
(* its observations is as the journal made it at some later time or now:     *)
(* behind the mutation that was applied last nothing is found.  That needs   *)
(* topics that stay: of two observations that have had one topic, the one    *)
(* that cannot be written because the other has the topic is gone at the     *)
(* time of which the other is.                                               *)
(*****************************************************************************)

\* The mutations of an observation among the first n.
Until(n, i) == {k \in 1..n : journal[k].id = i}

\* The row a mutation makes.
Made(m) == IF m.op = "delete" THEN NoRow ELSE Received(m)

\* The observation, as the first n mutations made it.
After(n, i) == IF Until(n, i) = {} THEN NoRow ELSE Made(journal[Last(Until(n, i))])

\* Last is the largest of a set of entries.
LEMMA LastIsLargest ==
  ASSUME NEW n \in Nat, NEW S \in SUBSET (1..n), S # {}
  PROVE  Last(S) \in S /\ \A k \in S : k <= Last(S)
BY LargestNumber DEF Last

\* An entry no other one is behind is Last.
LEMMA LastIs ==
  ASSUME NEW n \in Nat, NEW S \in SUBSET (1..n), NEW v \in S, \A k \in S : k <= v
  PROVE  Last(S) = v
<1>1. Last(S) \in S /\ \A k \in S : k <= Last(S)
  <2>1. S # {}
    OBVIOUS
  <2>. QED BY <2>1, LastIsLargest
<1>2. v <= Last(S) /\ Last(S) <= v
  BY <1>1
<1>3. v \in 1..n /\ Last(S) \in 1..n
  BY <1>1
<1>. QED BY <1>2, <1>3

\* No mutation makes nothing.
LEMMA AfterNothing ==
  ASSUME NEW i
  PROVE  After(0, i) = NoRow
BY DEF After, Until

\* A mutation makes its own row, and leaves the others as they were.
LEMMA AfterSteps ==
  ASSUME NEW n \in Nat \ {0}
  PROVE  /\ After(n, journal[n].id) = Made(journal[n])
         /\ \A i : i # journal[n].id => After(n, i) = After(n - 1, i)
<1>1. ASSUME NEW i, i # journal[n].id
      PROVE  After(n, i) = After(n - 1, i)
  <2>1. Until(n, i) = Until(n - 1, i)
    BY <1>1 DEF Until
  <2>. QED BY <2>1 DEF After
<1>2. Last(Until(n, journal[n].id)) = n /\ Until(n, journal[n].id) # {}
  <2>1. Until(n, journal[n].id) \in SUBSET (1..n) /\ n \in Until(n, journal[n].id)
    BY DEF Until
  <2>2. \A k \in Until(n, journal[n].id) : k <= n
    BY <2>1
  <2>. QED BY <2>1, <2>2, LastIs
<1>. QED BY <1>1, <1>2 DEF After

\* What After says is a row of the journal.
LEMMA AfterIsEntry ==
  ASSUME NEW n \in Nat, NEW i, After(n, i) # NoRow
  PROVE  \E k \in 1..n : /\ journal[k].id = i /\ journal[k].op # "delete"
                         /\ After(n, i) = Received(journal[k])
<1>1. Until(n, i) # {}
  BY DEF After
<1>2. Last(Until(n, i)) \in Until(n, i)
  <2>1. Until(n, i) \in SUBSET (1..n)
    BY DEF Until
  <2>. QED BY <1>1, <2>1, LastIsLargest
<1>. QED BY <1>1, <1>2 DEF After, Until, Made

\* The journal only grows: what it made of an observation stays.
LEMMA AfterStays ==
  ASSUME journal \in Seq(Mutation), NEW m, journal' = journal \/ journal' = Append(journal, m),
         NEW n \in 0..Len(journal), NEW i
  PROVE  After(n, i)' = After(n, i)
<1>1. \A k \in 1..n : journal'[k] = journal[k]
  <2>1. Len(journal) \in Nat
    BY LenProperties
  <2>2. CASE journal' = Append(journal, m)
    <3>1. \A k \in 1..Len(journal) : journal'[k] = journal[k]
      BY <2>2, AppendProperties
    <3>. QED BY <2>1, <3>1
  <2>. QED BY <2>2
<1>2. Until(n, i)' = Until(n, i)
  BY <1>1 DEF Until
<1>3. CASE Until(n, i) = {}
  BY <1>2, <1>3 DEF After
<1>4. CASE Until(n, i) # {}
  <2>1. Until(n, i) \in SUBSET (1..n) /\ n \in Nat
    BY LenProperties DEF Until
  <2>2. Last(Until(n, i)) \in 1..n
    BY <1>4, <2>1, LastIsLargest
  <2>. QED BY <1>1, <1>2, <1>4, <2>2 DEF After, Made, Received
<1>. QED BY <1>3, <1>4

-----------------------------------------------------------------------------
(* The table of TopicsShared *)

\* A mutation replayed, whatever topics the others have.
Replayed(before, m) ==
  IF m.op = "delete" THEN Remove(before, m.id) ELSE Put(before, m.id, Received(m))

\* A mutation done in the table of TopicsShared, or by a pull.
Do(by, before, m) == IF by = "pull" THEN apply_mutation(before, m) ELSE Replayed(before, m)

\* f does the mutations from lo + 1 to n, one after the other.
DoneInSteps(by, start, lo, n, f) ==
  \A k \in lo..n : f[k] = IF k = lo THEN start ELSE Do(by, f[k - 1], journal[k])

\* Functions that do mutations one after the other exist.
LEMMA StepsExist ==
  ASSUME NEW start, NEW by, NEW lo \in Int, NEW n \in Nat
  PROVE  \E f : f = [k \in lo..(lo + n) |-> f[k]] /\ DoneInSteps(by, start, lo, lo + n, f)
<1>. DEFINE Has(j) == \E f : /\ f = [k \in lo..(lo + j) |-> f[k]]
                             /\ DoneInSteps(by, start, lo, lo + j, f)
            S == {j \in Nat : ~Has(j)}
<1>1. SUFFICES ASSUME S # {} PROVE FALSE
  OBVIOUS
<1>2. PICK j \in S : \A k \in S : j <= k
  <2>. HIDE DEF S
  <2>1. S \in SUBSET Nat
    BY DEF S
  <2>. QED BY <1>1, <2>1, SmallestNumber
<1>0. j \in Nat /\ ~Has(j)
  OBVIOUS
<1>3. CASE j = 0
  <2>. DEFINE f == [k \in lo..(lo + j) |-> start]
  <2>1. lo + j = lo /\ \A k \in lo..lo : k = lo
    BY <1>3
  <2>2. f = [k \in lo..(lo + j) |-> f[k]] /\ DoneInSteps(by, start, lo, lo + j, f)
    BY <2>1 DEF DoneInSteps
  <2>. HIDE DEF f
  <2>. QED BY <1>0, <2>2
<1>4. CASE j # 0
  <2>1. j - 1 \in Nat /\ j - 1 \notin S
    <3>. HIDE DEF S
    <3>. QED BY <1>0, <1>2, <1>4
  <2>2. PICK g : DoneInSteps(by, start, lo, lo + (j - 1), g)
    BY <2>1
  <2>. DEFINE f == [k \in lo..(lo + j) |->
                      IF k = lo + j THEN Do(by, g[k - 1], journal[k]) ELSE g[k]]
  <2>3. \A k \in lo..(lo + j) : f[k] = IF k = lo THEN start ELSE Do(by, f[k - 1], journal[k])
    <3>. SUFFICES ASSUME NEW k \in lo..(lo + j)
                  PROVE  f[k] = IF k = lo THEN start ELSE Do(by, f[k - 1], journal[k])
      OBVIOUS
    <3>1. CASE k = lo + j
      <4>1. k # lo /\ k - 1 \in lo..(lo + j) /\ k - 1 # lo + j
        BY <1>0, <1>4, <3>1
      <4>. QED BY <3>1, <4>1
    <3>2. CASE k # lo + j
      <4>1. k \in lo..(lo + (j - 1)) /\ (k # lo => k - 1 \in lo..(lo + j) /\ k - 1 # lo + j)
        BY <1>0, <1>4, <3>2
      <4>. QED BY <2>2, <3>2, <4>1 DEF DoneInSteps
    <3>. QED BY <3>1, <3>2
  <2>4. f = [k \in lo..(lo + j) |-> f[k]]
    OBVIOUS
  <2>. HIDE DEF f
  <2>. QED BY <1>0, <2>3, <2>4 DEF DoneInSteps
<1>. QED BY <1>3, <1>4

\* What the journal has made of all observations.
AfterAll(n) == [i \in Ids |-> After(n, i)]

\* To replay a mutation is to make its row.
LEMMA ReplayedAfter ==
  ASSUME NEW n \in Nat \ {0}
  PROVE  Replayed(AfterAll(n - 1), journal[n]) = AfterAll(n)
<1>. DEFINE m == journal[n]
<1>1. Replayed(AfterAll(n - 1), m) = [AfterAll(n - 1) EXCEPT ![m.id] = Made(m)]
  BY DEF Replayed, Remove, Put, Made
<1>2. /\ DOMAIN AfterAll(n - 1) = Ids /\ \A i \in Ids : AfterAll(n - 1)[i] = After(n - 1, i)
      /\ AfterAll(n - 1) = [i \in Ids |-> AfterAll(n - 1)[i]]
  BY DEF AfterAll
<1>. HIDE DEF m
<1>3. Replayed(AfterAll(n - 1), m) =
        [i \in Ids |-> IF i = m.id THEN Made(m) ELSE After(n - 1, i)]
  BY <1>1, <1>2
<1>4. \A i : After(n, i) = IF i = m.id THEN Made(m) ELSE After(n - 1, i)
  BY AfterSteps DEF m
<1>. QED BY <1>3, <1>4 DEF AfterAll, m

\* The table of TopicsShared is what the journal has made.
LEMMA TopicsUnshared ==
  ASSUME journal \in Seq(Mutation), ~TopicsShared,
         NEW n \in 1..Len(journal), NEW i \in Ids, NEW j \in Ids, i # j
  PROVE  After(n, i).topic = After(n, j).topic => After(n, i).topic = None
<1>. DEFINE Unfold(f) ==
              [k \in 0..Len(journal) |->
                 IF k = 0 THEN EmptyMemory
                 ELSE IF journal[k].op = "delete" THEN Remove(f[k - 1], journal[k].id)
                 ELSE Put(f[k - 1], journal[k].id, Received(journal[k]))]
            steps == CHOOSE f : f = Unfold(f)
<1>1. Len(journal) \in Nat /\ DOMAIN journal = 1..Len(journal)
  BY LenProperties
<1>2. PICK f : /\ f = [k \in 0..Len(journal) |-> f[k]]
               /\ DoneInSteps("store", EmptyMemory, 0, Len(journal), f)
  <2>1. 0 \in Int /\ 0 + Len(journal) = Len(journal)
    BY <1>1
  <2>2. \E f : /\ f = [k \in 0..(0 + Len(journal)) |-> f[k]]
              /\ DoneInSteps("store", EmptyMemory, 0, 0 + Len(journal), f)
    BY <1>1, <2>1, StepsExist
  <2>. QED BY <2>1, <2>2
<1>3. f = Unfold(f)
  BY <1>2 DEF DoneInSteps, Do, Replayed
<1>6. steps = Unfold(steps)
  <2>. HIDE DEF Unfold
  <2>. QED BY <1>3
<1>4. \A k \in 0..Len(journal) :
        steps[k] = IF k = 0 THEN EmptyMemory ELSE Replayed(steps[k - 1], journal[k])
  <2>1. \A g : g = Unfold(g) =>
          \A k \in 0..Len(journal) :
            g[k] = IF k = 0 THEN EmptyMemory ELSE Replayed(g[k - 1], journal[k])
    BY DEF Replayed
  <2>. HIDE DEF steps
  <2>. QED BY <1>6, <2>1
<1>5. TopicsShared <=>
        \E k \in DOMAIN journal, a, b \in Ids :
          a # b /\ steps[k][a].topic = steps[k][b].topic /\ steps[k][a].topic # None
  BY DEF TopicsShared
<1>. HIDE DEF steps
<1>. DEFINE S == {k \in 0..Len(journal) : steps[k] # AfterAll(k)}
<1>7. S = {}
  <2>. SUFFICES ASSUME S # {} PROVE FALSE
    OBVIOUS
  <2>1. PICK k \in S : \A l \in S : k <= l
    <3>1. S \in SUBSET Nat
      BY <1>1
    <3>. HIDE DEF S
    <3>. QED BY <3>1, SmallestNumber
  <2>2. k \in 0..Len(journal) /\ steps[k] # AfterAll(k)
    OBVIOUS
  <2>3. CASE k = 0
    BY <1>4, <2>2, <2>3, AfterNothing DEF EmptyMemory, AfterAll
  <2>4. CASE k # 0
    <3>1. k \in Nat \ {0} /\ k - 1 \in 0..Len(journal)
      BY <1>1, <2>2, <2>4
    <3>2. k - 1 \notin S
      <4>. HIDE DEF S
      <4>. QED BY <2>1, <3>1
    <3>3. steps[k - 1] = AfterAll(k - 1)
      BY <3>1, <3>2
    <3>. QED BY <1>4, <2>2, <2>4, <3>1, <3>3, ReplayedAfter
  <2>. QED BY <2>3, <2>4
<1>8. n \in 0..Len(journal) /\ n \in DOMAIN journal
  BY <1>1
<1>9. steps[n][i] = After(n, i) /\ steps[n][j] = After(n, j)
  BY <1>7, <1>8 DEF AfterAll
<1>. QED BY <1>5, <1>8, <1>9

-----------------------------------------------------------------------------
(* A mutation applied *)

\* No two observations have one topic at a time.
Unshared ==
  \A n \in DOMAIN journal, i, j \in Ids :
    i # j /\ After(n, i).topic = After(n, j).topic => After(n, i).topic = None

\* An insert is the first entry of its observation.
InsertsFirst ==
  \A k, n \in DOMAIN journal : k < n /\ journal[k].id = journal[n].id => journal[n].op # "insert"

\* The table has of every observation what the journal made of it after its
\* first k entries, or after some more of them.
Abreast(store, k) ==
  /\ store = [i \in Ids |-> store[i]]
  /\ \A i \in Ids : \E n \in k..Len(journal) : store[i] = After(n, i)
  /\ \A i, j \in Ids : i # j /\ store[i].topic = store[j].topic => store[i].topic = None

\* A copy abreast of an entry is abreast of every earlier one.
LEMMA AbreastOfLess ==
  ASSUME journal \in Seq(Mutation), NEW store, NEW k \in Nat, Abreast(store, k),
         NEW l \in Nat, l <= k
  PROVE  Abreast(store, l)
<1>1. \A n \in k..Len(journal) : n \in l..Len(journal)
  BY LenProperties
<1>. QED BY <1>1 DEF Abreast

\* An observation that was inserted or updated to a topic has none or that one.
LEMMA TopicStays ==
  ASSUME journal \in Seq(Mutation), ~TopicsMoved, Unshared,
         NEW n \in DOMAIN journal, NEW j \in Ids, j # journal[n].id,
         journal[n].op # "delete", journal[n].topic # None,
         NEW l \in 0..Len(journal), After(l, j).topic = journal[n].topic,
         NEW k \in 0..Len(journal)
  PROVE  After(k, journal[n].id) = NoRow \/ After(k, journal[n].id).topic = journal[n].topic
<1>. DEFINE i == journal[n].id
            t == journal[n].topic
<1>1. Len(journal) \in Nat /\ DOMAIN journal = 1..Len(journal)
  BY LenProperties
<1>2. \A a \in DOMAIN journal : journal[a] \in Mutation
  BY <1>1, ElementOfSeq
<1>3. i \in Ids /\ t \in Topics
  BY <1>2 DEF Mutation
<1>4. PICK a \in 1..l : journal[a].id = j /\ journal[a].op # "delete" /\ journal[a].topic = t
  <2>1. After(l, j) # NoRow /\ l \in Nat
    BY <1>1 DEF NoRow
  <2>2. PICK a \in 1..l : /\ journal[a].id = j /\ journal[a].op # "delete"
                          /\ After(l, j) = Received(journal[a])
    BY <2>1, AfterIsEntry
  <2>. QED BY <2>2 DEF Received
<1>5. a \in DOMAIN journal
  BY <1>1
<1>6. CASE After(k, i) # NoRow
  <2>1. PICK b \in 1..k : /\ journal[b].id = i /\ journal[b].op # "delete"
                          /\ After(k, i) = Received(journal[b])
    BY <1>1, <1>6, AfterIsEntry
  <2>2. b \in DOMAIN journal
    BY <1>1
  <2>3. journal[b].topic \in TopicsOrNone
    BY <1>2, <2>2 DEF Mutation, TopicsOrNone
  <2>4. journal[b].topic = t
    BY <1>3, <1>4, <1>5, <2>1, <2>2, <2>3 DEF TopicsMoved
  <2>. QED BY <2>1, <2>4 DEF Received
<1>. QED BY <1>6

\* A mutation that a clash keeps out: the other observation has its topic at
\* a time when this one has gone.
LEMMA ClashedHasGone ==
  ASSUME journal \in Seq(Mutation), ~TopicsMoved, Unshared,
         NEW n \in DOMAIN journal, journal[n].op # "delete",
         NEW store, Abreast(store, n - 1), Clashes(store, journal[n].id, Received(journal[n]))
  PROVE  \E l \in n..Len(journal) : store[journal[n].id] = After(l, journal[n].id)
<1>. DEFINE i == journal[n].id
            t == journal[n].topic
<1>1. Len(journal) \in Nat /\ DOMAIN journal = 1..Len(journal) /\ n \in Nat \ {0}
  BY LenProperties
<1>2. i \in Ids
  <2>1. journal[n] \in Mutation
    BY <1>1, ElementOfSeq
  <2>. QED BY <2>1 DEF Mutation
<1>3. PICK j \in Ids \ {i} : t # None /\ store[j].topic = t
  BY DEF Clashes, Received
<1>4. PICK l \in (n - 1)..Len(journal) : store[j] = After(l, j)
  BY DEF Abreast
<1>5. PICK m \in (n - 1)..Len(journal) : store[i] = After(m, i)
  BY <1>2 DEF Abreast
<1>6. l \in 0..Len(journal) /\ m \in 0..Len(journal)
  BY <1>1
<1>7. \A k \in 0..Len(journal) : After(k, i) = NoRow \/ After(k, i).topic = t
  BY <1>3, <1>4, <1>6, TopicStays
<1>8. store[i] = NoRow
  BY <1>2, <1>3, <1>5, <1>6, <1>7 DEF Abreast
<1>9. After(n, i).topic = t
  <2>1. After(n, journal[n].id) = Made(journal[n])
    BY <1>1, AfterSteps
  <2>. QED BY <2>1 DEF Made, Received
<1>10. l # n - 1
  <2>. SUFFICES ASSUME l = n - 1 PROVE FALSE
    OBVIOUS
  <2>1. After(n, j) = store[j]
    BY <1>1, <1>4, AfterSteps
  <2>. QED BY <1>2, <1>3, <1>9, <2>1 DEF Unshared
<1>11. l \in n..Len(journal) /\ l \in DOMAIN journal
  BY <1>1, <1>10
<1>12. After(l, i) = NoRow
  BY <1>2, <1>3, <1>4, <1>6, <1>7, <1>11 DEF Unshared
<1>. QED BY <1>8, <1>11, <1>12

\* A row is written that the journal makes later, and its topic is free.
LEMMA RowWritten ==
  ASSUME NEW store, NEW k \in Nat, Abreast(store, k), NEW n \in k..Len(journal),
         NEW i \in Ids, NEW row, row = After(n, i),
         \A j \in Ids \ {i} : store[j].topic = row.topic => row.topic = None
  PROVE  /\ DOMAIN store = Ids
         /\ [store EXCEPT ![i] = row] = [j \in Ids |-> IF j = i THEN row ELSE store[j]]
         /\ Abreast([store EXCEPT ![i] = row], k)
<1>1. /\ store = [j \in Ids |-> store[j]]
      /\ \A j \in Ids : \E l \in k..Len(journal) : store[j] = After(l, j)
      /\ \A a, b \in Ids : a # b /\ store[a].topic = store[b].topic => store[a].topic = None
  BY DEF Abreast
<1>2. PICK new : new = [store EXCEPT ![i] = row]
  OBVIOUS
<1>3. /\ new = [j \in Ids |-> IF j = i THEN row ELSE store[j]] /\ DOMAIN store = Ids
      /\ new = [j \in Ids |-> new[j]] /\ new[i] = row
      /\ \A j \in Ids : j # i => new[j] = store[j]
  BY <1>1, <1>2
<1>4. \A j \in Ids : \E l \in k..Len(journal) : new[j] = After(l, j)
  BY <1>1, <1>3
<1>5. ASSUME NEW a \in Ids, NEW b \in Ids, a # b, new[a].topic = new[b].topic
      PROVE  new[a].topic = None
  BY <1>1, <1>3, <1>5
<1>6. Abreast(new, k)
  BY <1>3, <1>4, <1>5 DEF Abreast
<1>. QED BY <1>2, <1>3, <1>6

\* apply_mutation does nothing or writes what the journal makes; what keeps it
\* from writing is a row that is there, or another with the topic.
LEMMA AppliesOrNot ==
  ASSUME journal \in Seq(Mutation), NEW n \in DOMAIN journal, NEW store,
         NEW k \in Nat, Abreast(store, k), NEW m, m = journal[n]
  PROVE  \/ /\ apply_mutation(store, m) = [store EXCEPT ![m.id] = Made(m)]
            /\ \A j \in Ids \ {m.id} : store[j].topic = Made(m).topic => Made(m).topic = None
         \/ /\ apply_mutation(store, m) = store /\ m.op # "delete"
            /\ Clashes(store, m.id, Received(m)) \/ (m.op = "insert" /\ Stored(store, m.id))
<1>1. Len(journal) \in Nat /\ DOMAIN journal = 1..Len(journal)
  BY LenProperties
<1>2. m \in Mutation /\ m.id \in Ids /\ m.op \in {"insert", "update", "delete"}
  <2>1. m \in Mutation
    BY <1>1, ElementOfSeq
  <2>. QED BY <2>1 DEF Mutation
<1>3. CASE m.op = "delete"
  <2>1. apply_mutation(store, m) = [store EXCEPT ![m.id] = Made(m)] /\ Made(m).topic = None
    BY <1>3 DEF apply_mutation, Remove, Made, NoRow
  <2>. QED BY <2>1
<1>4. CASE /\ m.op # "delete" /\ ~Clashes(store, m.id, Received(m))
           /\ ~(m.op = "insert" /\ Stored(store, m.id))
  <2>1. apply_mutation(store, m) = [store EXCEPT ![m.id] = Received(m)] /\ Made(m) = Received(m)
    BY <1>2, <1>4 DEF apply_mutation, Put, Made, CanCreate, CanUpdate
  <2>2. ASSUME NEW j \in Ids \ {m.id}, store[j].topic = Received(m).topic
        PROVE  Received(m).topic = None
    <3>. SUFFICES ASSUME Received(m).topic # None PROVE FALSE
      OBVIOUS
    <3>1. Stored(store, j)
      BY <2>2 DEF Stored, NoRow
    <3>2. store[j].project = None
      <4>1. PICK l \in k..Len(journal) : store[j] = After(l, j)
        BY DEF Abreast
      <4>2. l \in Nat
        BY <1>1
      <4>. QED BY <3>1, <4>1, <4>2, AfterIsEntry DEF Stored, Received
    <3>. QED BY <1>4, <2>2, <3>1, <3>2 DEF Clashes, Received
  <2>. QED BY <2>1, <2>2
<1>5. CASE m.op # "delete" /\ Clashes(store, m.id, Received(m))
  <2>1. apply_mutation(store, m) = store
    BY <1>2, <1>5 DEF apply_mutation, CanCreate, CanUpdate
  <2>. QED BY <1>5, <2>1
<1>6. CASE m.op = "insert" /\ Stored(store, m.id)
  <2>1. apply_mutation(store, m) = store
    BY <1>6 DEF apply_mutation, CanCreate
  <2>. QED BY <1>6, <2>1
<1>. QED BY <1>3, <1>4, <1>5, <1>6

\* A mutation applied before its time, or again, leaves the table abreast.
LEMMA LaterApplied ==
  ASSUME journal \in Seq(Mutation), NEW n \in DOMAIN journal, NEW store,
         NEW k \in Nat, k < n, Abreast(store, k)
  PROVE  Abreast(apply_mutation(store, journal[n]), k)
<1>1. PICK m : m = journal[n]
  OBVIOUS
<1>2. n \in k..Len(journal) /\ n \in Nat \ {0} /\ m.id \in Ids
  <2>1. m \in Mutation /\ n \in 1..Len(journal) /\ Len(journal) \in Nat
    BY <1>1, ElementOfSeq, LenProperties
  <2>. QED BY <2>1 DEF Mutation
<1>3. Made(m) = After(n, m.id)
  BY <1>1, <1>2, AfterSteps
<1>4. ASSUME apply_mutation(store, m) = [store EXCEPT ![m.id] = Made(m)],
             \A j \in Ids \ {m.id} : store[j].topic = Made(m).topic => Made(m).topic = None
      PROVE  Abreast(apply_mutation(store, m), k)
  <2>1. PICK row : row = Made(m)
    OBVIOUS
  <2>2. Abreast([store EXCEPT ![m.id] = row], k)
    BY <1>2, <1>3, <1>4, <2>1, RowWritten
  <2>. QED BY <1>4, <2>1, <2>2
<1>. QED BY <1>1, <1>4, AppliesOrNot

\* The next mutation takes the table one entry on.
LEMMA MutationApplied ==
  ASSUME journal \in Seq(Mutation), ~TopicsMoved, Unshared, InsertsFirst,
         NEW n \in DOMAIN journal, NEW store, Abreast(store, n - 1)
  PROVE  Abreast(apply_mutation(store, journal[n]), n)
<1>1. PICK m : m = journal[n]
  OBVIOUS
<1>2. /\ Len(journal) \in Nat /\ n \in Nat \ {0} /\ n - 1 \in Nat /\ n - 1 < n
      /\ n \in n..Len(journal) /\ m.id \in Ids
      /\ \A l \in (n - 1)..Len(journal) : l = n - 1 \/ l \in n..Len(journal)
  <2>1. m \in Mutation /\ n \in 1..Len(journal) /\ Len(journal) \in Nat
    BY <1>1, ElementOfSeq, LenProperties
  <2>. QED BY <2>1 DEF Mutation
<1>3. Made(m) = After(n, m.id) /\ \A i : i # m.id => After(n, i) = After(n - 1, i)
  BY <1>1, <1>2, AfterSteps
\* The other rows are as they were, and it is enough that its own is up to date.
<1>4. ASSUME NEW new, Abreast(new, n - 1), \E l \in n..Len(journal) : new[m.id] = After(l, m.id)
      PROVE  Abreast(new, n)
  <2>1. ASSUME NEW i \in Ids
        PROVE  \E l \in n..Len(journal) : new[i] = After(l, i)
    <3>1. PICK l \in (n - 1)..Len(journal) : new[i] = After(l, i)
      BY <1>4 DEF Abreast
    <3>. QED BY <1>2, <1>3, <1>4, <3>1
  <2>. QED BY <1>4, <2>1 DEF Abreast
<1>5. PICK new : new = apply_mutation(store, m)
  OBVIOUS
<1>6. Abreast(new, n - 1)
  BY <1>1, <1>2, <1>5, LaterApplied
<1>7. ASSUME new = [store EXCEPT ![m.id] = Made(m)]
      PROVE  Abreast(new, n)
  <2>1. store = [i \in Ids |-> store[i]]
    BY DEF Abreast
  <2>2. new[m.id] = Made(m)
    BY <1>2, <1>7, <2>1
  <2>. QED BY <1>2, <1>3, <1>4, <1>6, <2>2
<1>8. ASSUME new = store, m.op # "delete", Clashes(store, m.id, Received(m))
      PROVE  Abreast(new, n)
  <2>1. \E l \in n..Len(journal) : store[m.id] = After(l, m.id)
    BY <1>1, <1>8, ClashedHasGone
  <2>. QED BY <1>4, <1>6, <1>8, <2>1
<1>9. ASSUME new = store, m.op = "insert", Stored(store, m.id)
      PROVE  Abreast(new, n)
  <2>1. PICK l \in (n - 1)..Len(journal) : store[m.id] = After(l, m.id)
    BY <1>2 DEF Abreast
  <2>2. l # n - 1
    <3>. SUFFICES ASSUME l = n - 1 PROVE FALSE
      OBVIOUS
    <3>1. After(n - 1, m.id) # NoRow
      BY <1>9, <2>1 DEF Stored
    <3>2. PICK a \in 1..(n - 1) : journal[a].id = m.id
      BY <1>2, <3>1, AfterIsEntry
    <3>3. a \in DOMAIN journal /\ a < n
      BY <1>2, LenProperties
    <3>. QED BY <1>1, <1>9, <3>2, <3>3 DEF InsertsFirst
  <2>. QED BY <1>2, <1>4, <1>6, <1>9, <2>1, <2>2
<1>. QED BY <1>1, <1>2, <1>5, <1>7, <1>8, <1>9, AppliesOrNot

\* The mutations of a chunk, one after the other, whether the table is abreast
\* of the entry before them or there is a gap.
LEMMA ChunkApplied ==
  ASSUME journal \in Seq(Mutation), ~TopicsMoved, Unshared, InsertsFirst,
         NEW lo \in Nat \ {0}, NEW hi \in Nat, lo <= hi, hi <= Len(journal),
         NEW store, NEW k \in Nat, Abreast(store, k), k <= lo - 1
  PROVE  /\ Abreast(AppliedUpTo(store, lo, hi), k)
         /\ k = lo - 1 => Abreast(AppliedUpTo(store, lo, hi), hi)
<1>. DEFINE Unfold(f) ==
              [n \in (lo - 1)..hi |->
                 IF n = lo - 1 THEN store ELSE apply_mutation(f[n - 1], journal[n])]
            after == CHOOSE f : f = Unfold(f)
<1>1. Len(journal) \in Nat /\ DOMAIN journal = 1..Len(journal) /\ lo - 1 \in Nat
  BY LenProperties
<1>2. PICK f : /\ f = [n \in (lo - 1)..hi |-> f[n]]
               /\ DoneInSteps("pull", store, lo - 1, hi, f)
  <2>1. hi - (lo - 1) \in Nat /\ (lo - 1) + (hi - (lo - 1)) = hi /\ lo - 1 \in Int
    BY <1>1
  <2>2. PICK d : d = hi - (lo - 1)
    OBVIOUS
  <2>3. PICK a : a = lo - 1
    OBVIOUS
  <2>4. \E f : f = [n \in a..(a + d) |-> f[n]] /\ DoneInSteps("pull", store, a, a + d, f)
    BY <2>1, <2>2, <2>3, StepsExist
  <2>. QED BY <2>1, <2>2, <2>3, <2>4
<1>3. f = Unfold(f)
  BY <1>2 DEF DoneInSteps, Do
<1>4. after = Unfold(after)
  <2>. HIDE DEF Unfold
  <2>. QED BY <1>3
<1>5. \A n \in (lo - 1)..hi :
        after[n] = IF n = lo - 1 THEN store ELSE apply_mutation(after[n - 1], journal[n])
  <2>1. \A g : g = Unfold(g) =>
          \A n \in (lo - 1)..hi :
            g[n] = IF n = lo - 1 THEN store ELSE apply_mutation(g[n - 1], journal[n])
    OBVIOUS
  <2>. HIDE DEF after, Unfold
  <2>. QED BY <1>4, <2>1
<1>6. AppliedUpTo(store, lo, hi) = after[hi]
  BY DEF AppliedUpTo
<1>. HIDE DEF after
<1>. DEFINE Bad(n) == ~(Abreast(after[n], k) /\ (k = lo - 1 => Abreast(after[n], n)))
            S == {n \in (lo - 1)..hi : Bad(n)}
<1>7. S = {}
  <2>. SUFFICES ASSUME S # {} PROVE FALSE
    OBVIOUS
  <2>1. PICK n \in S : \A l \in S : n <= l
    <3>1. S \in SUBSET Nat
      BY <1>1
    <3>. HIDE DEF S
    <3>. QED BY <3>1, SmallestNumber
  <2>2. n \in (lo - 1)..hi /\ Bad(n)
    OBVIOUS
  <2>3. CASE n = lo - 1
    BY <1>5, <2>2, <2>3
  <2>4. CASE n # lo - 1
    <3>1. n \in DOMAIN journal /\ n - 1 \in (lo - 1)..hi /\ n - 1 < n /\ k < n
      BY <1>1, <2>2, <2>4
    <3>2. n - 1 \notin S
      <4>. HIDE DEF S
      <4>. QED BY <2>1, <3>1
    <3>3. Abreast(after[n - 1], k) /\ (k = lo - 1 => Abreast(after[n - 1], n - 1))
      BY <3>1, <3>2
    <3>4. after[n] = apply_mutation(after[n - 1], journal[n])
      BY <1>5, <2>2, <2>4
    <3>5. Abreast(after[n], k)
      BY <3>1, <3>3, <3>4, LaterApplied
    <3>6. k = lo - 1 => Abreast(after[n], n)
      BY <3>1, <3>3, <3>4, MutationApplied
    <3>. QED BY <2>2, <3>5, <3>6
  <2>. QED BY <2>3, <2>4
<1>8. hi \in (lo - 1)..hi
  BY <1>1
<1>. QED BY <1>6, <1>7, <1>8

-----------------------------------------------------------------------------
(* Inserts come first: an observation is inserted under an id uuid4 has not *)
(* given out before, and one process records that before it does more.     *)

\* An id that is fresh has no row, no entry and no mutation to be recorded.
FreshInv(p) ==
  /\ \A i \in Ids : Stored(rows, i) => i \notin fresh
  /\ \A n \in DOMAIN journal : journal[n].id \notin fresh
  /\ InsertsFirst
  /\ mop[p].at = "record" =>
       /\ mop[p].mutation.id \notin fresh
       /\ mop[p].mutation.op = "insert" =>
            \A n \in DOMAIN journal : journal[n].id # mop[p].mutation.id

\* A recorded insert is the first mutation of its row.
LEMMA RecordIsFresh ==
  ASSUME MemoryInv, NEW p \in Writers, FreshInv(p), Record(p)
  PROVE  FreshInv(p)'
<1>1. PICK m : m = mop[p].mutation
  OBVIOUS
<1>2. /\ mop[p].at = "record" /\ journal' = Append(journal, m) /\ Ended(p)
      /\ rows' = rows /\ fresh' = fresh
  BY <1>1 DEF Record
<1>3. m \in Mutation /\ journal \in Seq(Mutation)
  BY <1>1, <1>2 DEF MemoryInv, MemoryTypeOK, MemoryOpOK
<1>4. /\ Len(journal) \in Nat /\ DOMAIN journal = 1..Len(journal)
      /\ DOMAIN journal' = 1..(Len(journal) + 1) /\ journal'[Len(journal) + 1] = m
      /\ \A n \in 1..Len(journal) : journal'[n] = journal[n]
  BY <1>2, <1>3, LenProperties
<1>5. mop'[p].at # "record"
  BY <1>2, JournalEnded
<1>6. \A n \in DOMAIN journal' :
        (n \in DOMAIN journal /\ journal'[n] = journal[n]) \/ journal'[n] = m
  <2>. SUFFICES ASSUME NEW n \in DOMAIN journal', journal'[n] # m
                PROVE  n \in DOMAIN journal /\ journal'[n] = journal[n]
    OBVIOUS
  <2>1. n \in 1..(Len(journal) + 1) /\ n # Len(journal) + 1
    BY <1>4
  <2>2. n \in 1..Len(journal)
    BY <1>4, <2>1
  <2>. QED BY <1>4, <2>2
<1>7. \A n \in DOMAIN journal' : journal'[n].id \notin fresh'
  BY <1>1, <1>2, <1>6 DEF FreshInv
<1>8. InsertsFirst'
  <2>. SUFFICES ASSUME NEW k \in DOMAIN journal', NEW n \in DOMAIN journal', k < n,
                       journal'[k].id = journal'[n].id
                PROVE  journal'[n].op # "insert"
    BY DEF InsertsFirst
  <2>1. k \in DOMAIN journal /\ journal'[k] = journal[k]
    BY <1>4
  <2>2. CASE n \in DOMAIN journal /\ journal'[n] = journal[n]
    BY <2>1, <2>2 DEF FreshInv, InsertsFirst
  <2>3. CASE journal'[n] = m
    BY <1>1, <1>2, <2>1, <2>3 DEF FreshInv
  <2>. QED BY <1>6, <2>2, <2>3
<1>. QED BY <1>2, <1>5, <1>7, <1>8 DEF FreshInv

\* A new row takes an id that no mutation has.
LEMMA WriteIsFresh ==
  ASSUME MemoryInv, NEW p \in Writers, FreshInv(p), Writes(p)
  PROVE  FreshInv(p)'
<1>1. PICK i \in Ids, obs \in Observation \cup {NoRow}, m \in Mutation :
        /\ Written(p, Put(rows, i, obs), m) /\ m.id = i /\ fresh' \subseteq Ids
        /\ IF m.op = "insert" THEN i \in fresh /\ fresh' = fresh \ {i}
           ELSE Stored(rows, i) /\ fresh' = fresh
  BY DEF Writes
<1>2. /\ rows' = Put(rows, i, obs) /\ Put(rows, i, obs) \in MemoryTable
      /\ \A j \in Ids : j # i => rows'[j] = rows[j]
      /\ journal' = journal
  BY <1>1, PutTypes DEF Written, MemoryInv, MemoryTypeOK
<1>3. mop'[p].at = "record" /\ mop'[p].mutation = m
  BY <1>1, <1>2, WrittenKeeps
<1>4. i \notin fresh' /\ fresh' \subseteq fresh
  BY <1>1 DEF FreshInv
<1>5. \A j \in Ids : Stored(rows', j) => j \notin fresh'
  BY <1>2, <1>4 DEF FreshInv, Stored
<1>6. m.op = "insert" => \A n \in DOMAIN journal : journal[n].id # m.id
  BY <1>1 DEF FreshInv
<1>7. InsertsFirst'
  BY <1>2 DEF FreshInv, InsertsFirst
<1>. QED BY <1>1, <1>2, <1>3, <1>4, <1>5, <1>6, <1>7 DEF FreshInv

\* Everything else takes no id and no row into use.
LEMMA FreshStays ==
  ASSUME NEW p, FreshInv(p), UNCHANGED <<fresh, journal>>,
         \A i \in Ids : Stored(rows', i) => Stored(rows, i),
         mop'[p] = mop[p] \/ mop'[p].at # "record"
  PROVE  FreshInv(p)'
BY DEF FreshInv, InsertsFirst

\* Inserts come first, whatever the writer does.
LEMMA FreshInvKept ==
  ASSUME NEW p \in Writers, Writers = {p}, MemoryInv, FreshInv(p), [SyncNext]_syncVars
  PROVE  FreshInv(p)'
<1>0. ASSUME UNCHANGED <<rows, fresh, journal>>, \E o : o.at # "record" /\ MemoryOpOK(o) /\ MemoryAt(p, o)
      PROVE  FreshInv(p)'
  <2>1. mop'[p].at # "record"
    BY <1>0, OperationsStay
  <2>. QED BY <1>0, <2>1, FreshStays
<1>1. CASE Step(p)
  <2>1. CASE RecordLost(p)
    <3>1. UNCHANGED <<rows, fresh, journal>> /\ mop'[p].at # "record"
      BY <2>1, JournalEnded DEF RecordLost
    <3>. QED BY <3>1, FreshStays
  <2>. QED BY <1>0, <1>1, <2>1, StepShape, WriteIsFresh, RecordIsFresh
<1>2. CASE Command(p)
  <2>1. CASE Starts(p)
    BY <1>0, <2>1 DEF Starts
  <2>2. ASSUME NEW from \in Projects, NEW to \in Projects, merge_projects(p, from, to)
        PROVE  FreshInv(p)'
    <3>1. UNCHANGED <<fresh, journal, mop>>
      BY <2>2 DEF merge_projects
    <3>2. \A i \in Ids : Stored(rows', i) <=> Stored(rows, i)
      BY <2>2, MergeFacts
    <3>. QED BY <3>1, <3>2, FreshStays
  <2>3. CASE cleanup_old_observations(p)
    <3>1. UNCHANGED <<fresh, journal, mop>>
      BY <2>3 DEF cleanup_old_observations
    <3>2. \A i \in Ids : Stored(rows', i) => Stored(rows, i)
      BY <2>3 DEF cleanup_old_observations, Stored
    <3>. QED BY <3>1, <3>2, FreshStays
  <2>. QED BY <1>2, <2>1, <2>2, <2>3, CommandShape
<1>3. CASE UNCHANGED memoryVars
  BY <1>3, FreshStays DEF memoryVars
<1>4. Command(p) \/ Step(p) \/ UNCHANGED memoryVars
  BY OnlyWritersWrite
<1>. QED BY <1>1, <1>2, <1>3, <1>4

\* Every id is fresh at first.
LEMMA FreshInit ==
  ASSUME NEW p \in Writers, MemoryInit
  PROVE  FreshInv(p)
<1>1. mop[p].at = "idle"
  BY DEF MemoryInit, MemoryIdle
<1>2. DOMAIN journal = {} /\ \A i \in Ids : ~Stored(rows, i)
  <2>1. DOMAIN journal = {}
    BY EmptySeq DEF MemoryInit
  <2>. QED BY <2>1 DEF MemoryInit, EmptyMemory, Stored
<1>. QED BY <1>1, <1>2 DEF FreshInv, InsertsFirst

\* The journal only grows, by one entry at a time.
LEMMA JournalGrows ==
  ASSUME MemoryInv, [SyncNext]_syncVars
  PROVE  \E m : journal' = journal \/ journal' = Append(journal, m)
<1>1. ASSUME NEW p \in Writers, Step(p)
      PROVE  \E m : journal' = journal \/ journal' = Append(journal, m)
  BY <1>1, StepShape DEF Writes, Written, Record, RecordLost
<1>2. ASSUME NEW p \in Writers, Command(p)
      PROVE  journal' = journal
  BY <1>2, CommandShape DEF Starts, merge_projects, cleanup_old_observations
<1>3. UNCHANGED memoryVars => journal' = journal
  BY DEF memoryVars
<1>. QED BY <1>1, <1>2, <1>3, OnlyWritersWrite

-----------------------------------------------------------------------------
(* How the chunks lie: those of one export go together, and the last of them *)
(* reaches as far as any chunk before it, since an export takes the journal  *)
(* up to its end.                                                            *)

\* The pieces an interval is cut into follow each other.
LEMMA CutLinks ==
  ASSUME NEW lo \in Nat, NEW hi \in Nat, lo <= hi
  PROVE  LET new == Cut(lo, hi)
         IN /\ \A n \in DOMAIN new : lo <= new[n].lo /\ new[n].lo <= new[n].hi /\ new[n].hi <= hi
            /\ \A n \in DOMAIN new : n = 1 \/ (n - 1 \in DOMAIN new /\ new[n].lo = new[n - 1].hi + 1)
            /\ \A n \in DOMAIN new : n + 1 \in DOMAIN new \/ (n = Len(new) /\ new[n].hi = hi)
            /\ \A n \in DOMAIN new : n = 1 => new[n].lo = lo
<1>0. ChunkSize \in Nat \ {0}
  BY SyncAssumption
<1>. DEFINE q == (hi - lo + ChunkSize) \div ChunkSize
            first(n) == lo + (n - 1) * ChunkSize
            last(n) == first(n) + ChunkSize - 1
            end(n) == IF last(n) < hi THEN last(n) ELSE hi
            piece(n) == [lo |-> first(n), hi |-> end(n), at |-> "file", failed |-> FALSE]
<1>1. hi - lo + ChunkSize \in Nat
  BY <1>0
<1>2. q \in Nat /\ q * ChunkSize <= hi - lo + ChunkSize /\ hi - lo + ChunkSize < q * ChunkSize + ChunkSize
  BY <1>0, <1>1, Division
<1>3. PICK new : new = Cut(lo, hi)
  OBVIOUS
<1>4. new = [n \in 1..q |-> piece(n)]
  BY <1>3 DEF Cut
<1>5. /\ DOMAIN new = 1..q
      /\ \A n \in 1..q : new[n].lo = first(n) /\ new[n].hi = end(n)
  <2>. HIDE DEF q, first, end
  <2>. QED BY <1>4
<1>6. Len(new) = q
  <2>. HIDE DEF q, piece
  <2>. QED BY <1>2, <1>4, IsASeq, LenProperties
<1>. HIDE DEF q
\* How far the pieces reach.
<1>7. ASSUME NEW n \in 1..q
      PROVE  /\ (n - 1) * ChunkSize \in Nat /\ (n - 1) * ChunkSize <= hi - lo
             /\ n < q => (n - 1) * ChunkSize + ChunkSize <= hi - lo
             /\ n = q => hi - lo < (n - 1) * ChunkSize + ChunkSize
  <2>1. PICK C \in Nat \ {0} : C = ChunkSize
    BY <1>0
  <2>2. n - 1 \in Nat /\ q - n \in Nat /\ q - 1 \in Nat /\ n \in Nat
    BY <1>2
  <2>3. (n - 1) * C \in Nat /\ (q - n) * C \in Nat
    BY <2>1, <2>2
  <2>4. (n - 1) * C + C + (q - n) * C = q * C
    BY <1>2, <2>1, <2>2
  <2>5. n < q => C <= (q - n) * C
    BY <1>2, <2>1, <2>2
  <2>6. n = q => (q - n) * C = 0
    BY <1>2, <2>1, <2>2
  <2>. QED BY <1>2, <2>1, <2>3, <2>4, <2>5, <2>6
<1>8. \A n \in 1..q : /\ first(n) \in Nat /\ end(n) \in Nat
                      /\ lo <= first(n) /\ first(n) <= end(n) /\ end(n) <= hi
  BY <1>0, <1>7
<1>9. \A n \in 1..q : n < q => end(n) = first(n) + ChunkSize - 1
  <2>. SUFFICES ASSUME NEW n \in 1..q, n < q
                PROVE  end(n) = first(n) + ChunkSize - 1
    OBVIOUS
  <2>1. (n - 1) * ChunkSize \in Nat /\ (n - 1) * ChunkSize + ChunkSize <= hi - lo
    BY <1>7
  <2>. QED BY <1>0, <2>1
<1>10. \A n \in 1..q : n = q => end(n) = hi
  <2>. SUFFICES ASSUME NEW n \in 1..q, n = q
                PROVE  end(n) = hi
    OBVIOUS
  <2>1. (n - 1) * ChunkSize \in Nat /\ hi - lo < (n - 1) * ChunkSize + ChunkSize
    BY <1>7
  <2>. QED BY <1>0, <2>1
<1>11. \A n \in 1..q : n # 1 => first(n) = first(n - 1) + ChunkSize
  <2>. SUFFICES ASSUME NEW n \in 1..q, n # 1
                PROVE  first(n) = first(n - 1) + ChunkSize
    OBVIOUS
  <2>1. PICK C \in Nat \ {0} : C = ChunkSize
    BY <1>0
  <2>2. n - 1 \in Nat /\ n - 1 - 1 \in Nat
    BY <1>2
  <2>3. (n - 1) * C = (n - 1 - 1) * C + C
    BY <2>1, <2>2
  <2>4. (n - 1) * C \in Nat /\ (n - 1 - 1) * C \in Nat
    BY <2>1, <2>2
  <2>. QED BY <2>1, <2>3, <2>4
<1>12. first(1) = lo
  BY <1>0
<1>. HIDE DEF first, last, end
<1>13. ASSUME NEW n \in 1..q
       PROVE  n = 1 \/ (n - 1 \in 1..q /\ first(n) = end(n - 1) + 1)
  <2>. SUFFICES ASSUME n # 1 PROVE n - 1 \in 1..q /\ first(n) = end(n - 1) + 1
    OBVIOUS
  <2>1. n - 1 \in 1..q /\ n - 1 < q
    BY <1>2
  <2>2. first(n - 1) \in Nat /\ first(n) = first(n - 1) + ChunkSize /\ end(n - 1) = first(n - 1) + ChunkSize - 1
    BY <1>8, <1>9, <1>11, <2>1
  <2>. QED BY <1>0, <2>1, <2>2
<1>14. \A n \in 1..q : n + 1 \in 1..q \/ n = q
  BY <1>2
<1>15. /\ \A n \in DOMAIN new : lo <= new[n].lo /\ new[n].lo <= new[n].hi /\ new[n].hi <= hi
       /\ \A n \in DOMAIN new : n = 1 \/ (n - 1 \in DOMAIN new /\ new[n].lo = new[n - 1].hi + 1)
       /\ \A n \in DOMAIN new : n + 1 \in DOMAIN new \/ (n = Len(new) /\ new[n].hi = hi)
       /\ \A n \in DOMAIN new : n = 1 => new[n].lo = lo
  BY <1>5, <1>6, <1>8, <1>10, <1>12, <1>13, <1>14
<1>. QED BY <1>3, <1>15

\* No chunk before this one reaches further.
Top(n) == \A g \in DOMAIN chunks : g < n => chunks[g].hi <= chunks[n].hi

\* The next chunk goes where this one goes, and begins where it ends.
Continues(n) ==
  /\ n + 1 \in DOMAIN chunks
  /\ chunks[n + 1].at = chunks[n].at
  /\ chunks[n + 1].lo = chunks[n].hi + 1

\* Chunks cover entries of the journal, and an export keeps its chunks together:
\* behind a chunk that an earlier one reaches beyond comes the rest of its export.
Together ==
  /\ \A n \in DOMAIN chunks :
       /\ 1 <= chunks[n].lo /\ chunks[n].lo <= chunks[n].hi /\ chunks[n].hi <= Len(journal)
       /\ Top(n) \/ Continues(n)
  /\ \A p \in Pushers, n \in DOMAIN chunks :
       Top(n) \/ (n \in push[p].mine <=> n + 1 \in push[p].mine)

\* The fields of a chunk are numbers.
LEMMA ChunkFields ==
  ASSUME PushInv
  PROVE  /\ DOMAIN chunks = 1..Len(chunks) /\ Len(chunks) \in Nat
         /\ \A n \in DOMAIN chunks : /\ chunks[n] \in Chunk /\ n \in Nat
                                     /\ chunks[n].lo \in Nat /\ chunks[n].hi \in Nat
<1>1. DOMAIN chunks = 1..Len(chunks) /\ Len(chunks) \in Nat
  BY LenProperties DEF PushInv
<1>2. \A n \in DOMAIN chunks : chunks[n] \in Chunk /\ n \in Nat
  BY <1>1, ElementOfSeq DEF PushInv
<1>. QED BY <1>1, <1>2 DEF Chunk

\* A step that writes no chunks, and moves those of one export together.
LEMMA StayTogether ==
  ASSUME MemoryInv, PushInv, Together, MemoryInv', Len(journal) <= Len(journal'),
         DOMAIN chunks' = DOMAIN chunks,
         \A n \in DOMAIN chunks : chunks'[n].lo = chunks[n].lo /\ chunks'[n].hi = chunks[n].hi,
         \A n \in DOMAIN chunks : Top(n) \/ chunks'[n + 1].at = chunks'[n].at,
         \A p \in Pushers : push'[p].mine = push[p].mine \/ push'[p].mine = {}
  PROVE  Together'
<1>1. Len(journal) \in Nat /\ Len(journal') \in Nat
  BY LenProperties DEF MemoryInv, MemoryTypeOK
<1>2. \A n \in DOMAIN chunks : chunks[n].lo \in Nat /\ chunks[n].hi \in Nat
  BY ChunkFields
<1>3. \A n \in DOMAIN chunks : Top(n) => Top(n)'
  BY DEF Top
<1>4. \A n \in DOMAIN chunks :
        1 <= chunks'[n].lo /\ chunks'[n].lo <= chunks'[n].hi /\ chunks'[n].hi <= Len(journal')
  BY <1>1, <1>2 DEF Together
<1>5. \A n \in DOMAIN chunks : ~Top(n) => Continues(n)'
  <2>. SUFFICES ASSUME NEW n \in DOMAIN chunks, ~Top(n)
                PROVE  Continues(n)'
    OBVIOUS
  <2>1. n + 1 \in DOMAIN chunks /\ chunks[n + 1].lo = chunks[n].hi + 1
    BY DEF Together, Continues
  <2>. QED BY <2>1 DEF Continues
<1>6. \A p \in Pushers, n \in DOMAIN chunks :
        ~Top(n) => (n \in push'[p].mine <=> n + 1 \in push'[p].mine)
  BY DEF Together
<1>. QED BY <1>3, <1>4, <1>5, <1>6 DEF Together

\* The pieces of an export are appended, up to the end of the journal.
LEMMA ExportedChunks ==
  ASSUME MemoryInv, PushInv, NEW p \in Pushers, export_incremental(p)
  PROVE  \E new : \E lo \in Nat :
           /\ chunks' = chunks \o new /\ new \in Seq(Chunk)
           /\ \A n \in DOMAIN new : new[n].at = "file"
           /\ new = Cut(lo, Len(journal)) /\ 1 <= lo /\ lo <= Len(journal)
           /\ PushStep(p, [at |-> "add", max |-> Len(journal),
                           mine |-> (Len(chunks) + 1)..(Len(chunks) + Len(new))])
<1>1. Len(journal) \in Nat /\ watermark \in Nat /\ watermark < Len(journal)
  BY LenProperties DEF MemoryInv, MemoryTypeOK, PushInv, export_incremental
<1>2. PICK lo \in Nat : lo = watermark + 1
  BY <1>1
<1>3. PICK new : new = Cut(lo, Len(journal))
  OBVIOUS
<1>4. 1 <= lo /\ lo <= Len(journal)
  BY <1>1, <1>2
<1>5. new \in Seq(Chunk) /\ \A n \in DOMAIN new : new[n].at = "file"
  BY <1>1, <1>3, <1>4, CutCovers
<1>6. /\ chunks' = chunks \o new
      /\ PushStep(p, [at |-> "add", max |-> Len(journal),
                      mine |-> (Len(chunks) + 1)..(Len(chunks) + Len(new))])
  BY <1>2, <1>3 DEF export_incremental
<1>. QED BY <1>3, <1>4, <1>5, <1>6

\* An export writes chunks that go together.
LEMMA ExportedTogether ==
  ASSUME MemoryInv, PushInv, Together, NEW p \in Pushers, export_incremental(p)
  PROVE  Together'
<1>0. PICK new : \E lo \in Nat :
           /\ chunks' = chunks \o new /\ new \in Seq(Chunk)
           /\ \A n \in DOMAIN new : new[n].at = "file"
           /\ new = Cut(lo, Len(journal)) /\ 1 <= lo /\ lo <= Len(journal)
           /\ PushStep(p, [at |-> "add", max |-> Len(journal),
                           mine |-> (Len(chunks) + 1)..(Len(chunks) + Len(new))])
  BY ExportedChunks
<1>1. PICK lo \in Nat :
           /\ chunks' = chunks \o new /\ new \in Seq(Chunk)
           /\ \A n \in DOMAIN new : new[n].at = "file"
           /\ new = Cut(lo, Len(journal)) /\ 1 <= lo /\ lo <= Len(journal)
           /\ PushStep(p, [at |-> "add", max |-> Len(journal),
                           mine |-> (Len(chunks) + 1)..(Len(chunks) + Len(new))])
  BY <1>0
<1>2. PICK b, c, max : b = Len(chunks) /\ c = Len(new) /\ max = Len(journal)
  OBVIOUS
<1>3. PICK mine : mine = (b + 1)..(b + c)
  OBVIOUS
<1>4. /\ b \in Nat /\ DOMAIN chunks = 1..b
      /\ \A n \in DOMAIN chunks : /\ chunks[n] \in Chunk /\ n \in Nat
                                  /\ chunks[n].lo \in Nat /\ chunks[n].hi \in Nat
      /\ c \in Nat /\ DOMAIN new = 1..c /\ max \in Nat
  <2>1. c \in Nat /\ DOMAIN new = 1..c
    BY <1>1, <1>2, LenProperties
  <2>2. max \in Nat
    BY <1>2, LenProperties DEF MemoryInv, MemoryTypeOK
  <2>. QED BY <1>2, <2>1, <2>2, ChunkFields
<1>5. /\ \A n \in 1..c : lo <= new[n].lo /\ new[n].lo <= new[n].hi /\ new[n].hi <= max
      /\ \A n \in 1..c : n = 1 \/ (n - 1 \in 1..c /\ new[n].lo = new[n - 1].hi + 1)
      /\ \A n \in 1..c : n + 1 \in 1..c \/ (n = c /\ new[n].hi = max)
      /\ \A n \in 1..c : new[n].at = "file" /\ new[n].lo \in Nat /\ new[n].hi \in Nat
  <2>1. \A n \in 1..c : new[n] \in Chunk
    BY <1>1, <1>2, ElementOfSeq
  <2>2. \A n \in 1..c : new[n].at = "file" /\ new[n].lo \in Nat /\ new[n].hi \in Nat
    BY <1>1, <1>4, <2>1 DEF Chunk
  <2>3. new = Cut(lo, max) /\ Len(new) = c /\ lo <= max
    BY <1>1, <1>2
  <2>4. /\ \A n \in DOMAIN new : lo <= new[n].lo /\ new[n].lo <= new[n].hi /\ new[n].hi <= max
        /\ \A n \in DOMAIN new : n = 1 \/ (n - 1 \in DOMAIN new /\ new[n].lo = new[n - 1].hi + 1)
        /\ \A n \in DOMAIN new : n + 1 \in DOMAIN new \/ (n = Len(new) /\ new[n].hi = max)
        /\ \A n \in DOMAIN new : n = 1 => new[n].lo = lo
    BY <1>4, <2>3, CutLinks
  <2>5. DOMAIN new = 1..c
    BY <1>4
  <2>. QED BY <2>2, <2>3, <2>4, <2>5
<1>6. /\ DOMAIN chunks' = 1..(b + c)
      /\ \A n \in 1..b : chunks'[n] = chunks[n]
      /\ \A n \in mine : chunks'[n] = new[n - b]
  <2>1. /\ chunks' \in Seq(Chunk) /\ Len(chunks') = b + c
        /\ \A n \in 1..(b + c) : chunks'[n] = IF n <= b THEN chunks[n] ELSE new[n - b]
    BY <1>1, <1>2, ConcatProperties DEF PushInv
  <2>2. DOMAIN chunks' = 1..(b + c)
    BY <2>1, LenProperties
  <2>3. \A n \in mine : n \in 1..(b + c) /\ ~(n <= b)
    BY <1>3, <1>4
  <2>4. \A n \in 1..b : n \in 1..(b + c) /\ n <= b
    BY <1>4
  <2>. QED BY <2>1, <2>2, <2>3, <2>4
<1>7. /\ \A n \in mine : n - b \in 1..c /\ n \in DOMAIN chunks' /\ n \notin DOMAIN chunks
      /\ \A n \in DOMAIN chunks' : n \in DOMAIN chunks \/ n \in mine
      /\ \A n \in DOMAIN chunks : n \in DOMAIN chunks' /\ chunks'[n] = chunks[n] /\ n \notin mine
  BY <1>3, <1>4, <1>6
<1>8. push'[p].mine = mine /\ \A q \in Pushers \ {p} : push'[q] = push[q]
  BY <1>1, <1>2, <1>3 DEF PushStep, PushInv
<1>9. UNCHANGED journal
  BY <1>1 DEF PushStep, memoryVars
\* The new chunks.
<1>10. ASSUME NEW n \in mine
       PROVE  /\ 1 <= chunks'[n].lo /\ chunks'[n].lo <= chunks'[n].hi /\ chunks'[n].hi <= Len(journal')
              /\ Top(n)' \/ (Continues(n)' /\ n + 1 \in mine)
  <2>1. /\ n - b \in 1..c /\ chunks'[n] = new[n - b]
        /\ 1 <= new[n - b].lo /\ new[n - b].lo <= new[n - b].hi /\ new[n - b].hi <= max
    <3>1. n - b \in 1..c /\ chunks'[n] = new[n - b]
      BY <1>6, <1>7
    <3>2. PICK k \in 1..c : k = n - b
      BY <3>1
    <3>3. lo <= new[k].lo /\ new[k].lo <= new[k].hi /\ new[k].hi <= max /\ new[k].lo \in Nat
      BY <1>5
    <3>4. 1 <= new[k].lo
      BY <1>1, <3>3
    <3>. QED BY <3>1, <3>2, <3>3, <3>4
  <2>2. CASE n = b + c
    <3>1. chunks'[n].hi = max
      BY <1>4, <1>5, <2>1, <2>2
    <3>2. ASSUME NEW g \in DOMAIN chunks'
          PROVE  chunks'[g].hi <= max
      <4>1. CASE g \in mine
        BY <1>5, <1>6, <1>7, <4>1
      <4>2. CASE g \in DOMAIN chunks
        BY <1>2, <1>7, <4>2 DEF Together
      <4>. QED BY <1>7, <4>1, <4>2
    <3>3. Top(n)'
      BY <3>1, <3>2 DEF Top
    <3>. QED BY <1>2, <1>9, <2>1, <3>3
  <2>3. CASE n # b + c
    <3>1. n + 1 \in mine /\ (n + 1) - b = (n - b) + 1 /\ (n - b) + 1 \in 1..c /\ n - b = ((n - b) + 1) - 1
      BY <1>3, <1>4, <2>3
    <3>2. new[(n - b) + 1].lo = new[n - b].hi + 1 /\ new[(n - b) + 1].at = new[n - b].at
      <4>1. (n - b) + 1 # 1
        BY <1>4, <2>1
      <4>. QED BY <1>5, <2>1, <3>1, <4>1
    <3>3. chunks'[n + 1] = new[(n - b) + 1]
      BY <1>6, <3>1
    <3>4. Continues(n)'
      BY <1>7, <2>1, <3>1, <3>2, <3>3 DEF Continues
    <3>. QED BY <1>2, <1>9, <2>1, <3>1, <3>4
  <2>. QED BY <2>2, <2>3
\* The others.
<1>11. ASSUME NEW n \in DOMAIN chunks
       PROVE  /\ 1 <= chunks'[n].lo /\ chunks'[n].lo <= chunks'[n].hi /\ chunks'[n].hi <= Len(journal')
              /\ Top(n) => Top(n)'
              /\ Continues(n) => Continues(n)'
  <2>1. \A g \in DOMAIN chunks' : g < n => g \in DOMAIN chunks
    BY <1>3, <1>4, <1>7
  <2>2. Top(n) => Top(n)'
    BY <1>7, <2>1 DEF Top
  <2>3. Continues(n) => Continues(n)'
    BY <1>7 DEF Continues
  <2>. QED BY <1>7, <1>9, <2>2, <2>3 DEF Together
<1>12. ASSUME NEW q \in Pushers, NEW n \in DOMAIN chunks', ~Top(n)'
       PROVE  n \in push'[q].mine <=> n + 1 \in push'[q].mine
  <2>1. CASE n \in mine
    <3>1. n + 1 \in mine
      BY <1>10, <1>12, <2>1
    <3>2. q # p => n \notin push'[q].mine /\ n + 1 \notin push'[q].mine
      BY <1>7, <1>8, <2>1, <3>1 DEF PushInv
    <3>. QED BY <1>8, <2>1, <3>1, <3>2
  <2>2. CASE n \in DOMAIN chunks
    <3>1. ~Top(n) /\ n + 1 \in DOMAIN chunks
      BY <1>11, <1>12, <2>2 DEF Together, Continues
    <3>2. n \notin mine /\ n + 1 \notin mine
      BY <1>7, <2>2, <3>1
    <3>3. q # p => (n \in push'[q].mine <=> n + 1 \in push'[q].mine)
      BY <1>8, <2>2, <3>1 DEF Together
    <3>. QED BY <1>8, <3>2, <3>3
  <2>. QED BY <1>7, <2>1, <2>2
<1>13. ASSUME NEW n \in DOMAIN chunks'
       PROVE  /\ 1 <= chunks'[n].lo /\ chunks'[n].lo <= chunks'[n].hi /\ chunks'[n].hi <= Len(journal')
              /\ Top(n)' \/ Continues(n)'
  <2>1. CASE n \in DOMAIN chunks
    BY <1>11, <2>1 DEF Together
  <2>. QED BY <1>7, <1>10, <2>1
<1>. QED BY <1>12, <1>13 DEF Together

\* A step of a push that writes no chunks.
LEMMA PushesTogether ==
  ASSUME MemoryInv, PushInv, Together, MemoryInv', NEW p \in Pushers, NEW op, PushStep(p, op),
         op.mine = push[p].mine \/ op.mine = {},
         DOMAIN chunks' = DOMAIN chunks,
         \A n \in DOMAIN chunks : GoesForward(chunks[n], chunks'[n]),
         \A n \in DOMAIN chunks : Top(n) \/ chunks'[n + 1].at = chunks'[n].at
  PROVE  Together' /\ ChunksGoForward
<1>1. \A q \in Pushers : push'[q].mine = push[q].mine \/ push'[q].mine = {}
  BY DEF PushStep, PushInv
<1>2. Len(journal) \in Nat /\ journal' = journal
  BY LenProperties DEF PushStep, memoryVars, MemoryInv, MemoryTypeOK
<1>3. Len(journal) <= Len(journal')
  BY <1>2
<1>4. \A n \in DOMAIN chunks : chunks'[n].lo = chunks[n].lo /\ chunks'[n].hi = chunks[n].hi
  BY DEF GoesForward
<1>. QED BY <1>1, <1>3, <1>4, StayTogether DEF ChunksGoForward

\* Every step of a push moves the chunks of its export together.
LEMMA PushTogether ==
  ASSUME MemoryInv, PushInv, Together, MemoryInv', NEW p \in Pushers, Push(p)
  PROVE  Together' /\ ChunksGoForward
<1>1. push[p] \in PushOperation
  BY DEF PushInv
\* The chunks of one export are at one place.
<1>2. \A n \in DOMAIN chunks :
        \/ Top(n)
        \/ n + 1 \in DOMAIN chunks /\ chunks[n + 1].at = chunks[n].at
  BY DEF Together, Continues
<1>3. CASE export_incremental(p)
  <2>1. ChunksGoForward
    <3>1. PICK new : chunks' = chunks \o new /\ new \in Seq(Chunk)
      BY <1>3, ExportedChunks
    <3>2. PICK b, c : b = Len(chunks) /\ c = Len(new)
      OBVIOUS
    <3>3. /\ b \in Nat /\ c \in Nat /\ DOMAIN chunks = 1..b
          /\ DOMAIN chunks' = 1..(b + c)
          /\ \A n \in 1..(b + c) : chunks'[n] = IF n <= b THEN chunks[n] ELSE new[n - b]
      <4>1. /\ chunks' \in Seq(Chunk) /\ Len(chunks') = b + c
            /\ \A n \in 1..(b + c) : chunks'[n] = IF n <= b THEN chunks[n] ELSE new[n - b]
        BY <3>1, <3>2, ConcatProperties DEF PushInv
      <4>. QED BY <3>1, <3>2, <4>1, LenProperties DEF PushInv
    <3>4. \A n \in DOMAIN chunks : n \in DOMAIN chunks' /\ chunks'[n] = chunks[n]
      BY <3>3
    <3>. QED BY <3>4 DEF ChunksGoForward, GoesForward
  <2>. QED BY <1>3, <2>1, ExportedTogether
\* Nothing is moved.
<1>4. ASSUME NEW op, PushStep(p, op), op.mine = push[p].mine \/ op.mine = {},
             chunks' = chunks \/ chunks' = Failing(push[p].mine)
      PROVE  Together' /\ ChunksGoForward
  <2>1. /\ DOMAIN chunks' = DOMAIN chunks
        /\ \A n \in DOMAIN chunks : /\ GoesForward(chunks[n], chunks'[n])
                                    /\ chunks'[n].at = chunks[n].at
    BY <1>4, FailingChunks DEF PushInv, GoesForward
  <2>2. \A n \in DOMAIN chunks : Top(n) \/ chunks'[n + 1].at = chunks'[n].at
    BY <1>2, <2>1
  <2>. QED BY <1>4, <2>1, <2>2, PushesTogether
\* All that is at one place is moved.
<1>5. ASSUME NEW op, PushStep(p, op), op.mine = push[p].mine,
             NEW from, NEW to, chunks' = Moved(from, to),
             (from = "index" /\ to = "commit") \/ (from = "commit" /\ to = "remote")
      PROVE  Together' /\ ChunksGoForward
  <2>1. /\ DOMAIN chunks' = DOMAIN chunks
        /\ \A n \in DOMAIN chunks :
             /\ GoesForward(chunks[n], chunks'[n])
             /\ chunks'[n].at = IF chunks[n].at = from THEN to ELSE chunks[n].at
    BY <1>5, MovedChunks DEF PushInv
  <2>2. \A n \in DOMAIN chunks : Top(n) \/ chunks'[n + 1].at = chunks'[n].at
    BY <1>2, <2>1
  <2>. QED BY <1>5, <2>1, <2>2, PushesTogether
<1>6. CASE GitAdd(p)
  <2>1. PICK op : op = [push[p] EXCEPT !.at = "commit"]
    OBVIOUS
  <2>2. PushStep(p, op) /\ op.mine = push[p].mine
    BY <1>1, <1>6, <2>1 DEF GitAdd, PushOperation
  <2>3. CASE chunks' = Failing(push[p].mine)
    BY <1>4, <2>2, <2>3
  <2>4. CASE chunks' = [n \in DOMAIN chunks |->
                          IF n \in push[p].mine THEN [chunks[n] EXCEPT !.at = "index"]
                          ELSE chunks[n]]
    <3>1. PICK mine : mine = push[p].mine
      OBVIOUS
    <3>2. /\ DOMAIN chunks' = DOMAIN chunks
          /\ \A n \in DOMAIN chunks :
               /\ chunks'[n].lo = chunks[n].lo /\ chunks'[n].hi = chunks[n].hi
               /\ chunks'[n].failed = chunks[n].failed
               /\ chunks'[n].at = IF n \in mine THEN "index" ELSE chunks[n].at
      BY <2>4, <3>1, ChunkFields DEF Chunk
    <3>3. \A n \in mine : chunks[n].at = "file"
      BY <1>6, <3>1 DEF GitAdd, PushInv, InPlace
    <3>4. \A n \in DOMAIN chunks : GoesForward(chunks[n], chunks'[n])
      <4>1. \A n \in DOMAIN chunks : chunks[n].at = "remote" => chunks'[n].at = "remote"
        BY <3>2, <3>3
      <4>. QED BY <3>2, <4>1, Zenon DEF GoesForward
    <3>5. \A n \in DOMAIN chunks : Top(n) \/ (n \in mine <=> n + 1 \in mine)
      BY <3>1 DEF Together
    <3>6. \A n \in DOMAIN chunks : Top(n) \/ chunks'[n + 1].at = chunks'[n].at
      BY <1>2, <3>2, <3>5
    <3>. QED BY <2>2, <3>2, <3>4, <3>6, PushesTogether
  <2>. QED BY <1>6, <2>3, <2>4 DEF GitAdd
<1>7. CASE GitCommit(p)
  <2>1. PICK op : op = [push[p] EXCEPT !.at = "push"]
    OBVIOUS
  <2>2. PushStep(p, op) /\ op.mine = push[p].mine
    BY <1>1, <1>7, <2>1 DEF GitCommit, PushOperation
  <2>3. CASE chunks' = Moved("index", "commit")
    BY <1>5, <2>2, <2>3
  <2>4. CASE chunks' = Failing(push[p].mine)
    BY <1>4, <2>2, <2>4
  <2>. QED BY <1>7, <2>3, <2>4 DEF GitCommit
<1>8. CASE GitPush(p)
  <2>1. CASE PushStep(p, PushIdle) /\ chunks' = chunks
    BY <1>4, <2>1 DEF PushIdle
  <2>2. CASE chunks' = Moved("commit", "remote") /\ PushStep(p, [push[p] EXCEPT !.at = "watermark"])
    <3>1. PICK op : op = [push[p] EXCEPT !.at = "watermark"]
      OBVIOUS
    <3>2. op.mine = push[p].mine /\ PushStep(p, op)
      BY <1>1, <2>2, <3>1 DEF PushOperation
    <3>. QED BY <1>5, <2>2, <3>2
  <2>. QED BY <1>8, <2>1, <2>2 DEF GitPush
<1>9. CASE commit_export_watermark(p) \/ PusherDies(p)
  <2>1. PushStep(p, PushIdle) /\ chunks' = chunks
    BY <1>9 DEF commit_export_watermark, PusherDies
  <2>. QED BY <1>4, <2>1 DEF PushIdle
<1>. QED BY <1>3, <1>6, <1>7, <1>8, <1>9 DEF Push

\* Every step keeps the chunks of one export together.
LEMMA TogetherKept ==
  ASSUME MemoryInv, PushInv, Together, MemoryInv', [SyncNext]_syncVars
  PROVE  Together' /\ ChunksGoForward
<1>1. ASSUME UNCHANGED <<chunks, push>>
      PROVE  Together' /\ ChunksGoForward
  <2>1. ChunksGoForward
    BY <1>1 DEF ChunksGoForward, GoesForward
  <2>2. Len(journal) \in Nat /\ journal \in Seq(Mutation)
    BY LenProperties DEF MemoryInv, MemoryTypeOK
  <2>3. Len(journal) <= Len(journal')
    <3>1. PICK m : journal' = journal \/ journal' = Append(journal, m)
      BY JournalGrows
    <3>2. CASE journal' = Append(journal, m)
      <4>1. Len(journal') = Len(journal) + 1
        BY <2>2, <3>2, LenProperties
      <4>. QED BY <2>2, <4>1
    <3>. QED BY <2>2, <3>1, <3>2
  <2>4. \A n \in DOMAIN chunks : Top(n) \/ chunks'[n + 1].at = chunks'[n].at
    BY <1>1 DEF Together, Continues
  <2>. QED BY <1>1, <2>1, <2>3, <2>4, StayTogether
<1>2. File => UNCHANGED <<chunks, push>>
  BY DEF File, ExportRead, ExportWrite, ExportWatermark, ExportStep, import_observations, pushVars
<1>3. Pull => UNCHANGED <<chunks, push>>
  BY DEF Pull, GitPull, ImportChunk, PullerDies, pushVars
<1>. QED BY <1>1, <1>2, <1>3, PushTogether DEF SyncNext, syncVars, pushVars

\* There is nothing to keep together at first.
LEMMA TogetherInit ==
  ASSUME SyncInit
  PROVE  Together
<1>1. DOMAIN chunks = {}
  BY EmptySeq DEF SyncInit
<1>. QED BY <1>1 DEF Together

-----------------------------------------------------------------------------
(* The other machine.  A pull has all chunks of an export or none, and      *)
(* imports them in order unless some were missed.                           *)

\* What has been pulled is at the remote and holds whole exports; what is not yet
\* imported comes behind what is.
PullInv ==
  /\ have \subseteq AtRemote /\ imported \subseteq have /\ todo \subseteq have
  /\ \A n \in have : Top(n) \/ n + 1 \in have
  /\ missed = {} => /\ have = imported \cup todo
                    /\ \A a \in imported, b \in todo : a < b

\* Nothing has kept the other machine from following.
Sound == missed = {} /\ Unshared /\ ~TopicsMoved

\* No chunk that was imported holds the mutation.
Uncovered(s) == \A n \in imported : s \notin chunks[n].lo..chunks[n].hi

\* The next chunk begins with this mutation.
BeginsNext(s) == \E n \in todo : chunks[n].lo = s /\ \A b \in todo : n <= b

\* The copy is abreast of some entry, and no chunk that was imported holds the
\* one after it, unless the next chunk to be imported begins with that.
CopyInv ==
  files = <<>> /\ Sound =>
    \E store : \E k \in Nat :
      /\ store = copy /\ Abreast(store, k)
      /\ Uncovered(k + 1) \/ BeginsNext(k + 1)

\* A file of sync export stays.
LEMMA FilesKept ==
  ASSUME FileInv, [SyncNext]_syncVars, files' = <<>>
  PROVE  files = <<>>
<1>1. ASSUME files' = files
      PROVE  files = <<>>
  BY <1>1
<1>2. CASE ExportWrite
  <2>1. PICK S : files \in Seq(S)
    BY DEF FileInv
  <2>2. PICK r : files' = Append(files, r)
    BY <1>2 DEF ExportWrite
  <2>3. files \in Seq(S \cup {r})
    BY <2>1, SeqDef
  <2>4. files' # <<>>
    BY <2>2, <2>3, AppendProperties
  <2>. QED BY <2>4
<1>3. ASSUME NEW p \in Pushers, Push(p)
      PROVE  files' = files
  BY <1>3 DEF Push, export_incremental, GitAdd, GitCommit, GitPush,
              commit_export_watermark, PusherDies, PushStep, fileVars
<1>4. Pull => files' = files
  BY DEF Pull, GitPull, ImportChunk, PullerDies, fileVars
<1>5. ASSUME NEW filter \in Scopes, ExportRead(filter)
      PROVE  files' = files
  BY <1>5 DEF ExportRead
<1>6. ASSUME NEW n \in DOMAIN files, import_observations(n)
      PROVE  files' = files
  BY <1>6 DEF import_observations
<1>7. ExportWatermark => files' = files
  BY DEF ExportWatermark
<1>8. UNCHANGED fileVars => files' = files
  BY DEF fileVars
<1>. QED BY <1>1, <1>2, <1>3, <1>4, <1>5, <1>6, <1>7, <1>8 DEF SyncNext, File, syncVars

\* Only a pull, or sync import of a file, changes the other machine.
LEMMA OnlyPullsPull ==
  ASSUME [SyncNext]_syncVars
  PROVE  Pull \/ (UNCHANGED <<have, todo, imported, missed>> /\ (files = <<>> => copy' = copy))
<1>1. ASSUME NEW p \in Pushers, Push(p)
      PROVE  UNCHANGED pullVars
  BY <1>1 DEF Push, export_incremental, GitAdd, GitCommit, GitPush,
              commit_export_watermark, PusherDies, PushStep
<1>2. ASSUME NEW filter \in Scopes, ExportRead(filter)
      PROVE  UNCHANGED pullVars
  BY <1>2 DEF ExportRead, ExportStep
<1>3. ExportWrite \/ ExportWatermark => UNCHANGED pullVars
  BY DEF ExportWrite, ExportWatermark, ExportStep
<1>4. ASSUME NEW n \in DOMAIN files, import_observations(n)
      PROVE  UNCHANGED <<have, todo, imported, missed>> /\ files # <<>>
  <2>1. files # <<>>
    BY EmptySeq
  <2>. QED BY <1>4, <2>1 DEF import_observations
<1>5. ASSUME UNCHANGED pullVars
      PROVE  UNCHANGED <<have, todo, imported, missed>> /\ copy' = copy
  BY <1>5 DEF pullVars
<1>. QED BY <1>1, <1>2, <1>3, <1>4, <1>5 DEF SyncNext, File, syncVars

\* First picks the smallest number of a chunk.
LEMMA FirstIsSmallest ==
  ASSUME PushInv, NEW S \in SUBSET (DOMAIN chunks), S # {}
  PROVE  First(S) \in S /\ \A k \in S : First(S) <= k
<1>1. S \in SUBSET Nat
  BY ChunkFields
<1>2. \E n \in S : \A k \in S : n <= k
  BY <1>1, SmallestNumber
<1>. QED BY <1>2 DEF First

\* Every step keeps what is said of a pull.
LEMMA PullKept ==
  ASSUME PushInv, Together, PullInv, ChunksGoForward, PushInv', [SyncNext]_syncVars
  PROVE  PullInv'
<1>0. /\ AtRemote \subseteq DOMAIN chunks /\ have \subseteq DOMAIN chunks
      /\ todo \subseteq DOMAIN chunks /\ \A n \in DOMAIN chunks : n \in Nat
  BY ChunkFields DEF PullInv, AtRemote
<1>1. ASSUME NEW n \in DOMAIN chunks, Top(n)
      PROVE  Top(n)'
  <2>1. \A g \in DOMAIN chunks' : g < n => g \in DOMAIN chunks
    <3>1. DOMAIN chunks' = 1..Len(chunks') /\ Len(chunks') \in Nat
      BY LenProperties DEF PushInv
    <3>. QED BY <3>1, ChunkFields
  <2>. QED BY <1>1, <2>1 DEF Top, ChunksGoForward, GoesForward
<1>2. CASE UNCHANGED <<have, todo, imported, missed>>
  <2>1. AtRemote \subseteq AtRemote'
    BY DEF AtRemote, ChunksGoForward, GoesForward
  <2>. QED BY <1>0, <1>1, <1>2, <2>1 DEF PullInv
<1>3. CASE GitPull
  <2>1. /\ todo = {} /\ have' = have \cup AtRemote /\ todo' = AtRemote \ have
        /\ missed' = missed \cup {n \in AtRemote \ have : \E k \in have : n < k}
        /\ imported' = imported /\ chunks' = chunks
    BY <1>3 DEF GitPull, pushVars
  <2>2. have' = AtRemote /\ AtRemote' = AtRemote
    BY <2>1 DEF PullInv, AtRemote
  <2>3. \A n \in AtRemote : Top(n) \/ n + 1 \in AtRemote
    BY DEF Together, Continues, AtRemote
  <2>4. \A n \in have' : Top(n)' \/ n + 1 \in have'
    BY <1>0, <1>1, <2>2, <2>3
  <2>5. ASSUME missed' = {}
        PROVE  /\ have' = imported' \cup todo'
               /\ \A a \in imported', b \in todo' : a < b
    <3>1. missed = {} /\ \A n \in AtRemote \ have, k \in have : ~(n < k)
      BY <2>1, <2>5
    <3>2. have = imported
      BY <2>1, <3>1 DEF PullInv
    <3>3. ASSUME NEW a \in imported', NEW b \in todo'
          PROVE  a < b
      <4>1. a \in have /\ b \in AtRemote \ have
        BY <2>1, <3>2
      <4>2. a \in Nat /\ b \in Nat /\ a # b /\ ~(b < a)
        BY <1>0, <3>1, <4>1
      <4>. QED BY <4>2
    <3>. QED BY <2>1, <3>2, <3>3
  <2>6. imported' \subseteq have' /\ todo' \subseteq have'
    BY <2>1 DEF PullInv
  <2>. QED BY <2>2, <2>4, <2>5, <2>6 DEF PullInv
<1>4. CASE ImportChunk
  <2>1. PICK n : n = First(todo)
    OBVIOUS
  <2>2. /\ todo # {} /\ imported' = imported \cup {n} /\ todo' = todo \ {n}
        /\ have' = have /\ missed' = missed /\ chunks' = chunks
    BY <1>4, <2>1 DEF ImportChunk, pushVars
  <2>3. n \in todo /\ \A k \in todo : n <= k
    BY <1>0, <2>1, <2>2, FirstIsSmallest
  <2>4. AtRemote' = AtRemote /\ \A k \in have : Top(k) => Top(k)'
    BY <1>0, <1>1, <2>2 DEF AtRemote
  <2>5. \A b \in todo' : n < b
    <3>1. \A b \in todo : b \in Nat
      BY <1>0
    <3>. QED BY <2>2, <2>3, <3>1
  <2>. QED BY <2>2, <2>3, <2>4, <2>5 DEF PullInv
<1>5. CASE PullerDies
  <2>1. /\ todo # {} /\ missed' = missed \cup todo /\ todo' = {}
        /\ have' = have /\ imported' = imported /\ chunks' = chunks
    BY <1>5 DEF PullerDies, pushVars
  <2>2. AtRemote' = AtRemote /\ \A k \in have : Top(k) => Top(k)'
    BY <1>0, <1>1, <2>1 DEF AtRemote
  <2>. QED BY <2>1, <2>2 DEF PullInv
<1>. QED BY <1>2, <1>3, <1>4, <1>5, OnlyPullsPull DEF Pull

\* A table stays abreast of a journal that grows.
LEMMA AbreastStays ==
  ASSUME journal \in Seq(Mutation), NEW m, journal' = journal \/ journal' = Append(journal, m),
         NEW store, NEW k \in Nat, Abreast(store, k)
  PROVE  Abreast(store, k)'
<1>1. Len(journal) \in Nat /\ Len(journal') \in Nat /\ Len(journal) <= Len(journal')
  <2>1. CASE journal' = Append(journal, m)
    BY <2>1, LenProperties, AppendProperties
  <2>. QED BY <2>1, LenProperties
<1>2. ASSUME NEW i \in Ids
      PROVE  \E n \in k..Len(journal') : store[i] = After(n, i)'
  <2>1. PICK n \in k..Len(journal) : store[i] = After(n, i)
    BY DEF Abreast
  <2>2. n \in 0..Len(journal) /\ n \in k..Len(journal')
    BY <1>1
  <2>3. After(n, i)' = After(n, i)
    BY <2>2, AfterStays
  <2>. QED BY <2>1, <2>2, <2>3
<1>. QED BY <1>2 DEF Abreast

\* What keeps the other machine from following does so for good.
LEMMA SoundBefore ==
  ASSUME MemoryInv, [SyncNext]_syncVars, Sound'
  PROVE  Sound
<1>1. PICK m : journal' = journal \/ journal' = Append(journal, m)
  BY JournalGrows
<1>2. /\ journal \in Seq(Mutation) /\ Len(journal) \in Nat /\ DOMAIN journal = 1..Len(journal)
      /\ \A n \in DOMAIN journal : n \in DOMAIN journal' /\ journal'[n] = journal[n]
  <2>1. journal \in Seq(Mutation)
    BY DEF MemoryInv, MemoryTypeOK
  <2>2. CASE journal' = Append(journal, m)
    <3>1. Len(journal') = Len(journal) + 1 /\ \A n \in 1..Len(journal) : journal'[n] = journal[n]
      BY <2>1, <2>2, AppendProperties
    <3>2. Len(journal) \in Nat /\ DOMAIN journal = 1..Len(journal) /\ DOMAIN journal' = 1..Len(journal')
      BY <2>1, <2>2, LenProperties
    <3>. QED BY <2>1, <3>1, <3>2
  <2>. QED BY <1>1, <2>1, <2>2, LenProperties
<1>3. missed \subseteq missed'
  BY OnlyPullsPull DEF Pull, GitPull, ImportChunk, PullerDies
<1>4. Unshared
  <2>. SUFFICES ASSUME NEW n \in DOMAIN journal, NEW i \in Ids, NEW j \in Ids, i # j,
                       After(n, i).topic = After(n, j).topic
                PROVE  After(n, i).topic = None
    BY DEF Unshared
  <2>1. n \in 0..Len(journal) /\ n \in DOMAIN journal'
    BY <1>2
  <2>2. After(n, i)' = After(n, i) /\ After(n, j)' = After(n, j)
    BY <1>1, <1>2, <2>1, AfterStays
  <2>. QED BY <2>1, <2>2 DEF Sound, Unshared
<1>5. ~TopicsMoved
  <2>1. TopicsMoved => TopicsMoved'
    BY <1>2 DEF TopicsMoved
  <2>. QED BY <2>1 DEF Sound
<1>. QED BY <1>3, <1>4, <1>5 DEF Sound

\* A chunk that is imported in order, behind a gap or not.
LEMMA ImportKeepsCopy ==
  ASSUME MemoryInv, PushInv, Together, PullInv, InsertsFirst, Sound, missed' = {}, ImportChunk,
         NEW store, store = copy, NEW k \in Nat, Abreast(store, k),
         Uncovered(k + 1) \/ BeginsNext(k + 1)
  PROVE  \E l \in Nat : /\ Abreast(copy', l)
                        /\ Uncovered(l + 1)' \/ BeginsNext(l + 1)'
<1>1. PICK n : n = First(todo)
  OBVIOUS
<1>2. PICK lo, hi : lo = chunks[n].lo /\ hi = chunks[n].hi
  OBVIOUS
<1>3. /\ todo # {} /\ imported' = imported \cup {n} /\ todo' = todo \ {n} /\ chunks' = chunks
      /\ copy' = AppliedUpTo(store, lo, hi)
  BY <1>1, <1>2 DEF ImportChunk, pushVars
<1>4. /\ todo \in SUBSET (DOMAIN chunks) /\ imported \subseteq DOMAIN chunks
      /\ n \in todo /\ \A j \in todo : n <= j
      /\ \A j \in DOMAIN chunks : j \in Nat /\ chunks[j].lo \in Nat /\ chunks[j].hi \in Nat
  <2>1. todo \in SUBSET (DOMAIN chunks) /\ imported \subseteq DOMAIN chunks
    BY DEF PullInv, AtRemote
  <2>. QED BY <1>1, <1>3, <2>1, FirstIsSmallest, ChunkFields
<1>5. /\ lo \in Nat \ {0} /\ hi \in Nat /\ lo <= hi /\ hi <= Len(journal)
      /\ journal \in Seq(Mutation)
  <2>1. lo \in Nat /\ hi \in Nat /\ 1 <= lo /\ lo <= hi /\ hi <= Len(journal)
    BY <1>2, <1>4 DEF Together
  <2>. QED BY <2>1 DEF MemoryInv, MemoryTypeOK
<1>6. have = imported \cup todo /\ \A a \in imported : a < n
  BY <1>4 DEF PullInv, Sound
\* Behind a gap: the gap stays.
<1>7. CASE k < lo - 1
  <2>1. Abreast(copy', k)
    <3>1. k <= lo - 1
      BY <1>5, <1>7
    <3>. QED BY <1>3, <1>5, <3>1, ChunkApplied DEF Sound
  <2>2. ~BeginsNext(k + 1)
    <3>. SUFFICES ASSUME NEW j \in todo, chunks[j].lo = k + 1, \A b \in todo : j <= b PROVE FALSE
      BY DEF BeginsNext
    <3>1. j = n
      BY <1>4
    <3>. QED BY <1>2, <1>5, <1>7, <3>1
  <2>3. \A j \in imported' : k + 1 \notin chunks[j].lo..chunks[j].hi
    BY <1>2, <1>3, <1>5, <1>7, <2>2 DEF Uncovered
  <2>. QED BY <1>3, <2>1, <2>3 DEF Uncovered
\* No gap: the copy is abreast of the end of the chunk.
<1>8. CASE lo - 1 <= k
  <2>1. Abreast(copy', hi)
    <3>1. PICK j \in Nat : j = lo - 1
      BY <1>5
    <3>2. Abreast(store, j)
      BY <1>5, <1>8, <3>1, AbreastOfLess
    <3>3. j <= lo - 1
      BY <1>5, <3>1
    <3>. QED BY <1>3, <1>5, <3>1, <3>2, <3>3, ChunkApplied DEF Sound
  <2>2. CASE Top(n)
    <3>1. \A j \in imported' : chunks[j].hi <= hi
      BY <1>2, <1>3, <1>4, <1>5, <1>6, <2>2 DEF Top
    <3>2. \A j \in imported' : hi + 1 \notin chunks[j].lo..chunks[j].hi
      BY <1>3, <1>4, <1>5, <3>1
    <3>. QED BY <1>3, <1>5, <2>1, <3>2 DEF Uncovered
  <2>3. CASE ~Top(n)
    <3>1. n + 1 \in have /\ chunks[n + 1].lo = hi + 1
      <4>1. n \in have
        BY <1>4, <1>6
      <4>2. n + 1 \in have
        BY <2>3, <4>1 DEF PullInv
      <4>3. chunks[n + 1].lo = hi + 1
        BY <1>2, <1>4, <2>3 DEF Together, Continues
      <4>. QED BY <4>2, <4>3
    <3>2. n + 1 \in todo
      <4>1. ~(n + 1 < n)
        BY <1>4
      <4>. QED BY <1>6, <3>1, <4>1
    <3>3. n + 1 \in todo' /\ \A b \in todo' : n + 1 <= b
      BY <1>3, <1>4, <3>2
    <3>4. BeginsNext(hi + 1)'
      BY <1>3, <3>1, <3>3 DEF BeginsNext
    <3>. QED BY <1>5, <2>1, <3>4
  <2>. QED BY <2>2, <2>3
<1>. QED BY <1>5, <1>7, <1>8

\* Every step keeps the copy abreast.
LEMMA CopyKept ==
  ASSUME MemoryInv, PushInv, FileInv, Together, PullInv, CopyInv, InsertsFirst,
         ChunksGoForward, [SyncNext]_syncVars
  PROVE  CopyInv'
<1>. SUFFICES ASSUME files' = <<>>, Sound'
              PROVE  \E store : \E k \in Nat :
                       /\ store = copy' /\ Abreast(store, k)'
                       /\ Uncovered(k + 1)' \/ BeginsNext(k + 1)'
  BY DEF CopyInv
<1>1. Sound /\ files = <<>>
  BY SoundBefore, FilesKept
<1>2. PICK store : \E k \in Nat : /\ store = copy /\ Abreast(store, k)
                                  /\ Uncovered(k + 1) \/ BeginsNext(k + 1)
  BY <1>1 DEF CopyInv
<1>3. PICK k \in Nat : /\ store = copy /\ Abreast(store, k)
                       /\ Uncovered(k + 1) \/ BeginsNext(k + 1)
  BY <1>2
<1>4. PICK m : journal' = journal \/ journal' = Append(journal, m)
  BY JournalGrows
<1>5. journal \in Seq(Mutation)
  BY DEF MemoryInv, MemoryTypeOK
<1>6. imported \subseteq DOMAIN chunks /\ todo \subseteq DOMAIN chunks
  BY DEF PullInv, AtRemote
\* Nothing was imported.
<1>7. ASSUME imported' = imported, copy' = copy, todo' = todo \/ todo = {}
      PROVE  \E l \in Nat : /\ store = copy' /\ Abreast(store, l)'
                            /\ Uncovered(l + 1)' \/ BeginsNext(l + 1)'
  <2>1. Abreast(store, k)'
    BY <1>3, <1>4, <1>5, AbreastStays
  <2>2. \A s : Uncovered(s) => Uncovered(s)'
    BY <1>6, <1>7 DEF Uncovered, ChunksGoForward, GoesForward
  <2>3. \A s : BeginsNext(s) => BeginsNext(s)'
    BY <1>6, <1>7 DEF BeginsNext, ChunksGoForward, GoesForward
  <2>. QED BY <1>3, <1>7, <2>1, <2>2, <2>3
<1>8. CASE ImportChunk
  <2>1. missed' = {}
    BY DEF Sound
  <2>2. PICK new : new = copy'
    OBVIOUS
  <2>3. PICK l \in Nat : /\ Abreast(new, l)
                         /\ Uncovered(l + 1)' \/ BeginsNext(l + 1)'
    BY <1>1, <1>3, <1>8, <2>1, <2>2, ImportKeepsCopy
  <2>4. Abreast(new, l)'
    BY <1>4, <1>5, <2>3, AbreastStays
  <2>. QED BY <2>2, <2>3, <2>4
<1>9. PullerDies => FALSE
  BY DEF PullerDies, Sound
<1>10. GitPull => imported' = imported /\ copy' = copy /\ todo = {}
  BY DEF GitPull
<1>11. UNCHANGED <<have, todo, imported, missed>> /\ copy' = copy
       => imported' = imported /\ copy' = copy /\ todo' = todo
  OBVIOUS
<1>. QED BY <1>1, <1>7, <1>8, <1>9, <1>10, <1>11, OnlyPullsPull DEF Pull

\* What the whole journal makes of an observation is its row.
LEMMA RowIsLastEntry ==
  ASSUME MemoryInv, NEW i \in Ids, Journalled(i)
  PROVE  After(Len(journal), i) = IF Stored(rows, i)
                                  THEN [rows[i] EXCEPT !.title = None, !.project = None, !.key = None]
                                  ELSE NoRow
<1>1. Until(Len(journal), i) = MutationsOf(i)
  <2>1. DOMAIN journal = 1..Len(journal)
    BY LenProperties DEF MemoryInv, MemoryTypeOK
  <2>. QED BY <2>1 DEF Until, MutationsOf
<1>2. Last(MutationsOf(i)) = CHOOSE n \in MutationsOf(i) : \A k \in MutationsOf(i) : k <= n
  BY DEF Last
<1>3. LastOf(i) = journal[Last(MutationsOf(i))]
  BY <1>2 DEF LastOf
<1>4. After(Len(journal), i) = IF MutationsOf(i) = {} THEN NoRow ELSE Made(LastOf(i))
  BY <1>1, <1>3 DEF After
<1>5. CASE Stored(rows, i)
  <2>1. rows[i] \in Observation
    BY <1>5 DEF MemoryInv, MemoryTypeOK, MemoryTable, Stored
  <2>2. After(Len(journal), i) = Received(LastOf(i))
    BY <1>4, <1>5 DEF Journalled, Made
  <2>3. LastOf(i).content = rows[i].content /\ LastOf(i).topic = rows[i].topic
    BY <1>5 DEF Journalled
  <2>4. [rows[i] EXCEPT !.title = None, !.project = None, !.key = None]
          = [content |-> rows[i].content, title |-> None, topic |-> rows[i].topic,
             project |-> None, key |-> None]
    <3>1. PICK row \in Observation : row = rows[i]
      BY <2>1
    <3>2. PICK once : once = [row EXCEPT !.title = None]
      OBVIOUS
    <3>3. once = [content |-> row.content, title |-> None, topic |-> row.topic,
                  project |-> row.project, key |-> row.key]
      BY <3>2 DEF Observation, Fields
    <3>4. PICK twice : twice = [once EXCEPT !.project = None]
      OBVIOUS
    <3>5. twice = [content |-> row.content, title |-> None, topic |-> row.topic,
                   project |-> None, key |-> row.key]
      BY <3>3, <3>4
    <3>6. [twice EXCEPT !.key = None]
            = [content |-> row.content, title |-> None, topic |-> row.topic,
               project |-> None, key |-> None]
      BY <3>5
    <3>. QED BY <3>1, <3>2, <3>4, <3>6
  <2>. QED BY <1>5, <2>2, <2>3, <2>4 DEF Received
<1>6. CASE ~Stored(rows, i)
  BY <1>4, <1>6 DEF Journalled, Made
<1>. QED BY <1>5, <1>6

\* What was delivered, imported and recorded is the same on both machines.
LEMMA Converges ==
  ASSUME NEW w, Writers = {w}, MemoryInv, JournalInv(w), PushInv, InStep,
         PullInv, CopyInv, NEW i \in Ids
  PROVE  copy[i] = IF Stored(rows, i)
                   THEN [rows[i] EXCEPT !.title = None, !.project = None, !.key = None]
                   ELSE NoRow
<1>1. /\ mop[w].at = "idle" /\ lost = {} /\ missed = {} /\ files = <<>>
      /\ ~TopicsShared /\ ~TopicsMoved /\ imported = AtRemote
      /\ \A s \in DOMAIN journal : Delivered(s)
  BY DEF InStep
<1>2. journal \in Seq(Mutation) /\ Len(journal) \in Nat /\ DOMAIN journal = 1..Len(journal)
  BY LenProperties DEF MemoryInv, MemoryTypeOK
<1>3. Sound
  BY <1>1, <1>2, TopicsUnshared DEF Unshared, Sound
<1>4. PICK store : \E k \in Nat : /\ store = copy /\ Abreast(store, k)
                                  /\ Uncovered(k + 1) \/ BeginsNext(k + 1)
  BY <1>1, <1>3 DEF CopyInv
<1>5. PICK k \in Nat : /\ store = copy /\ Abreast(store, k)
                       /\ Uncovered(k + 1) \/ BeginsNext(k + 1)
  BY <1>4
<1>6. Uncovered(k + 1)
  <2>1. todo = {}
    <3>1. \A a \in todo : a \in Nat
      BY ChunkFields DEF PullInv, AtRemote
    <3>. QED BY <1>1, <3>1 DEF PullInv
  <2>. QED BY <1>5, <2>1 DEF BeginsNext
<1>7. Len(journal) <= k
  <2>1. k + 1 \notin DOMAIN journal
    BY <1>1, <1>6 DEF Uncovered, Delivered
  <2>. QED BY <1>2, <2>1
<1>8. store[i] = After(Len(journal), i)
  <2>1. PICK n \in k..Len(journal) : store[i] = After(n, i)
    BY <1>5 DEF Abreast
  <2>2. n \in Nat /\ k \in Nat /\ Len(journal) \in Nat
    BY <1>2
  <2>3. n = Len(journal)
    BY <1>7, <2>2
  <2>. QED BY <2>1, <2>3
<1>9. Journalled(i)
  BY <1>1 DEF JournalInv, Recording
<1>. QED BY <1>5, <1>8, <1>9, RowIsLastEntry

\* An empty copy is abreast of an empty journal.
LEMMA PullInit ==
  ASSUME SyncInit
  PROVE  PullInv /\ CopyInv
<1>1. /\ have = {} /\ todo = {} /\ imported = {} /\ copy = EmptyMemory
      /\ Len(journal) \in Nat
  BY EmptySeq DEF SyncInit, MemoryInit
<1>2. PullInv
  BY <1>1 DEF PullInv
<1>3. Uncovered(0 + 1)
  BY <1>1 DEF Uncovered
<1>4. Abreast(EmptyMemory, 0)
  <2>1. EmptyMemory = [i \in Ids |-> EmptyMemory[i]] /\ \A i \in Ids : EmptyMemory[i] = NoRow
    BY DEF EmptyMemory
  <2>2. 0 \in 0..Len(journal) /\ \A i \in Ids : EmptyMemory[i] = After(0, i)
    BY <1>1, <2>1, AfterNothing
  <2>3. NoRow.topic = None
    BY DEF NoRow
  <2>. QED BY <2>1, <2>2, <2>3 DEF Abreast
<1>. QED BY <1>1, <1>2, <1>3, <1>4 DEF CopyInv

\* The other machine converges, for any front ends of one process that writes,
\* any number of pushes in one clone, any size of chunk, and whichever pushes
\* and pulls die or fail: when every mutation has been delivered and imported
\* in the order of the chunks, and topics stay, both have the same
\* observations.  Inserted, updated and deleted again by chunks that overlap,
\* a row _apply_mutation leaves is as it was at the entry the copy is abreast
\* of, or later.
THEOREM ReplicasConverge ==
  ASSUME NEW w, Writers = {w}
  PROVE  SyncSpec => []ReplicaConverges
<1>. DEFINE Local == MemoryInv /\ JournalInv(w) /\ FreshInv(w)
            Delivery == PushInv /\ FileInv /\ CoverInv /\ Together
            Remote == PullInv /\ CopyInv
<1>1. SyncInit => Local /\ Delivery /\ Remote
  BY MemoryInitOK, DeliveryInit, JournalInit, FreshInit, TogetherInit, PullInit DEF SyncInit
<1>2. Local /\ Delivery /\ Remote /\ [SyncNext]_syncVars => Local' /\ Delivery' /\ Remote'
  <2>. SUFFICES ASSUME Local, Delivery, Remote, [SyncNext]_syncVars
                PROVE  Local' /\ Delivery' /\ Remote'
    OBVIOUS
  <2>1. MemoryInv' /\ PushInv' /\ FileInv' /\ CoverInv'
    BY MemoryInvKept, DeliveryKept
  <2>2. JournalInv(w)' /\ FreshInv(w)'
    BY JournalInvKept, FreshInvKept
  <2>3. Together' /\ ChunksGoForward
    BY <2>1, TogetherKept
  <2>4. PullInv'
    BY <2>1, <2>3, PullKept
  <2>5. CopyInv'
    BY <2>3, CopyKept DEF FreshInv
  <2>. QED BY <2>1, <2>2, <2>3, <2>4, <2>5
<1>3. Local /\ Delivery /\ Remote => ReplicaConverges
  BY Converges DEF ReplicaConverges
<1>. QED BY <1>1, <1>2, <1>3, PTL DEF SyncSpec

-----------------------------------------------------------------------------
(*****************************************************************************)
(* Delivery.  Sync implements Delivery, through Deliveries, for every number *)
(* of writers and pushers and every chunk size.                              *)
(*                                                                           *)
(* What is delivered, dropped and received are the mutations of chunks, so   *)
(* it only grows as long as no chunk goes back (ChunksGoForward), and it is  *)
(* in the log as long as no mark is beyond the journal's end (MarksInv).     *)
(*****************************************************************************)

\* No mark is beyond the end of the journal.
MarksInv ==
  /\ watermark <= Len(journal) /\ export.max <= Len(journal)
  /\ \A p \in Pushers : push[p].max <= Len(journal)

\* A step adds at most one mutation to the journal, at its end.
LEMMA JournalLength ==
  ASSUME MemoryInv, [SyncNext]_syncVars
  PROVE  /\ Len(journal) \in Nat /\ DOMAIN journal = 1..Len(journal)
         /\ Len(journal') \in Nat /\ DOMAIN journal' = 1..Len(journal')
         /\ \/ journal' = journal
            \/ /\ Len(journal') = Len(journal) + 1
               /\ \A n \in DOMAIN journal : journal'[n] = journal[n]
<1>1. journal \in Seq(Mutation) /\ journal' \in Seq(Mutation)
  BY MemoryInvKept DEF MemoryInv, MemoryTypeOK
<1>2. /\ Len(journal) \in Nat /\ DOMAIN journal = 1..Len(journal)
      /\ Len(journal') \in Nat /\ DOMAIN journal' = 1..Len(journal')
  BY <1>1, LenProperties
<1>3. PICK m : journal' = journal \/ journal' = Append(journal, m)
  BY JournalGrows
<1>4. CASE journal' = Append(journal, m)
  <2>1. \E S : m \in S /\ journal \in Seq(S)
    <3>1. journal \in Seq(Mutation \cup {m})
      BY <1>1, SeqDef
    <3>. QED BY <3>1
  <2>. QED BY <1>2, <1>4, <2>1, AppendProperties
<1>. QED BY <1>2, <1>3, <1>4

\* Chunks hold mutations of the journal.
LEMMA HeldIsWritten ==
  ASSUME MemoryInv, PushInv, Together, NEW set \in SUBSET (DOMAIN chunks)
  PROVE  \A s : s \in Held(set) <=> \E n \in set : s \in chunks[n].lo..chunks[n].hi
<1>1. DOMAIN journal = 1..Len(journal) /\ Len(journal) \in Nat
  BY LenProperties DEF MemoryInv, MemoryTypeOK
<1>2. \A n \in DOMAIN chunks : chunks[n].lo \in Nat /\ chunks[n].hi \in Nat
                               /\ 1 <= chunks[n].lo /\ chunks[n].hi <= Len(journal)
  BY ChunkFields DEF Together
<1>3. ASSUME NEW n \in DOMAIN chunks, NEW s \in chunks[n].lo..chunks[n].hi
      PROVE  s \in DOMAIN journal
  BY <1>1, <1>2
<1>. QED BY <1>3 DEF Held

\* The journal grows and the marks stay, or a mark takes the journal's end.
LEMMA MarksKept ==
  ASSUME MemoryInv, PushInv, FileInv, MarksInv, [SyncNext]_syncVars
  PROVE  MarksInv'
<1>1. /\ Len(journal) \in Nat /\ watermark \in Nat /\ export.max \in Nat
      /\ \A p \in Pushers : push[p].max \in Nat
  BY LenProperties DEF MemoryInv, MemoryTypeOK, PushInv, FileInv, PushOperation
<1>2. Len(journal') \in Nat /\ Len(journal) <= Len(journal')
  BY JournalLength
<1>3. ASSUME UNCHANGED <<watermark, push, export>> PROVE MarksInv'
  BY <1>1, <1>2, <1>3 DEF MarksInv
<1>4. ASSUME NEW p \in Pushers, Push(p) PROVE MarksInv'
  <2>1. journal' = journal /\ export' = export
    BY <1>4 DEF Push, export_incremental, GitAdd, GitCommit, GitPush, commit_export_watermark,
                PusherDies, PushStep, memoryVars, fileVars
  <2>2. watermark' = watermark \/ watermark' = push[p].max
    BY <1>4 DEF Push, export_incremental, GitAdd, GitCommit, GitPush, commit_export_watermark,
                PusherDies
  <2>3. \E op : push' = [push EXCEPT ![p] = op] /\ op.max \in {0, Len(journal), push[p].max}
    <3>1. push[p] \in PushOperation
      BY DEF PushInv
    <3>2. \A at : [push[p] EXCEPT !.at = at].max = push[p].max
      BY <3>1 DEF PushOperation
    <3>3. PushIdle.max = 0
      BY DEF PushIdle
    <3>4. CASE export_incremental(p)
      <4>1. PICK new : PushStep(p, [at |-> "add", max |-> Len(journal),
                                    mine |-> (Len(chunks) + 1)..(Len(chunks) + Len(new))])
        BY <3>4, ExportedChunks
      <4>2. PICK op : op = [at |-> "add", max |-> Len(journal),
                            mine |-> (Len(chunks) + 1)..(Len(chunks) + Len(new))]
        OBVIOUS
      <4>3. op.max = Len(journal)
        BY <4>2
      <4>. QED BY <4>1, <4>2, <4>3 DEF PushStep
    <3>5. CASE GitAdd(p) \/ GitCommit(p) \/ GitPush(p)
      <4>1. \/ PushStep(p, PushIdle)
            \/ \E at \in {"commit", "push", "watermark"} : PushStep(p, [push[p] EXCEPT !.at = at])
        BY <3>5 DEF GitAdd, GitCommit, GitPush
      <4>. QED BY <3>2, <3>3, <4>1 DEF PushStep
    <3>6. CASE commit_export_watermark(p) \/ PusherDies(p)
      BY <3>3, <3>6 DEF commit_export_watermark, PusherDies, PushStep
    <3>. QED BY <1>4, <3>4, <3>5, <3>6 DEF Push
  <2>4. \A q \in Pushers : push'[q].max \in {0, Len(journal), push[q].max}
    BY <2>3 DEF PushInv
  <2>5. \A q \in Pushers : push'[q].max <= Len(journal)
    BY <1>1, <2>4 DEF MarksInv
  <2>6. watermark' <= Len(journal)
    BY <1>1, <2>2 DEF MarksInv
  <2>. QED BY <2>1, <2>5, <2>6 DEF MarksInv
<1>5. ASSUME NEW filter \in Scopes, ExportRead(filter) PROVE MarksInv'
  <2>1. journal' = journal /\ push' = push /\ watermark' = watermark
    BY <1>5 DEF ExportRead, ExportStep, memoryVars
  <2>2. export'.max = Len(journal)
    BY <1>5 DEF ExportRead, ExportStep
  <2>. QED BY <1>1, <2>1, <2>2 DEF MarksInv
<1>6. CASE ExportWrite
  <2>1. /\ journal' = journal /\ push' = push /\ watermark' = watermark
        /\ export' = [export EXCEPT !.at = "watermark"]
    BY <1>6 DEF ExportWrite, ExportStep, memoryVars
  <2>2. export'.max = export.max
    BY <2>1
  <2>. QED BY <1>1, <2>1, <2>2 DEF MarksInv
<1>7. CASE ExportWatermark
  <2>1. /\ journal' = journal /\ push' = push /\ watermark' \in {Len(journal), export.max}
        /\ export' = ExportIdle
    BY <1>7 DEF ExportWatermark, ExportStep, memoryVars
  <2>2. export'.max = 0
    BY <2>1 DEF ExportIdle
  <2>. QED BY <1>1, <2>1, <2>2 DEF MarksInv
<1>8. ASSUME NEW n \in DOMAIN files, import_observations(n) PROVE MarksInv'
  <2>1. UNCHANGED <<watermark, push, export>>
    BY <1>8 DEF import_observations, pushVars
  <2>. QED BY <1>3, <2>1
<1>9. Pull => UNCHANGED <<watermark, push, export>>
  BY DEF Pull, GitPull, ImportChunk, PullerDies, pushVars, fileVars
<1>. QED BY <1>3, <1>4, <1>5, <1>6, <1>7, <1>8, <1>9 DEF SyncNext, File, syncVars, pushVars, fileVars

\* Before the first mutation every mark is nought.
LEMMA MarksInit == SyncInit => MarksInv
<1>1. Len(<<>>) = 0
  BY EmptySeq
<1>. QED BY <1>1 DEF SyncInit, MemoryInit, MarksInv, ExportIdle, PushIdle

\* What the refinement rests on: every invariant about pushes and pulls.
DeliveryInv == MemoryInv /\ PushInv /\ FileInv /\ CoverInv /\ Together /\ MarksInv /\ PullInv

\* Every action preserves it, and no chunk goes back.
LEMMA DeliveryInvKept ==
  ASSUME DeliveryInv, [SyncNext]_syncVars
  PROVE  DeliveryInv' /\ ChunksGoForward
<1>1. MemoryInv' /\ PushInv' /\ FileInv' /\ CoverInv'
  BY MemoryInvKept, DeliveryKept DEF DeliveryInv
<1>2. Together' /\ ChunksGoForward
  BY <1>1, TogetherKept DEF DeliveryInv
<1>3. PullInv' /\ MarksInv'
  BY <1>1, <1>2, PullKept, MarksKept DEF DeliveryInv
<1>. QED BY <1>1, <1>2, <1>3 DEF DeliveryInv

\* It holds at the start.
LEMMA DeliveryInvInit == SyncInit => DeliveryInv
BY MemoryInitOK, DeliveryInit, TogetherInit, PullInit, MarksInit DEF SyncInit, DeliveryInv

-----------------------------------------------------------------------------
(* Steps *)

\* The chunks that git add or git commit failed for.
Failed == {n \in DOMAIN chunks : chunks[n].failed}

\* The mutations that Delivery knows the fate of.
FatesKnown == <<Held(AtRemote), Held(Failed), Held(imported)>>

\* What chunks hold stays while they are kept.
LEMMA HeldInChunks ==
  ASSUME DeliveryInv, DeliveryInv', ChunksGoForward, NEW set \in SUBSET (DOMAIN chunks)
  PROVE  Held(set)' = Held(set)
<1>1. /\ \A s : s \in Held(set) <=> \E n \in set : s \in chunks[n].lo..chunks[n].hi
  BY HeldIsWritten DEF DeliveryInv
<1>2. set \in SUBSET (DOMAIN chunks')
  BY DEF ChunksGoForward
<1>3. \A n \in set : chunks'[n].lo = chunks[n].lo /\ chunks'[n].hi = chunks[n].hi
  BY DEF ChunksGoForward, GoesForward
<1>4. ASSUME NEW s, NEW n \in set, s \in chunks'[n].lo..chunks'[n].hi
      PROVE  s \in DOMAIN journal'
  <2>1. DOMAIN journal' = 1..Len(journal') /\ Len(journal') \in Nat
    BY LenProperties DEF DeliveryInv, MemoryInv, MemoryTypeOK
  <2>2. 1 <= chunks'[n].lo /\ chunks'[n].hi <= Len(journal')
    BY <1>2 DEF DeliveryInv, Together
  <2>3. chunks[n].lo \in Nat /\ chunks[n].hi \in Nat
    BY ChunkFields DEF DeliveryInv
  <2>. QED BY <1>3, <1>4, <2>1, <2>2, <2>3
<1>5. \A s : s \in Held(set)' <=> \E n \in set : s \in chunks'[n].lo..chunks'[n].hi
  BY <1>4 DEF Held
<1>. QED BY <1>1, <1>3, <1>5 DEF Held

\* More chunks hold no less.
LEMMA HeldGrows ==
  ASSUME NEW small, NEW big \in SUBSET (DOMAIN chunks), small \subseteq big
  PROVE  Held(small) \subseteq Held(big)
BY DEF Held

\* A step after which the remote, the failures and the other machine's clone have
\* the chunks they had.
LEMMA SameChunksSameKnown ==
  ASSUME DeliveryInv, DeliveryInv', ChunksGoForward,
         AtRemote' = AtRemote, Failed' = Failed, imported' = imported
  PROVE  UNCHANGED FatesKnown
<1>1. AtRemote \in SUBSET (DOMAIN chunks) /\ imported \in SUBSET (DOMAIN chunks)
      /\ Failed \in SUBSET (DOMAIN chunks)
  BY DEF AtRemote, Failed, DeliveryInv, PullInv
<1>2. PICK r \in SUBSET (DOMAIN chunks) : r = AtRemote
  BY <1>1
<1>3. PICK f \in SUBSET (DOMAIN chunks) : f = Failed
  BY <1>1
<1>4. PICK i \in SUBSET (DOMAIN chunks) : i = imported
  BY <1>1
<1>5. Held(r)' = Held(r) /\ Held(f)' = Held(f) /\ Held(i)' = Held(i)
  BY HeldInChunks
<1>. QED BY <1>2, <1>3, <1>4, <1>5 DEF FatesKnown, Failed, Held

\* Writers append to the journal, and touch nothing else that counts here.
LEMMA WritersWrite ==
  ASSUME DeliveryInv, DeliveryInv', ChunksGoForward, [SyncNext]_syncVars,
         UNCHANGED <<pushVars, pullVars, fileVars>>
  PROVE  [Deliveries!Next]_(Deliveries!deliveryVars)
<1>1. UNCHANGED FatesKnown
  BY SameChunksSameKnown DEF pushVars, pullVars, AtRemote, Failed
<1>2. UNCHANGED <<watermark, files>>
  BY DEF pushVars, fileVars
<1>3. CASE journal' = journal
  BY <1>1, <1>2, <1>3 DEF FatesKnown, Failed, Deliveries!deliveryVars
<1>4. CASE /\ Len(journal') = Len(journal) + 1
           /\ \A n \in DOMAIN journal : journal'[n] = journal[n]
  BY <1>1, <1>2, <1>4 DEF FatesKnown, Failed, Deliveries!Next, Deliveries!Write
<1>. QED BY <1>3, <1>4, JournalLength DEF DeliveryInv

\* A step of a push after which no chunk is at the remote that was not.
LEMMA NothingDelivered ==
  ASSUME DeliveryInv, DeliveryInv', ChunksGoForward, AtRemote' = AtRemote,
         UNCHANGED <<journal, watermark, files, imported>>
  PROVE  [Deliveries!Next]_(Deliveries!deliveryVars)
<1>1. /\ AtRemote \in SUBSET (DOMAIN chunks) /\ imported \in SUBSET (DOMAIN chunks)
      /\ Failed \in SUBSET (DOMAIN chunks)
  BY DEF AtRemote, Failed, DeliveryInv, PullInv
<1>2. PICK r \in SUBSET (DOMAIN chunks) : r = AtRemote
  BY <1>1
<1>3. PICK f \in SUBSET (DOMAIN chunks) : f = Failed
  BY <1>1
<1>4. PICK i \in SUBSET (DOMAIN chunks) : i = imported
  BY <1>1
<1>5. Held(r)' = Held(r) /\ Held(f)' = Held(f) /\ Held(i)' = Held(i)
  BY HeldInChunks
<1>6. f \subseteq Failed'
  BY <1>3 DEF Failed, ChunksGoForward, GoesForward
<1>7. Held(f)' \subseteq Held(Failed)'
  BY <1>6 DEF Held
<1>8. Held(Failed) \subseteq Held(Failed)'
  BY <1>3, <1>5, <1>7
<1>9. Held(Failed)' \subseteq DOMAIN journal
  BY DEF Held
<1>10. Held(AtRemote)' = Held(AtRemote) /\ Held(imported)' = Held(imported)
  BY <1>2, <1>4, <1>5 DEF Held
<1>11. Deliveries!Drop
  BY <1>8, <1>9, <1>10 DEF Deliveries!Drop, Failed
<1>. QED BY <1>11 DEF Deliveries!Next

\* A step of a push after which no chunk has failed that had not.
LEMMA NothingFailed ==
  ASSUME DeliveryInv, DeliveryInv', ChunksGoForward, Failed' = Failed,
         UNCHANGED <<journal, watermark, files, imported>>
  PROVE  [Deliveries!Next]_(Deliveries!deliveryVars)
<1>1. /\ AtRemote \in SUBSET (DOMAIN chunks) /\ imported \in SUBSET (DOMAIN chunks)
      /\ Failed \in SUBSET (DOMAIN chunks)
  BY DEF AtRemote, Failed, DeliveryInv, PullInv
<1>2. PICK r \in SUBSET (DOMAIN chunks) : r = AtRemote
  BY <1>1
<1>3. PICK f \in SUBSET (DOMAIN chunks) : f = Failed
  BY <1>1
<1>4. PICK i \in SUBSET (DOMAIN chunks) : i = imported
  BY <1>1
<1>5. Held(r)' = Held(r) /\ Held(f)' = Held(f) /\ Held(i)' = Held(i)
  BY HeldInChunks
<1>6. r \subseteq AtRemote'
  BY <1>2 DEF AtRemote, ChunksGoForward, GoesForward
<1>7. Held(r)' \subseteq Held(AtRemote)'
  BY <1>6 DEF Held
<1>8. Held(AtRemote) \subseteq Held(AtRemote)'
  BY <1>2, <1>5, <1>7
<1>9. Held(AtRemote)' \subseteq DOMAIN journal
  BY DEF Held
<1>10. Held(Failed)' = Held(Failed) /\ Held(imported)' = Held(imported)
  BY <1>3, <1>4, <1>5 DEF Held
<1>11. Deliveries!Deliver
  BY <1>8, <1>9, <1>10 DEF Deliveries!Deliver, Failed
<1>. QED BY <1>11 DEF Deliveries!Next

\* A step that moves the watermark, to where all is safe unless it is shared.
LEMMA MarkMoves ==
  ASSUME DeliveryInv, DeliveryInv', ChunksGoForward,
         UNCHANGED <<journal, chunks, imported, files>>
  PROVE  Deliveries!Acknowledge
<1>1. UNCHANGED FatesKnown
  BY SameChunksSameKnown DEF AtRemote, Failed
<1>2. watermark' \in 0..Len(journal)
  <2>1. watermark' \in Nat /\ watermark' <= Len(journal') /\ Len(journal') \in Nat
    BY LenProperties DEF DeliveryInv, PushInv, MarksInv, MemoryInv, MemoryTypeOK
  <2>. QED BY <2>1
<1>3. ASSUME files = <<>>, NEW s \in 1..watermark'
      PROVE  s \in Held(AtRemote) \cup Held(Failed)
  <2>1. Safe(s)'
    BY <1>3 DEF DeliveryInv, CoverInv
  <2>2. Safe(s)
    BY <2>1 DEF Safe, Delivered, Unnoticed, AtRemote
  <2>3. s \in DOMAIN journal
    <3>1. DOMAIN journal = 1..Len(journal) /\ Len(journal) \in Nat
      BY LenProperties DEF DeliveryInv, MemoryInv, MemoryTypeOK
    <3>. QED BY <1>2, <3>1
  <2>. QED BY <2>2, <2>3 DEF Safe, Delivered, Unnoticed, Held, Failed
<1>4. (files # <<>>) \/ 1..watermark' \subseteq Held(AtRemote) \cup Held(Failed)
  BY <1>3
<1>. QED BY <1>1, <1>2, <1>4 DEF FatesKnown, Failed, Deliveries!Acknowledge

\* What a push does.
LEMMA PushDelivers ==
  ASSUME DeliveryInv, DeliveryInv', ChunksGoForward, NEW p \in Pushers, Push(p)
  PROVE  [Deliveries!Next]_(Deliveries!deliveryVars)
<1>1. UNCHANGED <<journal, files, imported>>
  BY DEF Push, export_incremental, GitAdd, GitCommit, GitPush, commit_export_watermark,
         PusherDies, PushStep, memoryVars, pullVars, fileVars
<1>2. chunks \in Seq(Chunk) /\ DOMAIN chunks = 1..Len(chunks) /\ Len(chunks) \in Nat
  BY ChunkFields DEF DeliveryInv, PushInv
<1>3. CASE export_incremental(p)
  <2>1. PICK new : \E lo \in Nat :
          /\ chunks' = chunks \o new /\ new \in Seq(Chunk)
          /\ \A n \in DOMAIN new : new[n].at = "file"
    BY <1>3, ExportedChunks DEF DeliveryInv
  <2>2. /\ Len(new) \in Nat /\ DOMAIN new = 1..Len(new)
        /\ DOMAIN chunks' = 1..(Len(chunks) + Len(new))
        /\ \A n \in DOMAIN chunks : chunks'[n] = chunks[n]
        /\ \A n \in DOMAIN chunks' \ DOMAIN chunks :
             n - Len(chunks) \in DOMAIN new /\ chunks'[n] = new[n - Len(chunks)]
    BY <1>2, <2>1, LenProperties, ConcatProperties
  <2>3. \A n \in DOMAIN chunks' \ DOMAIN chunks : chunks'[n].at = "file"
    BY <2>1, <2>2
  <2>4. AtRemote' = AtRemote
    BY <1>2, <2>2, <2>3 DEF AtRemote
  <2>5. watermark' = watermark
    BY <1>3 DEF export_incremental
  <2>. QED BY <1>1, <2>4, <2>5, NothingDelivered
<1>4. ASSUME chunks' = Failing(push[p].mine), watermark' = watermark
      PROVE  [Deliveries!Next]_(Deliveries!deliveryVars)
  <2>1. AtRemote' = AtRemote
    BY <1>2, <1>4, FailingChunks DEF AtRemote
  <2>. QED BY <1>1, <1>4, <2>1, NothingDelivered
<1>5. ASSUME NEW from, NEW to, chunks' = Moved(from, to), watermark' = watermark
      PROVE  [Deliveries!Next]_(Deliveries!deliveryVars)
  <2>1. /\ DOMAIN chunks' = DOMAIN chunks
        /\ \A n \in DOMAIN chunks : chunks'[n].failed = chunks[n].failed
    <3>1. \A n \in DOMAIN chunks : chunks[n] \in Chunk
      BY ChunkFields DEF DeliveryInv
    <3>2. \A n \in DOMAIN chunks : [chunks[n] EXCEPT !.at = to].failed = chunks[n].failed
      BY <3>1 DEF Chunk
    <3>. QED BY <1>5, <3>2 DEF Moved
  <2>2. Failed' = Failed
    BY <2>1 DEF Failed
  <2>. QED BY <1>1, <1>5, <2>2, NothingFailed
<1>6. ASSUME GitAdd(p), chunks' = [n \in DOMAIN chunks |->
                                     IF n \in push[p].mine THEN [chunks[n] EXCEPT !.at = "index"]
                                     ELSE chunks[n]]
      PROVE  [Deliveries!Next]_(Deliveries!deliveryVars)
  <2>1. \A n \in DOMAIN chunks : chunks[n] \in Chunk
    BY ChunkFields DEF DeliveryInv
  <2>2. \A n \in DOMAIN chunks : [chunks[n] EXCEPT !.at = "index"].failed = chunks[n].failed
    BY <2>1 DEF Chunk
  <2>3. /\ DOMAIN chunks' = DOMAIN chunks
        /\ \A n \in DOMAIN chunks : chunks'[n].failed = chunks[n].failed
    BY <1>6, <2>2
  <2>4. Failed' = Failed
    BY <2>3 DEF Failed
  <2>5. watermark' = watermark
    BY <1>6 DEF GitAdd
  <2>. QED BY <1>1, <2>4, <2>5, NothingFailed
<1>7. CASE chunks' = chunks /\ watermark' = watermark
  <2>1. Failed' = Failed
    BY <1>7 DEF Failed
  <2>. QED BY <1>1, <1>7, <2>1, NothingFailed
<1>8. CASE commit_export_watermark(p)
  <2>1. chunks' = chunks
    BY <1>8 DEF commit_export_watermark
  <2>. QED BY <1>1, <2>1, MarkMoves DEF Deliveries!Next
<1>9. PusherDies(p) => chunks' = chunks /\ watermark' = watermark
  BY DEF PusherDies
<1>. QED BY <1>3, <1>4, <1>5, <1>6, <1>7, <1>8, <1>9 DEF Push, GitAdd, GitCommit, GitPush

\* What a pull does: what it imports is in the clone, and so at the remote.
LEMMA PullReceives ==
  ASSUME DeliveryInv, DeliveryInv', ChunksGoForward, Pull
  PROVE  [Deliveries!Next]_(Deliveries!deliveryVars)
<1>1. UNCHANGED <<journal, chunks, watermark, files>>
  BY DEF Pull, GitPull, ImportChunk, PullerDies, memoryVars, pushVars, fileVars
<1>2. /\ imported \subseteq imported' /\ imported' \subseteq AtRemote
  <2>1. imported \subseteq imported'
    BY DEF Pull, GitPull, ImportChunk, PullerDies
  <2>2. imported' \subseteq AtRemote'
    BY DEF DeliveryInv, PullInv
  <2>. QED BY <1>1, <2>1, <2>2 DEF AtRemote
<1>3. Held(imported) \subseteq Held(imported)' /\ Held(imported)' \subseteq Held(AtRemote)
  BY <1>1, <1>2 DEF Held
<1>4. Held(AtRemote)' = Held(AtRemote) /\ Held(Failed)' = Held(Failed)
  BY <1>1 DEF Held, AtRemote, Failed
<1>5. Deliveries!Receive
  BY <1>1, <1>3, <1>4 DEF Failed, Deliveries!Receive
<1>. QED BY <1>5 DEF Deliveries!Next

\* What sync export and sync import do.
LEMMA FilesShare ==
  ASSUME DeliveryInv, DeliveryInv', ChunksGoForward, File
  PROVE  [Deliveries!Next]_(Deliveries!deliveryVars)
<1>1. UNCHANGED <<journal, chunks, imported>>
  BY DEF File, ExportRead, ExportWrite, ExportWatermark, import_observations, ExportStep,
         memoryVars, pushVars, pullVars
<1>2. ASSUME UNCHANGED files
      PROVE  [Deliveries!Next]_(Deliveries!deliveryVars)
  BY <1>1, <1>2, MarkMoves DEF Deliveries!Next
<1>3. CASE ExportWrite
  <2>1. UNCHANGED FatesKnown
    BY <1>1, SameChunksSameKnown DEF AtRemote, Failed
  <2>2. watermark' = watermark
    BY <1>3 DEF ExportWrite
  <2>3. PICK S : files \in Seq(S)
    BY DEF DeliveryInv, FileInv
  <2>4. PICK r : files' = Append(files, r)
    BY <1>3 DEF ExportWrite
  <2>5. files \in Seq(S \cup {r})
    BY <2>3, SeqDef
  <2>6. files' # <<>>
    BY <2>4, <2>5, AppendProperties
  <2>7. Deliveries!Share
    BY <1>1, <2>1, <2>2, <2>6 DEF FatesKnown, Failed, Deliveries!Share
  <2>. QED BY <2>7 DEF Deliveries!Next
<1>4. ASSUME NEW filter \in Scopes, ExportRead(filter) PROVE UNCHANGED files
  BY <1>4 DEF ExportRead
<1>5. ExportWatermark => UNCHANGED files
  BY DEF ExportWatermark
<1>6. ASSUME NEW n \in DOMAIN files, import_observations(n) PROVE UNCHANGED files
  BY <1>6 DEF import_observations
<1>. QED BY <1>2, <1>3, <1>4, <1>5, <1>6 DEF File

\* Every step of Sync is one of Delivery, or changes nothing there.
LEMMA SyncStepDelivers ==
  DeliveryInv /\ DeliveryInv' /\ [SyncNext]_syncVars
    => [Deliveries!Next]_(Deliveries!deliveryVars)
<1>. SUFFICES ASSUME DeliveryInv, DeliveryInv', [SyncNext]_syncVars
              PROVE  [Deliveries!Next]_(Deliveries!deliveryVars)
  OBVIOUS
<1>1. ChunksGoForward
  BY DeliveryInvKept
<1>2. UNCHANGED syncVars => UNCHANGED <<pushVars, pullVars, fileVars>>
  BY DEF syncVars
<1>. QED BY <1>1, <1>2, WritersWrite, PushDelivers, PullReceives, FilesShare DEF SyncNext

\* At the start the log is empty.
LEMMA NothingIsDelivered == SyncInit => Deliveries!Init
<1>1. DOMAIN <<>> = {}
  BY EmptySeq
<1>. QED BY <1>1 DEF SyncInit, MemoryInit, Held, Deliveries!Init

\* The journal, the chunks, the watermark and the other machine's record of what
\* it has imported are a log delivered at least once, for any number of writers
\* and pushers and any size of chunk: no mutation is rewritten, what is at the
\* remote or imported stays so, nothing is imported that was not delivered, and
\* the watermark moves only over what was delivered, or failed unnoticed at git
\* add or git commit, until sync export moves it, too.
THEOREM SyncRefinesDelivery == SyncSpec => MutationsAreDelivered
<1>1. DeliveryInv /\ [SyncNext]_syncVars => DeliveryInv'
  BY DeliveryInvKept
<1>. QED BY <1>1, DeliveryInvInit, NothingIsDelivered, SyncStepDelivers, PTL
     DEF SyncSpec, MutationsAreDelivered, Deliveries!Spec

-----------------------------------------------------------------------------
(*****************************************************************************)
(* The types of the other machine.  A mutation that is not a deletion has a  *)
(* content, so the rows a pull makes of the journal, and those an import     *)
(* makes of a file, are observations.                                        *)
(*****************************************************************************)

HasContent(m) == m.op # "delete" => m.content # None

ContentInv ==
  /\ \A n \in DOMAIN journal : HasContent(journal[n])
  /\ \A p \in Writers : mop[p].at = "record" => HasContent(mop[p].mutation)

\* What is recorded is appended, and the writer goes on to something else.
LEMMA RecordHasContent ==
  ASSUME MemoryInv, ContentInv, NEW p \in Writers, Record(p)
  PROVE  ContentInv'
<1>1. PICK m : m = mop[p].mutation
  OBVIOUS
<1>2. mop[p].at = "record" /\ journal' = Append(journal, m) /\ Ended(p)
  BY <1>1 DEF Record
<1>3. m \in Mutation /\ journal \in Seq(Mutation) /\ HasContent(m)
  BY <1>1, <1>2 DEF MemoryInv, MemoryTypeOK, MemoryOpOK, ContentInv
<1>4. /\ Len(journal) \in Nat /\ DOMAIN journal = 1..Len(journal)
      /\ DOMAIN journal' = 1..(Len(journal) + 1) /\ journal'[Len(journal) + 1] = m
      /\ \A n \in 1..Len(journal) : journal'[n] = journal[n]
  BY <1>2, <1>3, LenProperties
<1>5. \A n \in DOMAIN journal' : HasContent(journal'[n])
  <2>. SUFFICES ASSUME NEW n \in DOMAIN journal'
                PROVE  HasContent(journal'[n])
    OBVIOUS
  <2>1. n = Len(journal) + 1 \/ n \in 1..Len(journal)
    BY <1>4
  <2>. QED BY <1>3, <1>4, <2>1 DEF ContentInv
<1>6. PICK o : MemoryOpOK(o) /\ MemoryAt(p, o) /\ o.at # "record"
  BY <1>2, EndedOK
<1>7. mop'[p].at # "record" /\ \A q \in Writers : q # p => mop'[q] = mop[q]
  BY <1>6, OperationsStay
<1>8. \A q \in Writers : mop'[q].at = "record" => HasContent(mop'[q].mutation)
  BY <1>7 DEF ContentInv
<1>. QED BY <1>5, <1>8 DEF ContentInv, HasContent

\* A row that was written has a content, or is gone.
LEMMA WriteHasContent ==
  ASSUME MemoryInv, ContentInv, NEW p \in Writers, Writes(p)
  PROVE  ContentInv'
<1>1. PICK i \in Ids, obs \in Observation \cup {NoRow}, m \in Mutation :
        /\ Written(p, Put(rows, i, obs), m) /\ fresh' \subseteq Ids
        /\ IF obs = NoRow THEN m.op = "delete"
           ELSE m.op # "delete" /\ m.content = obs.content /\ m.topic = obs.topic
  BY DEF Writes
<1>2. HasContent(m)
  BY <1>1 DEF HasContent, Observation
<1>3. PICK o : o = [mop[p] EXCEPT !.at = "record", !.mutation = m]
  OBVIOUS
<1>4. MemoryOpOK(mop[p])
  BY DEF MemoryInv
<1>5. MemoryOpOK(o) /\ o.mutation = m
  BY <1>3, <1>4 DEF MemoryOpOK, MemoryOperation
<1>6. MemoryAt(p, o) /\ journal' = journal
  BY <1>1, <1>3 DEF Written
<1>7. mop'[p] = o /\ \A q \in Writers : q # p => mop'[q] = mop[q]
  BY <1>5, <1>6, OperationsStay
<1>8. \A q \in Writers : mop'[q].at = "record" => HasContent(mop'[q].mutation)
  BY <1>2, <1>5, <1>7 DEF ContentInv
<1>. QED BY <1>6, <1>8 DEF ContentInv, HasContent

\* Nothing else records.
LEMMA ContentStays ==
  ASSUME ContentInv, journal' = journal,
         \A q \in Writers : mop'[q] = mop[q] \/ mop'[q].at # "record"
  PROVE  ContentInv'
BY DEF ContentInv, HasContent

LEMMA ContentKept ==
  ASSUME MemoryInv, ContentInv, [SyncNext]_syncVars
  PROVE  ContentInv'
<1>0. ASSUME NEW p \in Writers, journal' = journal,
             \E o : o.at # "record" /\ MemoryOpOK(o) /\ MemoryAt(p, o)
      PROVE  ContentInv'
  <2>1. \A q \in Writers : mop'[q] = mop[q] \/ mop'[q].at # "record"
    BY <1>0, OperationsStay
  <2>. QED BY <1>0, <2>1, ContentStays
<1>1. ASSUME NEW p \in Writers, Step(p)
      PROVE  ContentInv'
  <2>1. CASE RecordLost(p)
    <3>1. journal' = journal /\ Ended(p)
      BY <2>1 DEF RecordLost
    <3>. QED BY <1>0, <3>1, EndedOK
  <2>. QED BY <1>0, <1>1, <2>1, StepShape, WriteHasContent, RecordHasContent
<1>2. ASSUME NEW p \in Writers, Command(p)
      PROVE  ContentInv'
  <2>1. CASE Starts(p)
    BY <1>0, <2>1 DEF Starts
  <2>2. ASSUME UNCHANGED <<journal, mop>>
        PROVE  ContentInv'
    BY <2>2, ContentStays
  <2>. QED BY <1>2, <2>1, <2>2, CommandShape DEF merge_projects, cleanup_old_observations
<1>3. CASE UNCHANGED memoryVars
  BY <1>3, ContentStays DEF memoryVars
<1>. QED BY <1>1, <1>2, <1>3, OnlyWritersWrite

\* The observation a mutation carries.
LEMMA ReceivedIsObservation ==
  ASSUME NEW m \in Mutation, HasContent(m), m.op # "delete"
  PROVE  Received(m) \in Observation
BY DEF Received, HasContent, Observation, Fields, Mutation

LEMMA TablePut ==
  ASSUME NEW store \in MemoryTable, NEW i \in Ids, NEW obs \in Observation \cup {NoRow}
  PROVE  Put(store, i, obs) \in MemoryTable
BY DEF Put, MemoryTable

LEMMA AppliedIsTable ==
  ASSUME NEW store \in MemoryTable, NEW m \in Mutation, HasContent(m)
  PROVE  apply_mutation(store, m) \in MemoryTable
<1>1. m.id \in Ids
  BY DEF Mutation
<1>2. Remove(store, m.id) \in MemoryTable
  <2>1. Remove(store, m.id) = Put(store, m.id, NoRow)
    BY DEF Remove, Put
  <2>. QED BY <1>1, <2>1, TablePut
<1>3. m.op # "delete" => Put(store, m.id, Received(m)) \in MemoryTable
  BY <1>1, ReceivedIsObservation, TablePut
<1>4. \/ apply_mutation(store, m) = store
      \/ m.op = "delete" /\ apply_mutation(store, m) = Remove(store, m.id)
      \/ m.op # "delete" /\ apply_mutation(store, m) = Put(store, m.id, Received(m))
  BY DEF apply_mutation
<1>. QED BY <1>2, <1>3, <1>4

\* So is the table after a part of a chunk.
LEMMA ChunkKeepsTable ==
  ASSUME journal \in Seq(Mutation), ContentInv,
         NEW lo \in Nat \ {0}, NEW hi \in Nat, lo - 1 <= hi, hi <= Len(journal),
         NEW store \in MemoryTable
  PROVE  AppliedUpTo(store, lo, hi) \in MemoryTable
<1>. DEFINE Unfold(f) ==
              [n \in (lo - 1)..hi |->
                 IF n = lo - 1 THEN store ELSE apply_mutation(f[n - 1], journal[n])]
            after == CHOOSE f : f = Unfold(f)
<1>1. Len(journal) \in Nat /\ DOMAIN journal = 1..Len(journal) /\ lo - 1 \in Nat
  BY LenProperties
<1>2. PICK f : /\ f = [n \in (lo - 1)..hi |-> f[n]]
               /\ DoneInSteps("pull", store, lo - 1, hi, f)
  <2>1. hi - (lo - 1) \in Nat /\ (lo - 1) + (hi - (lo - 1)) = hi /\ lo - 1 \in Int
    BY <1>1
  <2>2. PICK d : d = hi - (lo - 1)
    OBVIOUS
  <2>3. PICK a : a = lo - 1
    OBVIOUS
  <2>4. \E f : f = [n \in a..(a + d) |-> f[n]] /\ DoneInSteps("pull", store, a, a + d, f)
    BY <2>1, <2>2, <2>3, StepsExist
  <2>. QED BY <2>1, <2>2, <2>3, <2>4
<1>3. f = Unfold(f)
  BY <1>2 DEF DoneInSteps, Do
<1>4. after = Unfold(after)
  <2>. HIDE DEF Unfold
  <2>. QED BY <1>3
<1>5. \A n \in (lo - 1)..hi :
        after[n] = IF n = lo - 1 THEN store ELSE apply_mutation(after[n - 1], journal[n])
  <2>1. \A g : g = Unfold(g) =>
          \A n \in (lo - 1)..hi :
            g[n] = IF n = lo - 1 THEN store ELSE apply_mutation(g[n - 1], journal[n])
    OBVIOUS
  <2>. HIDE DEF after, Unfold
  <2>. QED BY <1>4, <2>1
<1>6. AppliedUpTo(store, lo, hi) = after[hi]
  BY DEF AppliedUpTo
<1>. HIDE DEF after
<1>. DEFINE S == {n \in (lo - 1)..hi : after[n] \notin MemoryTable}
<1>7. S = {}
  <2>. SUFFICES ASSUME S # {} PROVE FALSE
    OBVIOUS
  <2>1. PICK n \in S : \A l \in S : n <= l
    <3>1. S \in SUBSET Nat
      BY <1>1
    <3>. HIDE DEF S
    <3>. QED BY <3>1, SmallestNumber
  <2>2. n \in (lo - 1)..hi /\ after[n] \notin MemoryTable
    OBVIOUS
  <2>3. CASE n = lo - 1
    BY <1>5, <2>2, <2>3
  <2>4. CASE n # lo - 1
    <3>1. n \in DOMAIN journal /\ n - 1 \in (lo - 1)..hi /\ n - 1 < n
      BY <1>1, <2>2, <2>4
    <3>2. n - 1 \notin S
      <4>. HIDE DEF S
      <4>. QED BY <2>1, <3>1
    <3>3. after[n - 1] \in MemoryTable
      BY <3>1, <3>2
    <3>4. after[n] = apply_mutation(after[n - 1], journal[n])
      BY <1>5, <2>2, <2>4
    <3>5. journal[n] \in Mutation /\ HasContent(journal[n])
      BY <3>1, <1>1, ElementOfSeq DEF ContentInv
    <3>. QED BY <2>2, <3>3, <3>4, <3>5, AppliedIsTable
  <2>. QED BY <2>3, <2>4
<1>8. hi \in (lo - 1)..hi
  BY <1>1
<1>. QED BY <1>6, <1>7, <1>8

-----------------------------------------------------------------------------
\* Importing a batch of a file makes rows of its observations.
LEMMA CreatedIsTable ==
  ASSUME NEW store \in MemoryTable, NEW batch \in SUBSET Exported
  PROVE  Created(store, batch) \in MemoryTable
<1>1. PICK new : new = Created(store, batch)
  OBVIOUS
<1>2. new = [i \in Ids |->
     IF \E x \in batch : x.id = i /\ CanCreate(store, i, x.obs)
     THEN (CHOOSE x \in batch : x.id = i /\ CanCreate(store, i, x.obs)).obs
     ELSE store[i]]
  BY <1>1 DEF Created
<1>3. ASSUME NEW i \in Ids
      PROVE  new[i] \in Observation \cup {NoRow}
  <2>1. CASE \E x \in batch : x.id = i /\ CanCreate(store, i, x.obs)
    <3>1. PICK x : x = CHOOSE y \in batch : y.id = i /\ CanCreate(store, i, y.obs)
      OBVIOUS
    <3>2. x \in batch
      BY <2>1, <3>1
    <3>3. x.obs \in Observation
      BY <3>2 DEF Exported
    <3>. QED BY <1>2, <2>1, <3>1, <3>3
  <2>2. CASE ~ \E x \in batch : x.id = i /\ CanCreate(store, i, x.obs)
    BY <1>2, <2>2 DEF MemoryTable
  <2>. QED BY <2>1, <2>2
<1>. QED BY <1>1, <1>2, <1>3 DEF MemoryTable

\* The batches of a file, by position.
Batch(out, k) == {x \in out : x.pos = k}

\* f imports the batches 0 to n, one after the other.
ImportedInSteps(start, out, n, f) ==
  \A k \in 0..n : f[k] = Created(IF k = 0 THEN start ELSE f[k - 1], Batch(out, k))

\* Such functions exist.
LEMMA ImportsExist ==
  ASSUME NEW start, NEW out, NEW n \in Nat
  PROVE  \E f : f = [k \in 0..n |-> f[k]] /\ ImportedInSteps(start, out, n, f)
<1>. DEFINE Has(j) == \E f : f = [k \in 0..j |-> f[k]] /\ ImportedInSteps(start, out, j, f)
            S == {j \in Nat : ~Has(j)}
<1>1. SUFFICES ASSUME S # {} PROVE FALSE
  OBVIOUS
<1>2. PICK j \in S : \A k \in S : j <= k
  <2>. HIDE DEF S
  <2>1. S \in SUBSET Nat
    BY DEF S
  <2>. QED BY <1>1, <2>1, SmallestNumber
<1>0. j \in Nat /\ ~Has(j)
  OBVIOUS
<1>3. CASE j = 0
  <2>. DEFINE f == [k \in 0..j |-> Created(start, Batch(out, k))]
  <2>1. \A k \in 0..j : k = 0
    BY <1>3
  <2>2. f = [k \in 0..j |-> f[k]] /\ ImportedInSteps(start, out, j, f)
    BY <2>1 DEF ImportedInSteps
  <2>. HIDE DEF f
  <2>. QED BY <1>0, <2>2
<1>4. CASE j # 0
  <2>1. j - 1 \in Nat /\ j - 1 \notin S
    <3>. HIDE DEF S
    <3>. QED BY <1>0, <1>2, <1>4
  <2>2. PICK g : ImportedInSteps(start, out, j - 1, g)
    BY <2>1
  <2>. DEFINE f == [k \in 0..j |->
                      IF k = j THEN Created(g[k - 1], Batch(out, k)) ELSE g[k]]
  <2>3. \A k \in 0..j : f[k] = Created(IF k = 0 THEN start ELSE f[k - 1], Batch(out, k))
    <3>. SUFFICES ASSUME NEW k \in 0..j
                  PROVE  f[k] = Created(IF k = 0 THEN start ELSE f[k - 1], Batch(out, k))
      OBVIOUS
    <3>1. CASE k = j
      <4>1. k # 0 /\ k - 1 \in 0..j /\ k - 1 # j
        BY <1>0, <1>4, <3>1
      <4>. QED BY <3>1, <4>1
    <3>2. CASE k # j
      <4>1. k \in 0..(j - 1) /\ (k # 0 => k - 1 \in 0..j /\ k - 1 # j)
        BY <1>0, <1>4, <3>2
      <4>. QED BY <2>2, <3>2, <4>1 DEF ImportedInSteps
    <3>. QED BY <3>1, <3>2
  <2>4. f = [k \in 0..j |-> f[k]]
    OBVIOUS
  <2>. HIDE DEF f
  <2>. QED BY <1>0, <2>3, <2>4 DEF ImportedInSteps
<1>. QED BY <1>3, <1>4

\* The other machine has a table after the import of a file.
LEMMA ImportKeepsTable ==
  ASSUME copy \in MemoryTable, NEW n \in DOMAIN files, files[n].upto \in Nat,
         files[n].out \subseteq Exported, import_observations(n)
  PROVE  copy' \in MemoryTable
<1>. DEFINE out == files[n].out
            upto == files[n].upto
            Unfold(f) == [k \in 0..upto |->
                            Created(IF k = 0 THEN copy ELSE f[k - 1], Batch(out, k))]
            after == CHOOSE f : f = Unfold(f)
<1>1. copy' = after[upto]
  BY DEF import_observations, Batch
<1>2. PICK f : f = [k \in 0..upto |-> f[k]] /\ ImportedInSteps(copy, out, upto, f)
  BY ImportsExist
<1>3. f = Unfold(f)
  BY <1>2 DEF ImportedInSteps
<1>4. after = Unfold(after)
  <2>. HIDE DEF Unfold
  <2>. QED BY <1>3
<1>5. \A k \in 0..upto : after[k] = Created(IF k = 0 THEN copy ELSE after[k - 1], Batch(out, k))
  <2>1. \A g : g = Unfold(g) =>
          \A k \in 0..upto : g[k] = Created(IF k = 0 THEN copy ELSE g[k - 1], Batch(out, k))
    OBVIOUS
  <2>. HIDE DEF after, Unfold
  <2>. QED BY <1>4, <2>1
<1>. HIDE DEF after
<1>6. \A k : Batch(out, k) \in SUBSET Exported
  BY DEF Batch
<1>7. PICK last \in Nat : last = upto
  OBVIOUS
<1>. DEFINE S == {k \in 0..last : after[k] \notin MemoryTable}
<1>8. S = {}
  <2>. SUFFICES ASSUME S # {} PROVE FALSE
    OBVIOUS
  <2>1. PICK k \in S : \A l \in S : k <= l
    <3>1. S \in SUBSET Nat
      OBVIOUS
    <3>. HIDE DEF S
    <3>. QED BY <3>1, SmallestNumber
  <2>2. k \in 0..last /\ after[k] \notin MemoryTable
    OBVIOUS
  <2>3. PICK before : before = IF k = 0 THEN copy ELSE after[k - 1]
    OBVIOUS
  <2>4. after[k] = Created(before, Batch(out, k))
    BY <1>5, <1>7, <2>2, <2>3
  <2>5. before \in MemoryTable
    <3>1. CASE k = 0
      BY <2>3, <3>1
    <3>2. CASE k # 0
      <4>1. k \in Nat /\ k - 1 \in 0..last /\ k - 1 < k
        BY <2>2, <3>2
      <4>2. k - 1 \notin S
        <5>. HIDE DEF S
        <5>. QED BY <2>1, <4>1
      <4>. QED BY <2>3, <3>2, <4>1, <4>2
    <3>. QED BY <3>1, <3>2
  <2>. QED BY <1>6, <2>2, <2>4, <2>5, CreatedIsTable
<1>9. last \in 0..last
  OBVIOUS
<1>. QED BY <1>1, <1>7, <1>8, <1>9

-----------------------------------------------------------------------------
\* What an export has read, and what it wrote.
CopyTyped ==
  /\ copy \in MemoryTable
  /\ export.at \in {"idle", "write", "watermark"} /\ "at" \in DOMAIN export
  /\ export.out \subseteq Exported
  /\ \A n \in DOMAIN files : files[n].upto \in Nat /\ files[n].out \subseteq Exported
  /\ loaded \subseteq DOMAIN files
  /\ missed \subseteq have

LEMMA DumpedIsExported ==
  ASSUME MemoryInv, NEW filter
  PROVE  Dumped(filter) \subseteq Exported
<1>1. ASSUME NEW x \in Dumped(filter)
      PROVE  x \in Exported
  <2>1. PICK i \in Ids : /\ Stored(rows, i)
                        /\ x = [id |-> i, obs |-> [rows[i] EXCEPT !.title = None], pos |-> 0]
    BY DEF Dumped
  <2>2. rows[i] \in Observation
    BY <2>1 DEF MemoryInv, MemoryTypeOK, MemoryTable, Stored
  <2>3. [rows[i] EXCEPT !.title = None] \in Observation
    BY <2>2 DEF Observation, Fields
  <2>. QED BY <2>1, <2>3 DEF Exported
<1>. QED BY <1>1

LEMMA ReconstructedIsExported ==
  ASSUME MemoryInv, ContentInv, NEW from \in Nat, NEW filter
  PROVE  Reconstructed(from, filter) \subseteq Exported
<1>1. DOMAIN journal = 1..Len(journal) /\ Len(journal) \in Nat /\ journal \in Seq(Mutation)
  BY LenProperties DEF MemoryInv, MemoryTypeOK
<1>2. ASSUME NEW x \in Reconstructed(from, filter)
      PROVE  x \in Exported
  <2>1. PICK e \in Ids \cup Topics : \E S :
          /\ S = {n \in Standing(from, e) : filter = None \/ journal[n].project = filter}
          /\ S # {}
          /\ x = [id |-> journal[Last(S)].id, obs |-> Received(journal[Last(S)]),
                  pos |-> First(S)]
    BY DEF Reconstructed
  <2>2. PICK S : /\ S = {n \in Standing(from, e) : filter = None \/ journal[n].project = filter}
                 /\ S # {}
                 /\ x = [id |-> journal[Last(S)].id, obs |-> Received(journal[Last(S)]),
                         pos |-> First(S)]
    BY <2>1
  <2>3. ASSUME NEW n \in S
        PROVE  n \in DOMAIN journal /\ n \in Nat /\ journal[n].op # "delete"
    <3>1. /\ n \in (from + 1)..Len(journal) /\ journal[n].entity = e
          /\ \A k \in n..Len(journal) : ~(journal[k].entity = e /\ journal[k].op = "delete")
      BY <2>2 DEF Standing
    <3>2. n \in n..Len(journal) /\ n \in 1..Len(journal)
      BY <1>1, <3>1
    <3>. QED BY <1>1, <3>1, <3>2
  <2>4. Last(S) \in S
    <3>1. S \subseteq 1..Len(journal)
      BY <1>1, <2>3
    <3>2. \E v \in S : \A w \in S : w <= v
      BY <1>1, <2>2, <3>1, LargestNumber
    <3>. QED BY <3>2 DEF Last
  <2>5. First(S) \in S
    <3>1. S \in SUBSET Nat
      BY <2>3
    <3>2. \E v \in S : \A w \in S : v <= w
      BY <2>2, <3>1, SmallestNumber
    <3>. QED BY <3>2 DEF First
  <2>6. PICK m : m = journal[Last(S)]
    OBVIOUS
  <2>7. m \in Mutation /\ HasContent(m) /\ m.op # "delete"
    BY <1>1, <2>3, <2>4, <2>6, ElementOfSeq DEF ContentInv
  <2>8. Received(m) \in Observation /\ m.id \in Ids
    BY <2>7, ReceivedIsObservation DEF Mutation
  <2>9. First(S) \in Nat
    BY <2>3, <2>5
  <2>. QED BY <2>2, <2>6, <2>8, <2>9 DEF Exported
<1>. QED BY <1>2

\* A pull makes a table of what it applies.
LEMMA PullKeepsCopy ==
  ASSUME DeliveryInv, ContentInv, CopyTyped, Pull
  PROVE  CopyTyped'
<1>0. /\ DOMAIN chunks = 1..Len(chunks) /\ Len(chunks) \in Nat
      /\ journal \in Seq(Mutation) /\ Len(journal) \in Nat
  BY ChunkFields, LenProperties DEF DeliveryInv, MemoryInv, MemoryTypeOK
<1>1. UNCHANGED <<export, files, loaded>>
  BY DEF Pull, GitPull, ImportChunk, PullerDies, fileVars
<1>2. ASSUME NEW n \in DOMAIN chunks, NEW k \in (chunks[n].lo - 1)..chunks[n].hi
      PROVE  AppliedUpTo(copy, chunks[n].lo, k) \in MemoryTable
  <2>1. /\ chunks[n].lo \in Nat \ {0} /\ chunks[n].hi \in Nat
        /\ chunks[n].hi <= Len(journal)
    BY ChunkFields DEF DeliveryInv, Together
  <2>2. k \in Nat /\ chunks[n].lo - 1 <= k /\ k <= Len(journal)
    BY <1>0, <2>1
  <2>. QED BY <1>0, <2>1, <2>2, ChunkKeepsTable DEF CopyTyped
<1>3. todo # {} => First(todo) \in todo /\ First(todo) \in DOMAIN chunks
  <2>1. todo \subseteq DOMAIN chunks
    BY DEF DeliveryInv, PullInv, AtRemote
  <2>. QED BY <2>1, FirstIsSmallest DEF DeliveryInv
<1>4. CASE GitPull
  <2>1. copy' = copy /\ have' = have \cup AtRemote
        /\ missed' = missed \cup {n \in AtRemote \ have : \E k \in have : n < k}
    BY <1>4 DEF GitPull
  <2>2. missed' \subseteq have'
    BY <2>1 DEF CopyTyped
  <2>. QED BY <1>1, <2>1, <2>2 DEF CopyTyped
<1>5. CASE ImportChunk
  <2>1. PICK n : n = First(todo)
    OBVIOUS
  <2>2. /\ todo # {} /\ copy' = AppliedUpTo(copy, chunks[n].lo, chunks[n].hi)
        /\ have' = have /\ missed' = missed
    BY <1>5, <2>1 DEF ImportChunk
  <2>3. n \in DOMAIN chunks
    BY <1>3, <2>1, <2>2
  <2>4. chunks[n].hi \in (chunks[n].lo - 1)..chunks[n].hi
    <3>1. /\ chunks[n].lo \in Nat /\ chunks[n].hi \in Nat /\ chunks[n].lo <= chunks[n].hi
      BY <2>3, ChunkFields DEF DeliveryInv, Together
    <3>. QED BY <3>1
  <2>5. copy' \in MemoryTable
    BY <1>2, <2>2, <2>3, <2>4
  <2>. QED BY <1>1, <2>2, <2>5 DEF CopyTyped
<1>6. CASE PullerDies
  <2>1. PICK n : n = First(todo)
    OBVIOUS
  <2>2. /\ todo # {} /\ have' = have /\ missed' = missed \cup todo
        /\ \E k \in (chunks[n].lo - 1)..chunks[n].hi : copy' = AppliedUpTo(copy, chunks[n].lo, k)
    BY <1>6, <2>1 DEF PullerDies
  <2>3. n \in DOMAIN chunks
    BY <1>3, <2>1, <2>2
  <2>4. copy' \in MemoryTable
    BY <1>2, <2>2, <2>3
  <2>5. missed' \subseteq have'
    BY <2>2 DEF CopyTyped, DeliveryInv, PullInv
  <2>. QED BY <1>1, <2>2, <2>4, <2>5 DEF CopyTyped
<1>. QED BY <1>4, <1>5, <1>6 DEF Pull

\* So do exports and imports of files.
LEMMA FileKeepsCopy ==
  ASSUME DeliveryInv, ContentInv, CopyTyped, File
  PROVE  CopyTyped'
<1>1. ASSUME NEW filter \in Scopes, ExportRead(filter)
      PROVE  CopyTyped'
  <2>1. PICK out : /\ out = IF watermark = 0 THEN Dumped(filter)
                            ELSE Reconstructed(watermark, filter)
    OBVIOUS
  <2>2. PICK full : full = (watermark = 0)
    OBVIOUS
  <2>3. export' = [at |-> "write", full |-> full, out |-> out, max |-> Len(journal)]
    BY <1>1, <2>1, <2>2 DEF ExportRead, ExportStep
  <2>4. UNCHANGED <<copy, files, loaded, have, missed>>
    BY <1>1 DEF ExportRead, ExportStep, pullVars
  <2>5. out \subseteq Exported
    <3>1. watermark \in Nat
      BY DEF DeliveryInv, PushInv
    <3>. QED BY <2>1, <3>1, DumpedIsExported, ReconstructedIsExported DEF DeliveryInv
  <2>6. export'.at = "write" /\ "at" \in DOMAIN export' /\ export'.out = out
    BY <2>3
  <2>. QED BY <2>4, <2>5, <2>6 DEF CopyTyped
<1>2. CASE ExportWrite
  <2>1. PICK r : r = [upto |-> export.max, full |-> export.full, out |-> export.out]
    OBVIOUS
  <2>2. /\ files' = Append(files, r) /\ export' = [export EXCEPT !.at = "watermark"]
        /\ UNCHANGED <<copy, loaded, have, missed>>
    BY <1>2, <2>1 DEF ExportWrite, ExportStep, pullVars
  <2>3. r.upto \in Nat /\ r.out \subseteq Exported
    BY <2>1 DEF DeliveryInv, FileInv, CopyTyped
  <2>4. PICK S : files \in Seq(S)
    BY DEF DeliveryInv, FileInv
  <2>5. PICK T : T = S \cup {r}
    OBVIOUS
  <2>6. files \in Seq(T) /\ r \in T
    BY <2>4, <2>5, SeqDef
  <2>7. /\ Len(files) \in Nat /\ DOMAIN files = 1..Len(files)
        /\ DOMAIN files' = 1..(Len(files) + 1) /\ files'[Len(files) + 1] = r
        /\ \A n \in 1..Len(files) : files'[n] = files[n]
    BY <2>2, <2>6, LenProperties, AppendProperties
  <2>8. \A n \in DOMAIN files' : files'[n].upto \in Nat /\ files'[n].out \subseteq Exported
    <3>. SUFFICES ASSUME NEW n \in DOMAIN files'
                  PROVE  files'[n].upto \in Nat /\ files'[n].out \subseteq Exported
      OBVIOUS
    <3>1. n = Len(files) + 1 \/ n \in DOMAIN files
      BY <2>7
    <3>. QED BY <2>3, <2>7, <3>1 DEF CopyTyped
  <2>9. loaded' \subseteq DOMAIN files'
    BY <2>2, <2>7 DEF CopyTyped
  <2>10. export'.at = "watermark" /\ "at" \in DOMAIN export' /\ export'.out = export.out
    BY <2>2 DEF CopyTyped
  <2>. QED BY <2>2, <2>8, <2>9, <2>10 DEF CopyTyped
<1>3. CASE ExportWatermark
  <2>1. export' = ExportIdle /\ UNCHANGED <<copy, files, loaded, have, missed>>
    BY <1>3 DEF ExportWatermark, ExportStep, pullVars
  <2>2. export'.at = "idle" /\ "at" \in DOMAIN export' /\ export'.out = {}
    BY <2>1 DEF ExportIdle
  <2>. QED BY <2>1, <2>2 DEF CopyTyped
<1>4. ASSUME NEW n \in DOMAIN files, import_observations(n)
      PROVE  CopyTyped'
  <2>1. copy' \in MemoryTable
    BY <1>4, ImportKeepsTable DEF CopyTyped
  <2>2. UNCHANGED <<export, files, have, missed>> /\ loaded' = loaded \cup {n}
    BY <1>4 DEF import_observations
  <2>. QED BY <2>1, <2>2 DEF CopyTyped
<1>. QED BY <1>1, <1>2, <1>3, <1>4 DEF File

\* What the types rest on, beside the invariant of the refinement.
SyncInv == DeliveryInv /\ ContentInv /\ CopyTyped

LEMMA SyncInvKept ==
  ASSUME SyncInv, [SyncNext]_syncVars
  PROVE  SyncInv'
<1>1. DeliveryInv' /\ ContentInv'
  BY DeliveryInvKept, ContentKept DEF SyncInv, DeliveryInv
<1>2. ASSUME UNCHANGED <<pullVars, fileVars>>
      PROVE  CopyTyped'
  BY <1>2 DEF SyncInv, CopyTyped, pullVars, fileVars
<1>3. ASSUME NEW p \in Pushers, Push(p)
      PROVE  UNCHANGED <<pullVars, fileVars>>
  BY <1>3 DEF Push, export_incremental, GitAdd, GitCommit, GitPush,
              commit_export_watermark, PusherDies, PushStep
<1>4. CopyTyped'
  BY <1>2, <1>3, PullKeepsCopy, FileKeepsCopy DEF SyncInv, SyncNext, syncVars
<1>. QED BY <1>1, <1>4 DEF SyncInv

\* Every reachable state of the store, its clone and the other machine has its
\* type, whatever processes write, push, pull, export and import, and wherever
\* they die.
THEOREM SyncTypeCorrect == SyncSpec => []SyncTypeOK
<1>1. SyncInit => SyncInv
  <2>. SUFFICES ASSUME SyncInit PROVE SyncInv
    OBVIOUS
  <2>1. ContentInv
    <3>1. journal = <<>> /\ \A p \in Writers : mop[p].at = "idle"
      BY MemoryIdleOK DEF SyncInit, MemoryInit
    <3>. QED BY <3>1, EmptySeq DEF ContentInv
  <2>2. copy \in MemoryTable
    BY DEF SyncInit, MemoryTable, EmptyMemory
  <2>3. CopyTyped
    <3>1. DOMAIN files = {}
      BY EmptySeq DEF SyncInit
    <3>2. export.at = "idle" /\ "at" \in DOMAIN export /\ export.out = {}
      BY DEF SyncInit, ExportIdle
    <3>. QED BY <2>2, <3>1, <3>2 DEF CopyTyped, SyncInit
  <2>. QED BY <2>1, <2>3, DeliveryInvInit DEF SyncInv
<1>2. SyncInv /\ [SyncNext]_syncVars => SyncInv'
  BY SyncInvKept
<1>3. SyncInv => SyncTypeOK
  <2>. SUFFICES ASSUME SyncInv PROVE SyncTypeOK
    OBVIOUS
  <2>1. have \subseteq 1..Len(chunks)
    BY ChunkFields DEF SyncInv, DeliveryInv, PullInv, AtRemote
  <2>. QED BY <2>1 DEF SyncInv, DeliveryInv, MemoryInv, PushInv, PullInv, CopyTyped, SyncTypeOK
<1>. QED BY <1>1, <1>2, <1>3, PTL DEF SyncSpec

-----------------------------------------------------------------------------
(*****************************************************************************)
(* Import and export.  What was exported into an empty directory comes out   *)
(* of it, for every table, every choice of notes, every way topics share     *)
(* paths, and any earlier imports that died.                                 *)
(*                                                                           *)
(* ImportKeepsNotes is not inductive: it says nothing before the import is   *)
(* over.  While it runs, a note is still in a file that is to come, or it is *)
(* settled; and a later file does not undo that, because it has another      *)
(* topic, and a row is only found by its topic.                              *)
(*****************************************************************************)

NoteTable == [Notes -> Store!Observation \cup {Store!NoRow}]

ImportTypeOK ==
  /\ import \in [at : {"idle", "file", "done"}, to : Machines \cup {None},
                 files : SUBSET DOMAIN vault, known : SUBSET Notes,
                 override : NoteProjects \cup {None}, skipped : SUBSET Notes,
                 passed : SUBSET DOMAIN vault, errors : SUBSET DOMAIN vault]
  /\ import.at # "idle" => import.to \in Machines

VaultTypes ==
  /\ notes \in [Machines -> NoteTable]
  /\ unused \subseteq Notes
  /\ \A path \in DOMAIN vault : path \in Paths /\ vault[path] \in Note
  /\ exported \subseteq Note
  /\ ImportTypeOK

\* A row of the notes' table, field by field.
NoteRow(c, h, t, p) ==
  [content |-> c, title |-> h, topic |-> t, project |-> p, key |-> None]

LEMMA NoteFields ==
  /\ NoteTable = Store!MemoryTable
  /\ \A row \in Store!Observation :
       /\ row.content \in Texts /\ row.title \in AllTitles \cup {None}
       /\ row.topic \in AllTopics \cup {None}
       /\ row.project \in NoteProjects \cup {None} /\ row.key = None
       /\ row # Store!NoRow
  /\ Store!NoRow.topic = None
  /\ \A c \in Texts, h \in AllTitles \cup {None}, t \in AllTopics \cup {None},
        p \in NoteProjects \cup {None} : NoteRow(c, h, t, p) \in Store!Observation
<1>1. NoteTable = Store!MemoryTable
  BY DEF NoteTable, Store!MemoryTable
<1>2. Store!NoRow.topic = None /\ Store!NoRow.content = None
  BY DEF Store!NoRow
<1>3. ASSUME NEW row \in Store!Observation
      PROVE  /\ row.content \in Texts /\ row.title \in AllTitles \cup {None}
             /\ row.topic \in AllTopics \cup {None}
             /\ row.project \in NoteProjects \cup {None} /\ row.key = None
             /\ row.content # None
  BY <1>3 DEF Store!Observation, Store!Fields
<1>4. ASSUME NEW c \in Texts, NEW h \in AllTitles \cup {None}, NEW t \in AllTopics \cup {None},
             NEW p \in NoteProjects \cup {None}
      PROVE  NoteRow(c, h, t, p) \in Store!Observation
  <2>1. c # None
    BY VaultAssumption
  <2>. QED BY <2>1 DEF NoteRow, Store!Observation, Store!Fields
<1>5. \A row \in Store!Observation : row # Store!NoRow
  BY <1>2, <1>3
<1>. QED BY <1>1, <1>2, <1>3, <1>4, <1>5

LEMMA NotePut ==
  ASSUME NEW noteTable \in NoteTable, NEW i \in Notes, NEW obs \in Store!Observation \cup {Store!NoRow}
  PROVE  /\ Store!Put(noteTable, i, obs) \in NoteTable
         /\ Store!Put(noteTable, i, obs)[i] = obs
         /\ \A j \in Notes : j # i => Store!Put(noteTable, i, obs)[j] = noteTable[j]
BY DEF Store!Put, NoteTable

LEMMA NoteRemoved ==
  ASSUME NEW noteTable \in NoteTable, NEW i \in Notes
  PROVE  Store!Remove(noteTable, i) \in NoteTable
BY DEF Store!Remove, NoteTable

\* A save puts the observation into one row: a new one, or one of its topic.
LEMMA SavedRow ==
  ASSUME NEW noteTable \in NoteTable, unused \subseteq Notes,
         NEW obs \in Store!Observation, NEW new \in SavedInto(noteTable, obs)
  PROVE  \E i \in Notes :
           /\ new = Store!Put(noteTable, i, obs)
           /\ \/ noteTable[i] = Store!NoRow
              \/ noteTable[i].topic = obs.topic /\ obs.topic # None
<1>1. CASE obs.topic # None /\ Store!get_by_topic_key(noteTable, obs.topic, obs.project) # {}
  <2>1. PICK i \in Store!UpsertTargets(noteTable, obs.topic, obs.project) : new = Store!Put(noteTable, i, obs)
    BY <1>1 DEF SavedInto
  <2>2. i \in Store!OfTopic(noteTable, obs.topic)
    BY <2>1 DEF Store!UpsertTargets, Store!InProject
  <2>. QED BY <1>1, <2>1, <2>2 DEF Store!OfTopic
<1>2. CASE ~(obs.topic # None /\ Store!get_by_topic_key(noteTable, obs.topic, obs.project) # {})
  <2>1. PICK i \in unused : new = Store!Put(noteTable, i, obs) /\ Store!CanCreate(noteTable, i, obs)
    BY <1>2 DEF SavedInto
  <2>. QED BY <2>1 DEF Store!CanCreate, Store!Stored
<1>. QED BY <1>1, <1>2

LEMMA SaveKeepsTypes ==
  ASSUME VaultTypes, NEW m \in Machines, NEW obs \in Store!Observation, SaveNote(m, obs)
  PROVE  /\ notes' \in [Machines -> NoteTable] /\ unused' \subseteq Notes
         /\ \A k \in Machines : k # m => notes'[k] = notes[k]
         /\ \E i \in Notes :
              /\ notes'[m] = Store!Put(notes[m], i, obs)
              /\ \/ notes[m][i] = Store!NoRow
                 \/ notes[m][i].topic = obs.topic /\ obs.topic # None
<1>1. PICK noteTable \in SavedInto(notes[m], obs) :
        notes' = [notes EXCEPT ![m] = noteTable] /\ unused' = {i \in unused : ~Store!Stored(noteTable, i)}
  BY DEF SaveNote
<1>2. notes \in [Machines -> NoteTable] /\ unused \subseteq Notes
  BY DEF VaultTypes
<1>3. PICK i \in Notes : /\ noteTable = Store!Put(notes[m], i, obs)
                         /\ \/ notes[m][i] = Store!NoRow
                            \/ notes[m][i].topic = obs.topic /\ obs.topic # None
  BY <1>2, SavedRow
<1>4. noteTable \in NoteTable
  BY <1>2, <1>3, NotePut
<1>. QED BY <1>1, <1>2, <1>3, <1>4

-----------------------------------------------------------------------------
(* The invariant *)

\* A row with what the file of the note would save.
IsIn(noteTable, note) ==
  \E i \in Notes :
    /\ noteTable[i] # Store!NoRow
    /\ noteTable[i].content = Stripped[note.obs.content]
    /\ noteTable[i].title = Heading(note)
    /\ noteTable[i].topic = note.obs.topic
    /\ noteTable[i].project = IF import.override # None THEN import.override ELSE note.obs.project

Exempt(note) ==
  \/ note.obs.topic = None \/ SharedTopic(note)
  \/ note.id \in import.skipped
  \/ \E path \in import.passed \cup import.errors : vault[path] = note

\* Before there is a vault, no topic is the path of an orphan.
BeforeExport ==
  vault = <<>> =>
    /\ exported = {} /\ import.at = "idle"
    /\ \A m \in Machines, i \in Notes : notes[m][i].topic \in NoteTopics \cup {None}

\* The vault of one export has its notes, and no others.
VaultIsExport ==
  exported # {} =>
    /\ \A note \in exported : note.obs.topic \in NoteTopics \cup {None}
    /\ \A note \in exported : \E path \in DOMAIN vault : vault[path] = note
    /\ \A path \in DOMAIN vault : vault[path] \in exported

\* An exported note is settled, or its file is still to come.
NotesSettled ==
  import.at # "idle" =>
    \A note \in exported :
      \/ Exempt(note) \/ IsIn(notes[import.to], note)
      \/ \E path \in import.files : vault[path] = note

VaultInv ==
  /\ VaultTypes /\ BeforeExport /\ VaultIsExport /\ NotesSettled
  /\ import.at = "done" => import.files = {}

\* No import is under way: what it may have been is forgotten.
LEMMA NoImportTypes ==
  ASSUME import' = NoImport
  PROVE  ImportTypeOK' /\ import'.at = "idle" /\ NotesSettled'
<1>1. import' \in [at : {"idle", "file", "done"}, to : Machines \cup {None},
                 files : SUBSET DOMAIN vault', known : SUBSET Notes,
                 override : NoteProjects \cup {None}, skipped : SUBSET Notes,
                 passed : SUBSET DOMAIN vault', errors : SUBSET DOMAIN vault']
  BY DEF NoImport
<1>2. import'.at = "idle" /\ import'.override = None /\ import'.files = {} /\ import'.errors = {}
      /\ import'.passed = {}
      /\ import'.known = {} /\ import'.skipped = {}
  BY DEF NoImport
<1>. QED BY <1>1, <1>2 DEF ImportTypeOK, NotesSettled

-----------------------------------------------------------------------------
(* The steps *)

LEMMA VaultStarts == VaultInit => VaultInv
<1>. SUFFICES ASSUME VaultInit PROVE VaultInv
  OBVIOUS
<1>1. notes = [m \in Machines |-> [i \in Notes |-> Store!NoRow]]
      /\ unused = Notes /\ vault = <<>> /\ exported = {} /\ import = NoImport
  BY DEF VaultInit, Store!EmptyMemory
<1>2. DOMAIN vault = {}
  BY <1>1
<1>3. ImportTypeOK /\ import.at = "idle"
  BY <1>1 DEF ImportTypeOK, NoImport
<1>4. notes \in [Machines -> NoteTable]
  BY <1>1 DEF NoteTable
<1>5. \A m \in Machines, i \in Notes : notes[m][i].topic \in NoteTopics \cup {None}
  BY <1>1, NoteFields
<1>. QED BY <1>1, <1>2, <1>3, <1>4, <1>5
      DEF VaultInv, VaultTypes, BeforeExport, VaultIsExport, NotesSettled

LEMMA SaveHereStep ==
  ASSUME VaultInv, SaveHere
  PROVE  VaultInv'
<1>1. VaultTypes /\ BeforeExport /\ VaultIsExport
  BY DEF VaultInv
<1>2. PICK text \in Texts, title \in NoteTitles \cup {None}, topic \in NoteTopics \cup {None},
           project \in NoteProjects \cup {None} :
        SaveNote("here", NoteRow(text, title, topic, project))
  BY DEF SaveHere, NoteRow
<1>3. import' = NoImport /\ UNCHANGED <<vault, exported>>
  BY DEF SaveHere
<1>. DEFINE obs == NoteRow(text, title, topic, project)
<1>4. obs \in Store!Observation
  BY NoteFields DEF AllTopics, AllTitles
<1>5. obs.topic \in NoteTopics \cup {None}
  BY DEF NoteRow
<1>. HIDE DEF obs
<1>6. "here" \in Machines /\ SaveNote("here", obs)
  BY <1>2 DEF Machines, obs
<1>7. /\ notes' \in [Machines -> NoteTable] /\ unused' \subseteq Notes
      /\ \A k \in Machines : k # "here" => notes'[k] = notes[k]
  BY <1>1, <1>4, <1>6, SaveKeepsTypes
<1>8. PICK i \in Notes : notes'["here"] = Store!Put(notes["here"], i, obs)
  BY <1>1, <1>4, <1>6, SaveKeepsTypes
<1>9. notes["here"] \in NoteTable
  BY <1>1, <1>6 DEF VaultTypes
<1>10. ImportTypeOK' /\ import'.at = "idle" /\ NotesSettled'
  BY <1>3, NoImportTypes
<1>11. VaultTypes'
  BY <1>1, <1>3, <1>7, <1>10 DEF VaultTypes
<1>12. BeforeExport'
  <2>. SUFFICES ASSUME vault' = <<>>, NEW m \in Machines, NEW j \in Notes
                PROVE  notes'[m][j].topic \in NoteTopics \cup {None}
    BY <1>1, <1>3, <1>10 DEF BeforeExport
  <2>1. notes[m][j].topic \in NoteTopics \cup {None}
    BY <1>1, <1>3 DEF BeforeExport
  <2>2. CASE m # "here"
    BY <1>3, <1>7, <2>1, <2>2
  <2>3. CASE m = "here"
    <3>1. notes'["here"][i] = obs /\ \A k \in Notes : k # i => notes'["here"][k] = notes["here"][k]
      BY <1>4, <1>8, <1>9, NotePut
    <3>. QED BY <1>3, <1>5, <2>1, <2>3, <3>1
  <2>. QED BY <2>2, <2>3
<1>13. VaultIsExport'
  BY <1>1, <1>3 DEF VaultIsExport
<1>. QED BY <1>10, <1>11, <1>12, <1>13 DEF VaultInv

LEMMA DeleteHereStep ==
  ASSUME VaultInv, DeleteHere
  PROVE  VaultInv'
<1>1. VaultTypes /\ BeforeExport /\ VaultIsExport
  BY DEF VaultInv
<1>2. PICK i \in Notes : notes' = [notes EXCEPT !["here"] = Store!Remove(notes["here"], i)]
  BY DEF DeleteHere, Kept
<1>3. import' = NoImport /\ UNCHANGED <<unused, vault, exported>>
  BY DEF DeleteHere
<1>4. "here" \in Machines /\ notes["here"] \in NoteTable /\ notes \in [Machines -> NoteTable]
  BY <1>1 DEF Machines, VaultTypes
<1>5. /\ notes' \in [Machines -> NoteTable]
      /\ \A m \in Machines : m # "here" => notes'[m] = notes[m]
      /\ notes'["here"] = Store!Remove(notes["here"], i)
  BY <1>2, <1>4, NoteRemoved
<1>6. ImportTypeOK' /\ import'.at = "idle" /\ NotesSettled'
  BY <1>3, NoImportTypes
<1>7. VaultTypes'
  BY <1>1, <1>3, <1>5, <1>6 DEF VaultTypes
<1>8. BeforeExport'
  <2>. SUFFICES ASSUME vault' = <<>>, NEW m \in Machines, NEW j \in Notes
                PROVE  notes'[m][j].topic \in NoteTopics \cup {None}
    BY <1>1, <1>3, <1>6 DEF BeforeExport
  <2>1. notes[m][j].topic \in NoteTopics \cup {None}
    BY <1>1, <1>3 DEF BeforeExport
  <2>2. CASE m # "here"
    BY <1>3, <1>5, <2>1, <2>2
  <2>3. CASE m = "here"
    <3>1. notes'["here"][j] = Store!NoRow \/ notes'["here"][j] = notes["here"][j]
      BY <1>4, <1>5 DEF Store!Remove, NoteTable
    <3>. QED BY <1>3, <2>1, <2>3, <3>1, NoteFields
  <2>. QED BY <2>2, <2>3
<1>9. VaultIsExport'
  BY <1>1, <1>3 DEF VaultIsExport
<1>. QED BY <1>6, <1>7, <1>8, <1>9 DEF VaultInv

LEMMA ImportBegins ==
  ASSUME VaultInv, NEW m \in Machines, NEW override \in NoteProjects \cup {None},
         NEW skip \in BOOLEAN, import_obsidian(m, override, skip)
  PROVE  VaultInv'
<1>1. VaultTypes /\ BeforeExport /\ VaultIsExport
  BY DEF VaultInv
<1>2. /\ vault # <<>> /\ UNCHANGED <<notes, unused, vault, exported>>
      /\ import' = [NoImport EXCEPT !.at = "file", !.to = m, !.files = DOMAIN vault,
                                !.known = IF skip THEN Kept(m) ELSE {}, !.override = override]
  BY DEF import_obsidian
<1>3. Kept(m) \subseteq Notes
  BY DEF Kept
<1>4. import' = [at |-> "file", to |-> m, files |-> DOMAIN vault,
                 known |-> IF skip THEN Kept(m) ELSE {}, override |-> override, skipped |-> {},
                 passed |-> {}, errors |-> {}]
  BY <1>2 DEF NoImport
<1>5. ImportTypeOK' /\ import'.at = "file" /\ import'.files = DOMAIN vault
  <2>1. vault' = vault /\ m \in Machines /\ override \in NoteProjects \cup {None}
        /\ (IF skip THEN Kept(m) ELSE {}) \in SUBSET Notes
    BY <1>2, <1>3
  <2>. QED BY <1>4, <2>1 DEF ImportTypeOK
<1>6. VaultTypes'
  BY <1>1, <1>2, <1>5 DEF VaultTypes
<1>7. BeforeExport' /\ VaultIsExport'
  BY <1>1, <1>2 DEF BeforeExport, VaultIsExport
<1>8. NotesSettled'
  BY <1>1, <1>2, <1>5 DEF NotesSettled, VaultIsExport
<1>. QED BY <1>5, <1>6, <1>7, <1>8 DEF VaultInv

LEMMA ImportOver ==
  ASSUME VaultInv, ImportEnds \/ ImportDies
  PROVE  VaultInv'
<1>1. VaultTypes /\ BeforeExport /\ VaultIsExport /\ NotesSettled /\ ImportTypeOK
  BY DEF VaultInv, VaultTypes
<1>2. UNCHANGED <<notes, unused, vault, exported>> /\ import.at = "file"
  BY DEF ImportEnds, ImportDies
<1>3. VaultIsExport' /\ (ImportTypeOK' => VaultTypes')
  BY <1>1, <1>2 DEF VaultIsExport, VaultTypes
<1>4. CASE ImportDies
  <2>1. ImportTypeOK' /\ import'.at = "idle" /\ NotesSettled'
    BY <1>4, NoImportTypes DEF ImportDies
  <2>. QED BY <1>1, <1>2, <1>3, <2>1 DEF VaultInv, BeforeExport
<1>5. CASE ImportEnds
  <2>1. import' = [import EXCEPT !.at = "done"] /\ import.files = {}
    BY <1>5 DEF ImportEnds
  <2>2. /\ import'.at = "done" /\ import'.to = import.to /\ import'.files = import.files
        /\ import'.skipped = import.skipped /\ import'.errors = import.errors
        /\ import'.passed = import.passed /\ import'.override = import.override
    BY <1>1, <2>1 DEF ImportTypeOK
  <2>3. ImportTypeOK'
    BY <1>1, <1>2, <2>1 DEF ImportTypeOK
  <2>4. NotesSettled'
    BY <1>1, <1>2, <2>2 DEF NotesSettled, Exempt, IsIn, SharedTopic
  <2>5. BeforeExport'
    BY <1>1, <1>2 DEF BeforeExport
  <2>. QED BY <1>3, <2>1, <2>2, <2>3, <2>4, <2>5 DEF VaultInv
<1>. QED BY <1>4, <1>5

-----------------------------------------------------------------------------
(* The paths of an export *)

\* The path a chosen note gets.
Placed(i, first) ==
  IF i \in first THEN PathOf(i, notes["here"][i]) ELSE <<StemOf(notes["here"][i]), i>>

SavedNote(i) == [id |-> i, obs |-> notes["here"][i]]

\* Two notes never get one path: the first of a path has it, and all others
\* have their id in theirs.
LEMMA PathsDiffer ==
  ASSUME NEW chosen \in SUBSET Kept("here"), NEW first \in SUBSET chosen,
         \A i, j \in first : PathOf(i, notes["here"][i]) = PathOf(j, notes["here"][j]) => i = j,
         \A i \in chosen : \E j \in first : PathOf(j, notes["here"][j]) = PathOf(i, notes["here"][i]),
         NEW i \in chosen, NEW j \in chosen, Placed(i, first) = Placed(j, first)
  PROVE  i = j
<1>1. Notes \subseteq Nat /\ None \notin Notes /\ chosen \subseteq Notes
  BY VaultAssumption DEF Kept
<1>2. ASSUME NEW k \in chosen, notes["here"][k].topic = None
      PROVE  k \in first
  <2>1. PICK f \in first : PathOf(f, notes["here"][f]) = PathOf(k, notes["here"][k])
    OBVIOUS
  <2>2. f \in Notes /\ f # None /\ k # None
    BY <1>1
  <2>. QED BY <1>2, <2>1, <2>2 DEF PathOf
<1>3. CASE i \in first /\ j \in first
  BY <1>3 DEF Placed
<1>4. CASE i \notin first /\ j \notin first
  BY <1>4 DEF Placed
<1>5. ASSUME NEW k \in chosen, NEW f \in first, k \notin first, Placed(k, first) = Placed(f, first)
      PROVE  k = f
  <2>1. k # None /\ f # None
    BY <1>1
  <2>. QED BY <1>5, <2>1 DEF Placed, PathOf
<1>. QED BY <1>3, <1>4, <1>5

\* The files of an export are its notes, at paths of theirs.
LEMMA ExportedFiles ==
  ASSUME VaultTypes, NEW chosen \in SUBSET Kept("here"), NEW first \in SUBSET chosen,
         \A i, j \in first : PathOf(i, notes["here"][i]) = PathOf(j, notes["here"][j]) => i = j,
         \A i \in chosen : \E j \in first : PathOf(j, notes["here"][j]) = PathOf(i, notes["here"][i])
  PROVE  /\ DOMAIN Export(chosen, first) = {Placed(i, first) : i \in chosen}
         /\ \A i \in chosen : Export(chosen, first)[Placed(i, first)] = SavedNote(i)
         /\ \A i \in chosen : SavedNote(i) \in Note /\ Placed(i, first) \in Paths
<1>1. Export(chosen, first) =
        [p \in {Placed(i, first) : i \in chosen} |->
           SavedNote(CHOOSE j \in chosen : Placed(j, first) = p)]
  BY DEF Export, Placed, SavedNote
<1>2. DOMAIN Export(chosen, first) = {Placed(i, first) : i \in chosen}
  BY <1>1
<1>3. ASSUME NEW i \in chosen
      PROVE  Export(chosen, first)[Placed(i, first)] = SavedNote(i)
  <2>1. (CHOOSE j \in chosen : Placed(j, first) = Placed(i, first)) = i
    <3>1. \A j \in chosen : Placed(j, first) = Placed(i, first) => j = i
      BY PathsDiffer
    <3>. QED BY <3>1
  <2>. QED BY <1>1, <2>1
<1>4. ASSUME NEW i \in chosen
      PROVE  SavedNote(i) \in Note /\ Placed(i, first) \in Paths
  <2>1. i \in Notes /\ notes["here"][i] \in Store!Observation
    <3>1. i \in Notes /\ notes["here"][i] # Store!NoRow
      BY DEF Kept, Store!Stored
    <3>. QED BY <3>1 DEF VaultTypes, NoteTable, Machines
  <2>2. notes["here"][i].topic \in NoteTopics \cup Notes \cup {None}
    BY <2>1, NoteFields DEF AllTopics
  <2>3. StemOf(notes["here"][i]) \in {Stem[t] : t \in NoteTopics} \cup {None} \cup Notes
    BY <2>2 DEF StemOf
  <2>4. Placed(i, first) \in Paths
    BY <2>1, <2>3 DEF Placed, PathOf, Paths
  <2>. QED BY <2>1, <2>4 DEF SavedNote, Note
<1>. QED BY <1>2, <1>3, <1>4

LEMMA VaultExportStep ==
  ASSUME VaultInv, export_obsidian
  PROVE  VaultInv'
<1>1. VaultTypes /\ BeforeExport /\ VaultIsExport
  BY DEF VaultInv
<1>2. PICK chosen \in (SUBSET Kept("here")) \ {{}}, first \in SUBSET Kept("here") :
        /\ first \subseteq chosen
        /\ \A i \in chosen : \E j \in first : PathOf(j, notes["here"][j]) = PathOf(i, notes["here"][i])
        /\ \A i, j \in first : PathOf(i, notes["here"][i]) = PathOf(j, notes["here"][j]) => i = j
        /\ vault' = [p \in DOMAIN vault \cup DOMAIN Export(chosen, first) |->
                       IF p \in DOMAIN Export(chosen, first) THEN Export(chosen, first)[p]
                       ELSE vault[p]]
        /\ exported' = IF vault = <<>> THEN {SavedNote(i) : i \in chosen} ELSE {}
  BY DEF export_obsidian, SavedNote
<1>3. import' = NoImport /\ UNCHANGED <<notes, unused>>
  BY DEF export_obsidian
<1>. DEFINE written == Export(chosen, first)
<1>4. /\ DOMAIN written = {Placed(i, first) : i \in chosen}
      /\ \A i \in chosen : written[Placed(i, first)] = SavedNote(i)
      /\ \A i \in chosen : SavedNote(i) \in Note /\ Placed(i, first) \in Paths
  BY <1>1, <1>2, ExportedFiles
<1>5. vault' = [p \in DOMAIN vault \cup DOMAIN written |->
                  IF p \in DOMAIN written THEN written[p] ELSE vault[p]]
  BY <1>2
<1>. HIDE DEF written
<1>6. PICK one \in chosen : TRUE
  <2>1. chosen # {}
    BY <1>2
  <2>. QED BY <2>1
<1>7. ImportTypeOK' /\ import'.at = "idle" /\ NotesSettled'
  BY <1>3, NoImportTypes
<1>8. vault' # <<>>
  <2>1. Placed(one, first) \in DOMAIN vault'
    BY <1>4, <1>5
  <2>. QED BY <2>1
<1>9. exported' \subseteq Note
  BY <1>2, <1>4
<1>10. \A path \in DOMAIN vault' : path \in Paths /\ vault'[path] \in Note
  BY <1>1, <1>4, <1>5 DEF VaultTypes
<1>11. VaultTypes'
  BY <1>1, <1>3, <1>7, <1>9, <1>10 DEF VaultTypes
<1>12. VaultIsExport'
  <2>. SUFFICES ASSUME exported' # {} PROVE VaultIsExport'
    BY DEF VaultIsExport
  <2>1. vault = <<>> /\ exported' = {SavedNote(i) : i \in chosen}
    BY <1>2
  <2>2. DOMAIN vault' = DOMAIN written /\ \A p \in DOMAIN written : vault'[p] = written[p]
    BY <1>5, <2>1
  <2>3. \A i \in chosen : notes["here"][i].topic \in NoteTopics \cup {None}
    BY <1>1, <2>1 DEF BeforeExport, Kept, Machines
  <2>4. \A note \in exported' : note.obs.topic \in NoteTopics \cup {None}
    BY <2>1, <2>3 DEF SavedNote
  <2>5. \A note \in exported' : \E path \in DOMAIN vault' : vault'[path] = note
    BY <1>4, <2>1, <2>2
  <2>6. \A path \in DOMAIN vault' : vault'[path] \in exported'
    BY <1>4, <2>1, <2>2
  <2>. QED BY <2>4, <2>5, <2>6 DEF VaultIsExport
<1>. QED BY <1>7, <1>8, <1>11, <1>12 DEF VaultInv, BeforeExport

-----------------------------------------------------------------------------
(* One file *)

\* What a file saves, unless its content is blank, and as what it can be found
\* again.
LEMMA ImportedFields ==
  ASSUME VaultInv, import.at = "file", NEW path \in DOMAIN vault
  PROVE  /\ vault[path] \in Note
         /\ Imported(path).content # None => Imported(path) \in Store!Observation
         /\ Imported(path).content = Stripped[vault[path].obs.content]
         /\ Imported(path).title = Heading(vault[path])
         /\ Imported(path).topic # None
         /\ IF vault[path].obs.topic = None THEN Imported(path).topic \in Notes
            ELSE Imported(path).topic = vault[path].obs.topic
         /\ Imported(path).project = IF import.override # None THEN import.override
                                     ELSE vault[path].obs.project
<1>. DEFINE note == vault[path]
<1>1. note \in Note /\ import.override \in NoteProjects \cup {None}
  BY DEF VaultInv, VaultTypes, ImportTypeOK
<1>2. /\ note.id \in Notes /\ note.obs \in Store!Observation
      /\ note.obs \in [content : Texts \cup {None}, title : AllTitles \cup {None},
                       topic : AllTopics \cup {None},
                       project : NoteProjects \cup {None}, key : {} \cup {None}]
  BY <1>1 DEF Note, Store!Observation, Store!Fields
<1>3. /\ note.obs.content \in Texts /\ note.obs.title \in AllTitles \cup {None}
      /\ note.obs.topic \in AllTopics \cup {None}
      /\ note.obs.project \in NoteProjects \cup {None} /\ note.obs.key = None
  BY <1>2, NoteFields
<1>. DEFINE content == Stripped[note.obs.content]
            title == Heading(note)
            topic == IF note.obs.topic = None THEN note.id ELSE note.obs.topic
            project == IF import.override # None THEN import.override ELSE note.obs.project
<1>4. Imported(path) = NoteRow(content, title, topic, project)
  <2>1. PICK c, h, t, p : note.obs = NoteRow(c, h, t, p)
    BY <1>2, <1>3 DEF NoteRow
  <2>2. Imported(path) = [note.obs EXCEPT !.content = content, !.title = title,
                                          !.topic = topic, !.project = project]
    BY DEF Imported
  <2>. HIDE DEF note, content, title, topic, project
  <2>3. Imported(path) = [[content |-> c, title |-> h, topic |-> t, project |-> p, key |-> None]
                            EXCEPT !.content = content, !.title = title,
                                   !.topic = topic, !.project = project]
    BY <2>1, <2>2, Zenon DEF NoteRow
  <2>. QED BY <2>3 DEF NoteRow
<1>5. note.id # None /\ note.id \in AllTopics
  BY <1>2, VaultAssumption DEF AllTopics
<1>6. topic \in AllTopics \cup {None} /\ topic # None /\ project \in NoteProjects \cup {None}
  BY <1>1, <1>3, <1>5
<1>7. content \in Texts \cup {None} /\ title \in AllTitles \cup {None}
  BY <1>3, <1>5, VaultAssumption DEF Heading, AllTitles
<1>. HIDE DEF note, content, title, topic, project
<1>8. /\ Imported(path).content = content /\ Imported(path).title = title
      /\ Imported(path).topic = topic /\ Imported(path).project = project
  BY <1>4 DEF NoteRow
<1>9. Imported(path).content # None => Imported(path) \in Store!Observation
  <2>. SUFFICES ASSUME Imported(path).content # None PROVE Imported(path) \in Store!Observation
    OBVIOUS
  <2>1. content \in Texts
    BY <1>7, <1>8
  <2>. QED BY <1>4, <1>6, <1>7, <2>1, NoteFields
<1>. QED BY <1>1, <1>2, <1>6, <1>8, <1>9 DEF note, content, title, topic, project

\* A row of a topic that no other exported note has stays, whatever the next
\* file saves.
LEMMA NoteSettledStays ==
  ASSUME VaultInv, NEW path \in import.files, import.at = "file",
         SaveNote(import.to, Imported(path)), Imported(path).content # None, NEW note \in exported,
         note.obs.topic # None, ~SharedTopic(note), IsIn(notes[import.to], note)
  PROVE  IsIn(notes'[import.to], note)
<1>1. VaultTypes /\ import.to \in Machines /\ path \in DOMAIN vault
  BY DEF VaultInv, VaultTypes, ImportTypeOK
<1>. DEFINE noteTable == notes[import.to]
            obs == Imported(path)
            original == vault[path]
<1>2. /\ obs \in Store!Observation /\ obs.content = Stripped[original.obs.content]
      /\ obs.title = Heading(original) /\ obs.topic # None
      /\ IF original.obs.topic = None THEN obs.topic \in Notes
         ELSE obs.topic = original.obs.topic
      /\ obs.project = IF import.override # None THEN import.override ELSE original.obs.project
  BY <1>1, ImportedFields
<1>3. original \in exported /\ note.obs.topic \in NoteTopics
  BY <1>1 DEF VaultInv, VaultIsExport
<1>4. PICK i \in Notes :
        /\ notes'[import.to] = Store!Put(noteTable, i, obs)
        /\ noteTable[i] = Store!NoRow \/ noteTable[i].topic = obs.topic
  BY <1>1, <1>2, SaveKeepsTypes
<1>5. noteTable \in NoteTable
  BY <1>1 DEF VaultTypes
<1>. HIDE DEF noteTable, obs, original
<1>6. /\ notes'[import.to][i] = obs
      /\ \A j \in Notes : j # i => notes'[import.to][j] = noteTable[j]
  BY <1>2, <1>4, <1>5, NotePut
<1>7. PICK k \in Notes :
        /\ noteTable[k] # Store!NoRow
        /\ noteTable[k].content = Stripped[note.obs.content]
        /\ noteTable[k].title = Heading(note) /\ noteTable[k].topic = note.obs.topic
        /\ noteTable[k].project = IF import.override # None THEN import.override ELSE note.obs.project
  BY DEF IsIn, noteTable
<1>8. CASE k # i
  BY <1>6, <1>7, <1>8 DEF IsIn
<1>9. CASE k = i
  <2>1. obs.topic = note.obs.topic
    BY <1>4, <1>7, <1>9
  <2>2. original.obs.topic = note.obs.topic
    <3>1. obs.topic \notin Notes
      BY <1>3, <2>1, VaultAssumption
    <3>. QED BY <1>2, <2>1, <3>1
  <2>3. original = note
    BY <1>3, <2>2 DEF SharedTopic
  <2>. QED BY <1>2, <1>6, <2>2, <2>3, NoteFields DEF IsIn
<1>. QED BY <1>8, <1>9

LEMMA ImportFileStep ==
  ASSUME VaultInv, NEW path \in DOMAIN vault, ImportFile(path) \/ PassFile(path)
  PROVE  VaultInv'
<1>1. /\ VaultTypes /\ BeforeExport /\ VaultIsExport /\ NotesSettled /\ ImportTypeOK
      /\ import.to \in Machines
  BY DEF VaultInv, VaultTypes, ImportTypeOK, ImportFile, PassFile
<1>2. /\ import.at = "file" /\ path \in import.files /\ UNCHANGED <<vault, exported>>
      /\ vault # <<>>
  BY <1>1 DEF ImportFile, PassFile, NextFile, BeforeExport
<1>3. /\ vault[path] \in Note
      /\ Imported(path).content # None => Imported(path) \in Store!Observation
  BY <1>2, ImportedFields
<1>4. BeforeExport' /\ VaultIsExport'
  BY <1>1, <1>2 DEF BeforeExport, VaultIsExport
<1>. DEFINE Outcome(s, p, x) ==
        /\ import' = [import EXCEPT !.files = import.files \ {path}, !.skipped = s,
                                    !.passed = p, !.errors = x]
        /\ import.skipped \subseteq s /\ import.passed \cup import.errors \subseteq p \cup x
        /\ \/ vault[path].id \in s /\ UNCHANGED <<notes, unused>>
           \/ path \in p \cup x /\ UNCHANGED <<notes, unused>>
           \/ SaveNote(import.to, Imported(path)) /\ Imported(path).content # None
<1>5. PICK skipped \in SUBSET Notes, passed \in SUBSET DOMAIN vault,
           errors \in SUBSET DOMAIN vault : Outcome(skipped, passed, errors)
  <2>1. /\ import.skipped \in SUBSET Notes /\ import.errors \in SUBSET DOMAIN vault
        /\ import.passed \in SUBSET DOMAIN vault /\ vault[path].id \in Notes
    BY <1>1, <1>3 DEF ImportTypeOK, Note
  <2>2. CASE PassFile(path)
    <3>1. /\ import' = [import EXCEPT !.files = import.files \ {path},
                                      !.passed = import.passed \cup {path}]
          /\ UNCHANGED <<notes, unused>>
      BY <2>2 DEF PassFile
    <3>2. import' = [import EXCEPT !.files = import.files \ {path},
                                   !.skipped = import.skipped,
                                   !.passed = import.passed \cup {path},
                                   !.errors = import.errors]
      BY <1>1, <3>1 DEF ImportTypeOK
    <3>3. /\ import.passed \cup {path} \in SUBSET DOMAIN vault
          /\ path \in (import.passed \cup {path}) \cup import.errors
          /\ import.passed \cup import.errors \subseteq (import.passed \cup {path}) \cup import.errors
      BY <2>1
    <3>4. UNCHANGED <<notes, unused>>
      BY <3>1
    <3>5. Outcome(import.skipped, import.passed \cup {path}, import.errors)
      BY <3>2, <3>3, <3>4
    <3>. HIDE DEF Outcome
    <3>. QED BY <2>1, <3>3, <3>5
  <2>3. CASE ImportFile(path) /\ vault[path].id \in import.known
    <3>1. /\ import' = [import EXCEPT !.files = import.files \ {path},
                                      !.skipped = import.skipped \cup {vault[path].id}]
          /\ UNCHANGED <<notes, unused>>
      BY <2>3 DEF ImportFile
    <3>2. import' = [import EXCEPT !.files = import.files \ {path},
                                   !.skipped = import.skipped \cup {vault[path].id},
                                   !.passed = import.passed,
                                   !.errors = import.errors]
      BY <1>1, <3>1 DEF ImportTypeOK
    <3>3. import.skipped \cup {vault[path].id} \in SUBSET Notes
      BY <2>1
    <3>. QED BY <2>1, <3>1, <3>2, <3>3
  <2>. DEFINE Errs == \/ Imported(path).content = None
                      \/ SavedInto(notes[import.to], Imported(path)) = {}
  <2>4. CASE ImportFile(path) /\ vault[path].id \notin import.known /\ Errs
    <3>1. /\ import' = [import EXCEPT !.files = import.files \ {path},
                                      !.errors = import.errors \cup {path}]
          /\ UNCHANGED <<notes, unused>>
      BY <2>4 DEF ImportFile
    <3>2. import' = [import EXCEPT !.files = import.files \ {path},
                                   !.skipped = import.skipped,
                                   !.passed = import.passed,
                                   !.errors = import.errors \cup {path}]
      BY <1>1, <3>1 DEF ImportTypeOK
    <3>3. import.errors \cup {path} \in SUBSET DOMAIN vault /\ path \in import.errors \cup {path}
          /\ import.passed \cup import.errors \subseteq import.passed \cup (import.errors \cup {path})
          /\ path \in import.passed \cup (import.errors \cup {path})
      BY <2>1
    <3>4. UNCHANGED <<notes, unused>>
      BY <3>1
    <3>5. Outcome(import.skipped, import.passed, import.errors \cup {path})
      BY <3>2, <3>3, <3>4
    <3>. HIDE DEF Outcome
    <3>. QED BY <2>1, <3>3, <3>5
  <2>5. CASE ImportFile(path) /\ vault[path].id \notin import.known /\ ~Errs
    <3>1. /\ import' = [import EXCEPT !.files = import.files \ {path}]
          /\ SaveNote(import.to, Imported(path)) /\ Imported(path).content # None
      BY <2>5 DEF ImportFile
    <3>2. import' = [import EXCEPT !.files = import.files \ {path}, !.skipped = import.skipped,
                                   !.passed = import.passed, !.errors = import.errors]
      BY <1>1, <3>1 DEF ImportTypeOK
    <3>. QED BY <2>1, <3>1, <3>2
  <2>. QED BY <2>2, <2>3, <2>4, <2>5
<1>6. /\ import'.at = "file" /\ import'.to = import.to /\ import'.override = import.override
      /\ import'.files = import.files \ {path} /\ import'.skipped = skipped
      /\ import'.passed = passed /\ import'.errors = errors
      /\ ImportTypeOK'
  <2>1. /\ import'.at = "file" /\ import'.to = import.to /\ import'.override = import.override
        /\ import'.files = import.files \ {path} /\ import'.skipped = skipped
        /\ import'.passed = passed /\ import'.errors = errors
    BY <1>1, <1>2, <1>5 DEF ImportTypeOK
  <2>2. import.files \ {path} \in SUBSET DOMAIN vault' /\ errors \in SUBSET DOMAIN vault'
        /\ passed \in SUBSET DOMAIN vault' /\ skipped \in SUBSET Notes
    BY <1>1, <1>2 DEF ImportTypeOK
  <2>3. import' \in [at : {"idle", "file", "done"}, to : Machines \cup {None},
                 files : SUBSET DOMAIN vault', known : SUBSET Notes,
                 override : NoteProjects \cup {None}, skipped : SUBSET Notes,
                 passed : SUBSET DOMAIN vault', errors : SUBSET DOMAIN vault']
    BY <1>1, <1>2, <1>5, <2>2 DEF ImportTypeOK
  <2>. QED BY <1>1, <2>1, <2>3 DEF ImportTypeOK
<1>7. VaultTypes'
  <2>1. notes' \in [Machines -> NoteTable] /\ unused' \subseteq Notes
    BY <1>1, <1>3, <1>5, SaveKeepsTypes DEF VaultTypes
  <2>. QED BY <1>1, <1>2, <1>6, <2>1 DEF VaultTypes
<1>8. ASSUME NEW note \in exported,
             ~(\E other \in import'.files : vault[other] = note),
             note.obs.topic # None, ~SharedTopic(note), note.id \notin skipped,
             ~(\E other \in passed \cup errors : vault[other] = note)
      PROVE  IsIn(notes'[import.to], note)
  <2>1. CASE vault[path] = note
    <3>1. SaveNote(import.to, Imported(path)) /\ Imported(path).content # None
      BY <1>5, <1>8, <2>1
    <3>2. Imported(path) \in Store!Observation
      BY <1>3, <3>1
    <3>3. PICK i \in Notes : notes'[import.to] = Store!Put(notes[import.to], i, Imported(path))
      BY <1>1, <3>1, <3>2, SaveKeepsTypes
    <3>4. notes'[import.to][i] = Imported(path)
      BY <1>1, <3>2, <3>3, NotePut DEF VaultTypes
    <3>5. /\ Imported(path).content = Stripped[note.obs.content]
          /\ Imported(path).title = Heading(note) /\ Imported(path).topic = note.obs.topic
          /\ Imported(path).project = IF import.override # None THEN import.override
                                      ELSE note.obs.project
      BY <1>2, <1>8, <2>1, ImportedFields
    <3>. QED BY <3>2, <3>4, <3>5, NoteFields DEF IsIn
  <2>2. CASE vault[path] # note
    <3>1. ~(\E other \in import.files : vault[other] = note)
      BY <1>6, <1>8, <2>2
    <3>2. IsIn(notes[import.to], note)
      BY <1>1, <1>2, <1>5, <1>8, <3>1 DEF NotesSettled, Exempt
    <3>. QED BY <1>2, <1>5, <1>8, <3>2, NoteSettledStays
  <2>. QED BY <2>1, <2>2
<1>9. NotesSettled'
  <2>. SUFFICES ASSUME NEW note \in exported,
                       ~(\E other \in import'.files : vault[other] = note),
                       note.obs.topic # None, ~SharedTopic(note), note.id \notin skipped,
                       ~(\E other \in passed \cup errors : vault[other] = note)
                PROVE  IsIn(notes'[import.to], note)
    BY <1>2, <1>6 DEF NotesSettled, Exempt, SharedTopic, IsIn
  <2>. QED BY <1>8
<1>. QED BY <1>4, <1>6, <1>7, <1>9 DEF VaultInv

-----------------------------------------------------------------------------
(* The theorems *)

LEMMA VaultStep == VaultInv /\ [VaultNext]_vaultVars => VaultInv'
<1>. SUFFICES ASSUME VaultInv, [VaultNext]_vaultVars PROVE VaultInv'
  OBVIOUS
<1>1. CASE SaveHere
  BY <1>1, SaveHereStep
<1>2. CASE DeleteHere
  BY <1>2, DeleteHereStep
<1>3. CASE export_obsidian
  BY <1>3, VaultExportStep
<1>4. CASE Importing
  BY <1>4, ImportBegins, ImportFileStep, ImportOver DEF Importing
<1>5. CASE ImportFails
  BY <1>5, ImportFileStep, ImportOver DEF ImportFails
<1>6. CASE UNCHANGED vaultVars
  BY <1>6 DEF vaultVars, VaultInv, VaultTypes, ImportTypeOK, BeforeExport, VaultIsExport, NotesSettled,
     Exempt, IsIn, SharedTopic
<1>. QED BY <1>1, <1>2, <1>3, <1>4, <1>5, <1>6 DEF VaultNext

LEMMA VaultAlways == VaultSpec => []VaultInv
BY VaultStarts, VaultStep, PTL DEF VaultSpec

\* The tables, the vault and the import keep their types.
THEOREM VaultTypeCorrect == VaultSpec => []VaultTypeOK
<1>1. VaultInv => VaultTypeOK
  BY NoteFields DEF VaultInv, VaultTypes, ImportTypeOK, VaultTypeOK
<1>. QED BY <1>1, VaultAlways, PTL

\* What was exported into an empty directory and imported is in the table: its
\* content stripped, its heading as the title, with the exemptions of the
\* property, for any set of notes, of topics and of paths, whatever stripping
\* does, any number of exports and imports, and any table to begin with.
THEOREM ExportedNotesAreImported == VaultSpec => []ImportKeepsNotes
<1>1. VaultInv => ImportKeepsNotes
  <2>. SUFFICES ASSUME VaultInv, import.at = "done", NEW note \in exported,
                       ~(note.obs.topic = None \/ SharedTopic(note)),
                       note.id \notin import.skipped,
                       ~\E path \in import.passed \cup import.errors : vault[path] = note
                PROVE  \E i \in Kept(import.to) :
                         /\ notes[import.to][i].content = Stripped[note.obs.content]
                         /\ notes[import.to][i].title = Heading(note)
                         /\ notes[import.to][i].topic = note.obs.topic
                         /\ notes[import.to][i].project =
                              IF import.override # None THEN import.override ELSE note.obs.project
    BY DEF ImportKeepsNotes
  <2>1. IsIn(notes[import.to], note)
    BY DEF VaultInv, NotesSettled, Exempt
  <2>. QED BY <2>1 DEF IsIn, Kept, Store!Stored
<1>. QED BY <1>1, VaultAlways, PTL

-----------------------------------------------------------------------------
(*****************************************************************************)
(* Diff.  What memory diff lists turns the reference into the target, for    *)
(* every table, window, pair of sessions and project filter.                 *)
(*                                                                           *)
(* The heart of it is a lemma about two functions, EntriesPatch; the         *)
(* invariant says that the last answer was made of the two sides it names.   *)
(*****************************************************************************)

IsSide(side) == \E S : side \in [S -> DiffContents]

Changed(old, new) == {k \in DOMAIN old \cap DOMAIN new : old[k] # new[k]}

\* The entries that set a key: those that added or modified it.
LEMMA SetOfEntries ==
  ASSUME NEW old, NEW new
  PROVE  Set(Entries(old, new)) =
           {EntryAdded(new, k) : k \in DOMAIN new \ DOMAIN old}
             \cup {EntryModified(old, new, k) : k \in Changed(old, new)}
<1> DEFINE A == {EntryAdded(new, k) : k \in DOMAIN new \ DOMAIN old}
           R == {EntryRemoved(old, k) : k \in DOMAIN old \ DOMAIN new}
           M == {EntryModified(old, new, k) : k \in Changed(old, new)}
<1>1. Entries(old, new) = A \cup R \cup M
  BY DEF Entries, Changed
<1>2. /\ \A e \in A : e.status = "added"
      /\ \A e \in R : e.status = "removed"
      /\ \A e \in M : e.status = "modified"
  <2>1. \A e \in A : e.status = "added"
    BY DEF EntryAdded
  <2>2. \A e \in R : e.status = "removed"
    BY DEF EntryRemoved
  <2>3. \A e \in M : e.status = "modified"
    BY DEF EntryModified
  <2>. QED BY <2>1, <2>2, <2>3
<1> HIDE DEF A, R, M
<1>3. Set(A \cup R \cup M) = A \cup M
  BY <1>2 DEF Set
<1>4. Set(Entries(old, new)) = A \cup M
  BY <1>1, <1>3
<1>. QED BY <1>4 DEF A, M

LEMMA UnsetOfEntries ==
  ASSUME NEW old, NEW new
  PROVE  Unset(Entries(old, new)) = {EntryRemoved(old, k) : k \in DOMAIN old \ DOMAIN new}
<1> DEFINE A == {EntryAdded(new, k) : k \in DOMAIN new \ DOMAIN old}
           R == {EntryRemoved(old, k) : k \in DOMAIN old \ DOMAIN new}
           M == {EntryModified(old, new, k) : k \in Changed(old, new)}
<1>1. Entries(old, new) = A \cup R \cup M /\ Set(Entries(old, new)) = A \cup M
  BY SetOfEntries DEF Entries, Changed
<1>2. /\ \A e \in A : e.status = "added"
      /\ \A e \in R : e.status = "removed"
      /\ \A e \in M : e.status = "modified"
  <2>1. \A e \in A : e.status = "added"
    BY DEF EntryAdded
  <2>2. \A e \in R : e.status = "removed"
    BY DEF EntryRemoved
  <2>3. \A e \in M : e.status = "modified"
    BY DEF EntryModified
  <2>. QED BY <2>1, <2>2, <2>3
<1> HIDE DEF A, R, M
<1>3. (A \cup R \cup M) \ (A \cup M) = R
  BY <1>2
<1>4. Unset(Entries(old, new)) = R
  BY <1>1, <1>3 DEF Unset
<1>. QED BY <1>4 DEF R

LEMMA KeysOfSet ==
  ASSUME NEW old, NEW new
  PROVE  KeysOf(Set(Entries(old, new))) = (DOMAIN new \ DOMAIN old) \cup Changed(old, new)
<1>1. ASSUME NEW k \in (DOMAIN new \ DOMAIN old) \cup Changed(old, new)
      PROVE  k \in KeysOf(Set(Entries(old, new)))
  <2>1. CASE k \in DOMAIN new \ DOMAIN old
    <3>1. EntryAdded(new, k) \in {EntryAdded(new, m) : m \in DOMAIN new \ DOMAIN old}
      BY <2>1
    <3>2. EntryAdded(new, k) \in Set(Entries(old, new))
      BY <3>1, SetOfEntries
    <3>3. EntryAdded(new, k).key = k
      BY DEF EntryAdded
    <3>. QED BY <3>2, <3>3 DEF KeysOf
  <2>2. CASE k \in Changed(old, new)
    <3>1. EntryModified(old, new, k) \in {EntryModified(old, new, m) : m \in Changed(old, new)}
      BY <2>2
    <3>2. EntryModified(old, new, k) \in Set(Entries(old, new))
      BY <3>1, SetOfEntries
    <3>3. EntryModified(old, new, k).key = k
      BY DEF EntryModified
    <3>. QED BY <3>2, <3>3 DEF KeysOf
  <2>. QED BY <1>1, <2>1, <2>2
<1>2. ASSUME NEW k \in KeysOf(Set(Entries(old, new)))
      PROVE  k \in (DOMAIN new \ DOMAIN old) \cup Changed(old, new)
  <2>1. PICK e \in Set(Entries(old, new)) : k = e.key
    BY DEF KeysOf
  <2>2. CASE e \in {EntryAdded(new, m) : m \in DOMAIN new \ DOMAIN old}
    BY <2>1, <2>2 DEF EntryAdded
  <2>3. CASE e \in {EntryModified(old, new, m) : m \in Changed(old, new)}
    BY <2>1, <2>3 DEF EntryModified
  <2>4. Set(Entries(old, new)) =
          {EntryAdded(new, m) : m \in DOMAIN new \ DOMAIN old}
            \cup {EntryModified(old, new, m) : m \in Changed(old, new)}
    BY SetOfEntries
  <2>. QED BY <2>1, <2>2, <2>3, <2>4
<1>. QED BY <1>1, <1>2

LEMMA KeysOfUnset ==
  ASSUME NEW old, NEW new
  PROVE  KeysOf(Unset(Entries(old, new))) = DOMAIN old \ DOMAIN new
<1>1. KeysOf({EntryRemoved(old, k) : k \in DOMAIN old \ DOMAIN new}) = DOMAIN old \ DOMAIN new
  <2>1. \A k \in DOMAIN old \ DOMAIN new : EntryRemoved(old, k).key = k
    BY DEF EntryRemoved
  <2>. QED BY <2>1 DEF KeysOf
<1>. QED BY <1>1, UnsetOfEntries

\* An entry that sets a key carries the content of the target.
LEMMA ContentOfSet ==
  ASSUME NEW old, NEW new, NEW e \in Set(Entries(old, new))
  PROVE  e.content = new[e.key]
<1>1. CASE e \in {EntryAdded(new, m) : m \in DOMAIN new \ DOMAIN old}
  BY <1>1 DEF EntryAdded
<1>2. CASE e \in {EntryModified(old, new, m) : m \in Changed(old, new)}
  BY <1>2 DEF EntryModified
<1>. QED BY <1>1, <1>2, SetOfEntries

\* The entries of two sides patch one into the other.
LEMMA EntriesPatch ==
  ASSUME NEW old, NEW new, IsSide(new)
  PROVE  Patched(old, Entries(old, new)) = new
<1> DEFINE edits == Entries(old, new)
           keys == (DOMAIN old \ KeysOf(Unset(edits))) \cup KeysOf(Set(edits))
           EntryAt(k) == IF k \in KeysOf(Set(edits))
                         THEN (CHOOSE e \in Set(edits) : e.key = k).content
                         ELSE old[k]
<1>1. keys = DOMAIN new
  <2>1. KeysOf(Set(edits)) = (DOMAIN new \ DOMAIN old) \cup Changed(old, new)
    BY KeysOfSet
  <2>2. KeysOf(Unset(edits)) = DOMAIN old \ DOMAIN new
    BY KeysOfUnset
  <2> HIDE DEF edits
  <2>. QED BY <2>1, <2>2 DEF Changed
<1>2. ASSUME NEW k \in DOMAIN new
      PROVE  EntryAt(k) = new[k]
  <2>1. CASE k \in KeysOf(Set(edits))
    <3>1. \E e \in Set(edits) : e.key = k
      BY <2>1 DEF KeysOf
    <3> DEFINE e == CHOOSE e \in Set(edits) : e.key = k
    <3>2. e \in Set(edits) /\ e.key = k
      BY <3>1
    <3>3. e.content = new[k]
      BY <3>2, ContentOfSet
    <3>. QED BY <2>1, <3>3
  <2>2. CASE k \notin KeysOf(Set(edits))
    <3>1. k \in DOMAIN old /\ k \notin Changed(old, new)
      BY <1>2, <2>2, KeysOfSet
    <3>. QED BY <1>2, <2>2, <3>1 DEF Changed
  <2>. QED BY <2>1, <2>2
<1>3. Patched(old, edits) = [k \in keys |-> EntryAt(k)]
  BY DEF Patched
<1> HIDE DEF keys, EntryAt
<1>4. [k \in keys |-> EntryAt(k)] = [k \in DOMAIN new |-> new[k]]
  BY <1>1, <1>2
<1>5. new = [k \in DOMAIN new |-> new[k]]
  BY DEF IsSide
<1>. QED BY <1>3, <1>4, <1>5 DEF edits

-----------------------------------------------------------------------------

\* The contents are those of rows: a side is a function.
LEMMA ContentsAreASide ==
  ASSUME NEW someRows \in SUBSET RowsIn, table \in Tables, NEW side \in Maps(someRows)
  PROVE  IsSide(ContentsOf(side))
<1>1. side \in [{Key(i) : i \in someRows} -> someRows]
  BY DEF Maps
<1>2. \A k \in DOMAIN side : table[side[k]].content \in DiffContents
  BY <1>1 DEF RowsIn, Tables, Row
<1>3. ContentsOf(side) \in [DOMAIN side -> DiffContents]
  BY <1>2 DEF ContentsOf
<1>. QED BY <1>3 DEF IsSide

DiffInv ==
  /\ table \in Tables
  /\ diff.mode \in {"timestamp", "session"} =>
       /\ diff.entries = Entries(diff.reference, diff.target)
       /\ IsSide(diff.target)

LEMMA DiffInitEstablishes == DiffInit => DiffInv
BY DEF DiffInit, DiffInv, NoDiff

LEMMA CompareKeeps ==
  ASSUME DiffInv, NEW mode, NEW reference, NEW target \in SUBSET RowsIn, NEW project,
         Compare(mode, reference, target, project)
  PROVE  DiffInv'
<1>1. Passing(target, project) \in SUBSET RowsIn
  BY DEF Passing
<1>2. PICK old \in Maps(Passing(reference, project)), new \in Maps(Passing(target, project)) :
        /\ diff' = [mode |-> mode, reference |-> ContentsOf(old), target |-> ContentsOf(new),
                    entries |-> Entries(ContentsOf(old), ContentsOf(new))]
        /\ UNCHANGED table
  BY DEF Compare
<1>3. IsSide(ContentsOf(new))
  BY <1>1, ContentsAreASide DEF DiffInv
<1>4. diff'.entries = Entries(diff'.reference, diff'.target) /\ IsSide(diff'.target)
  BY <1>2, <1>3
<1>. QED BY <1>2, <1>4 DEF DiffInv, IsSide, Entries, EntryAdded, EntryRemoved, EntryModified

LEMMA DiffNextKeeps ==
  ASSUME DiffInv, DiffNext
  PROVE  DiffInv'
<1>1. ASSUME NEW before, NEW after, NEW project, diff_by_timestamp(before, after, project)
      PROVE  DiffInv'
  <2>1. Between(before + 1, after) \in SUBSET RowsIn
    BY DEF Between
  <2>. QED BY <1>1, <2>1, CompareKeeps DEF diff_by_timestamp
<1>2. ASSUME NEW a, NEW b, NEW project, diff_by_session(a, b, project)
      PROVE  DiffInv'
  <2>1. OfSession(b) \in SUBSET RowsIn
    BY DEF OfSession
  <2>. QED BY <1>2, <2>1, CompareKeeps DEF diff_by_session
<1>3. ASSUME NEW i, NEW j, diff_by_id(i, j)
      PROVE  DiffInv'
  <2>1. diff'.mode = "id" /\ table' = table
    BY <1>3 DEF diff_by_id
  <2>. QED BY <2>1 DEF DiffInv, Tables
<1>. QED BY <1>1, <1>2, <1>3 DEF DiffNext

\* DiffService: the listed entries, and the silence about the other keys,
\* are the whole difference of the two sides that were compared.
THEOREM DiffsPatch == DiffSpec => []DiffPatches
<1>1. DiffInv /\ [DiffNext]_diffVars => DiffInv'
  BY DiffNextKeeps DEF DiffInv, diffVars
<1>2. DiffInv => DiffPatches
  BY EntriesPatch DEF DiffInv, DiffPatches
<1>. QED BY DiffInitEstablishes, <1>1, <1>2, PTL DEF DiffSpec

-----------------------------------------------------------------------------
(* The types of a diff *)

\* The content of each key, which is a topic or what an id begins with, or of an
\* id.
KeyedOK(side) == \A k \in DOMAIN side : k \in Prefixes \cup DiffTopics /\ side[k] \in DiffContents

SideOK(side) ==
  \A k \in DOMAIN side : k \in RowIds \cup Prefixes \cup DiffTopics /\ side[k] \in DiffContents

LEMMA RowsAreRows ==
  ASSUME table \in Tables, NEW i \in RowsIn
  PROVE  i \in RowIds /\ table[i] \in Row /\ Key(i) \in Prefixes \cup DiffTopics
<1>1. i \in RowIds /\ table[i] \in Row
  BY DEF Tables, RowsIn
<1>2. table[i].topic \in DiffTopics \cup {None} /\ table[i].prefix \in Prefixes
  BY <1>1 DEF Row
<1>. QED BY <1>1, <1>2 DEF Key

LEMMA MapsAreSides ==
  ASSUME table \in Tables, NEW someRows \in SUBSET RowsIn, NEW side \in Maps(someRows)
  PROVE  KeyedOK(ContentsOf(side))
<1>1. side \in [{Key(i) : i \in someRows} -> someRows]
  BY DEF Maps
<1>2. ASSUME NEW k \in DOMAIN ContentsOf(side)
      PROVE  k \in Prefixes \cup DiffTopics /\ ContentsOf(side)[k] \in DiffContents
  <2>1. k \in DOMAIN side /\ ContentsOf(side)[k] = table[side[k]].content
    BY <1>2 DEF ContentsOf
  <2>2. side[k] \in RowsIn /\ \E i \in RowsIn : k = Key(i)
    BY <1>1, <2>1
  <2>3. table[side[k]] \in Row
    BY <2>2, RowsAreRows
  <2>. QED BY <2>1, <2>2, <2>3, RowsAreRows DEF Row
<1>. QED BY <1>2 DEF KeyedOK

LEMMA EntriesOfSides ==
  ASSUME NEW old, NEW new, KeyedOK(old), KeyedOK(new)
  PROVE  Entries(old, new) \subseteq DiffEntry
<1>1. ASSUME NEW k \in DOMAIN new PROVE EntryAdded(new, k) \in DiffEntry
  BY <1>1 DEF KeyedOK, EntryAdded, DiffEntry
<1>2. ASSUME NEW k \in DOMAIN old PROVE EntryRemoved(old, k) \in DiffEntry
  BY <1>2 DEF KeyedOK, EntryRemoved, DiffEntry
<1>3. ASSUME NEW k \in DOMAIN old \cap DOMAIN new PROVE EntryModified(old, new, k) \in DiffEntry
  BY <1>3 DEF KeyedOK, EntryModified, DiffEntry
<1>. QED BY <1>1, <1>2, <1>3 DEF Entries

DiffTypes ==
  /\ table \in Tables
  /\ diff.mode \in {"none", "timestamp", "session", "id"}
  /\ SideOK(diff.reference) /\ SideOK(diff.target)
  /\ diff.mode # "id" => diff.entries \subseteq DiffEntry

LEMMA ComparedTypes ==
  ASSUME table \in Tables, NEW mode \in {"timestamp", "session"},
         NEW reference \in SUBSET RowsIn, NEW target \in SUBSET RowsIn, NEW project,
         Compare(mode, reference, target, project)
  PROVE  DiffTypes'
<1>1. Passing(reference, project) \in SUBSET RowsIn /\ Passing(target, project) \in SUBSET RowsIn
  BY DEF Passing
<1>2. PICK old \in Maps(Passing(reference, project)), new \in Maps(Passing(target, project)) :
        /\ diff' = [mode |-> mode, reference |-> ContentsOf(old), target |-> ContentsOf(new),
                    entries |-> Entries(ContentsOf(old), ContentsOf(new))]
        /\ table' = table
  BY DEF Compare
<1>3. KeyedOK(ContentsOf(old)) /\ KeyedOK(ContentsOf(new))
  BY <1>1, <1>2, MapsAreSides
<1>4. Entries(ContentsOf(old), ContentsOf(new)) \subseteq DiffEntry
  BY <1>3, EntriesOfSides
<1>5. PICK from, to, list :
        from = ContentsOf(old) /\ to = ContentsOf(new) /\ list = Entries(ContentsOf(old), ContentsOf(new))
  OBVIOUS
<1>6. diff' = [mode |-> mode, reference |-> from, target |-> to, entries |-> list]
  BY <1>2, <1>5
<1>7. SideOK(from) /\ SideOK(to) /\ list \subseteq DiffEntry
  BY <1>3, <1>4, <1>5 DEF KeyedOK, SideOK
<1>8. diff'.mode = mode /\ diff'.reference = from /\ diff'.target = to /\ diff'.entries = list
  BY <1>6
<1>9. DiffEntry' = DiffEntry /\ table' \in Tables
  BY <1>2 DEF DiffEntry
<1>. QED BY <1>7, <1>8, <1>9 DEF DiffTypes, SideOK

LEMMA DiffTypesStart == DiffInit => DiffTypes
<1>1. DOMAIN <<>> = {}
  BY EmptySeq
<1>. QED BY <1>1 DEF DiffInit, NoDiff, DiffTypes, SideOK

LEMMA DiffTypesKept == DiffTypes /\ [DiffNext]_diffVars => DiffTypes'
<1>. SUFFICES ASSUME DiffTypes, [DiffNext]_diffVars PROVE DiffTypes'
  OBVIOUS
<1>0. table \in Tables
  BY DEF DiffTypes
<1>1. CASE UNCHANGED diffVars
  BY <1>1 DEF diffVars, DiffTypes, SideOK
<1>2. ASSUME NEW project, NEW before \in 0..MaxTime, NEW after \in 0..MaxTime,
             diff_by_timestamp(before, after, project)
      PROVE  DiffTypes'
  <2>1. \A from, to : Between(from, to) \in SUBSET RowsIn
    BY DEF Between
  <2>. QED BY <1>0, <1>2, <2>1, ComparedTypes DEF diff_by_timestamp
<1>3. ASSUME NEW project, NEW a, NEW b, diff_by_session(a, b, project) PROVE DiffTypes'
  <2>1. \A s : OfSession(s) \in SUBSET RowsIn
    BY DEF OfSession
  <2>. QED BY <1>0, <1>3, <2>1, ComparedTypes DEF diff_by_session
<1>4. ASSUME NEW i \in RowIds, NEW j \in RowIds, diff_by_id(i, j) PROVE DiffTypes'
  <2>1. i \in RowsIn /\ j \in RowsIn /\ table' = table
    BY <1>4 DEF diff_by_id
  <2>2. table[i].content \in DiffContents /\ table[j].content \in DiffContents
    BY <1>0, <2>1, RowsAreRows DEF Row
  <2>3. PICK from, to : from = [k \in {i} |-> table[k].content] /\ to = [k \in {j} |-> table[k].content]
    OBVIOUS
  <2>4. SideOK(from) /\ SideOK(to)
    BY <2>2, <2>3 DEF SideOK
  <2>5. diff'.mode = "id" /\ diff'.reference = from /\ diff'.target = to
    BY <1>4, <2>3 DEF diff_by_id
  <2>. QED BY <1>0, <2>1, <2>4, <2>5 DEF DiffTypes, SideOK
<1>. QED BY <1>1, <1>2, <1>3, <1>4 DEF DiffNext

\* The types of memory diff.
THEOREM DiffTypeCorrect == DiffSpec => []DiffTypeOK
<1>1. DiffTypes => DiffTypeOK
  BY DEF DiffTypes, DiffTypeOK, SideOK
<1>. QED BY <1>1, DiffTypesStart, DiffTypesKept, PTL DEF DiffSpec

-----------------------------------------------------------------------------
(*****************************************************************************)
(* Schema.  A migration that _migrations names has been executed to its end, *)
(* for every number of processes, every list of migrations and any death.    *)
(*                                                                           *)
(* RecordedIsApplied is not inductive: that a process which is about to      *)
(* record has nothing left to execute follows from where it is in the        *)
(* script, and from done, which only grows.                                  *)
(*****************************************************************************)

-----------------------------------------------------------------------------
(* The smallest pending version *)
LEMMA VersionsAreNumbers == Versions \subseteq Nat
BY SchemaAssumption DEF Versions

\* What run_migrations has come to is one of the versions it still has.
LEMMA CurrentIsPending ==
  ASSUME NEW p \in Starters, starter[p].pending \in SUBSET Versions, starter[p].pending # {}
  PROVE  Current(p) \in starter[p].pending
<1>1. \E v \in starter[p].pending : \A w \in starter[p].pending : v <= w
  BY SmallestNumber, VersionsAreNumbers
<1>. QED BY <1>1 DEF Current

-----------------------------------------------------------------------------
(* The inductive invariant *)

Executed(v, i) == <<v, i>> \in done

\* How far the script of process p has come.
ScriptHasCome(p) ==
  LET v == Current(p)
  IN  /\ starter[p].at \in {"apply", "script", "record"} => starter[p].pending # {}
      /\ starter[p].at = "script" => \A i \in DOMAIN Scripts[v] : i < starter[p].next => Executed(v, i)
      /\ starter[p].at = "record" => \A i \in DOMAIN Scripts[v] : Executed(v, i)

SchemaInv ==
  /\ starter \in [Starters -> Start]
  /\ \A p \in Starters : ScriptHasCome(p)
  /\ RecordedIsApplied

LEMMA SchemaInitEstablishes == SchemaInit => SchemaInv
BY DEF SchemaInit, SchemaInv, NotStarted, Start, ScriptHasCome, RecordedIsApplied, Versions

\* A process that goes on with another set of migrations.
LEMMA ContinueKeeps ==
  ASSUME SchemaInv, NEW p \in Starters, NEW S \in SUBSET Versions,
         Continue(p, S), done \subseteq done'
  PROVE  /\ starter' \in [Starters -> Start]
         /\ \A q \in Starters : ScriptHasCome(q)'
<1>1. starter' \in [Starters -> Start]
  BY DEF SchemaInv, Continue, Start
<1>2. ASSUME NEW q \in Starters
      PROVE  ScriptHasCome(q)'
  <2>1. CASE q = p
    BY <2>1 DEF SchemaInv, Continue, Start, ScriptHasCome
  <2>2. CASE q # p
    <3>1. starter'[q] = starter[q]
      BY <2>2 DEF SchemaInv, Continue
    <3>2. Current(q)' = Current(q)
      BY <3>1 DEF Current
    <3>. QED BY <3>1, <3>2 DEF SchemaInv, ScriptHasCome, Executed
  <2>. QED BY <2>1, <2>2
<1>. QED BY <1>1, <1>2

\* A step of process p that leaves its pending migrations alone.
LEMMA ScriptStepKeeps ==
  ASSUME SchemaInv, NEW p \in Starters, NEW s \in Start,
         starter' = [starter EXCEPT ![p] = s], s.pending = starter[p].pending,
         done \subseteq done', ScriptHasCome(p)'
  PROVE  /\ starter' \in [Starters -> Start]
         /\ \A q \in Starters : ScriptHasCome(q)'
<1>1. starter' \in [Starters -> Start]
  BY DEF SchemaInv
<1>2. ASSUME NEW q \in Starters, q # p
      PROVE  ScriptHasCome(q)'
  <2>1. starter'[q] = starter[q]
    BY <1>2 DEF SchemaInv
  <2>2. Current(q)' = Current(q)
    BY <2>1 DEF Current
  <2>. QED BY <2>1, <2>2 DEF SchemaInv, ScriptHasCome, Executed
<1>. QED BY <1>1, <1>2

LEMMA RecordedStays ==
  ASSUME SchemaInv, recorded' = recorded, done \subseteq done'
  PROVE  RecordedIsApplied'
BY DEF SchemaInv, RecordedIsApplied

-----------------------------------------------------------------------------
(* The steps *)

LEMMA StatementKeeps ==
  ASSUME SchemaInv, NEW p \in Starters, Statement(p)
  PROVE  SchemaInv'
<1> DEFINE v == Current(p)
           i == starter[p].next
<1>1. starter[p] \in Start /\ starter[p].pending \in SUBSET Versions /\ i \in Nat
  BY DEF SchemaInv, Start
<1>2. starter[p].at = "script" /\ starter[p].pending # {}
  BY DEF Statement, SchemaInv, ScriptHasCome
<1>3. \A j \in DOMAIN Scripts[v] : j < i => <<v, j>> \in done
  BY <1>2 DEF SchemaInv, ScriptHasCome, Executed
<1>4. v \in Versions
  BY <1>1, <1>2, CurrentIsPending
<1>5. DOMAIN Scripts[v] \subseteq Nat
  BY <1>4, SchemaAssumption DEF Versions
<1>6. CASE /\ done' = done \cup {<<v, i>>}
           /\ starter' = [starter EXCEPT ![p].next = @ + 1]
  <2> DEFINE s == [starter[p] EXCEPT !.next = @ + 1]
  <2>1. s \in Start /\ s.pending = starter[p].pending /\ s.next = i + 1 /\ s.at = "script"
    BY <1>1, <1>2 DEF Start
  <2>2. starter' = [starter EXCEPT ![p] = s]
    BY <1>6
  <2>3. starter'[p] = s
    BY <2>2 DEF SchemaInv
  <2>4. Current(p)' = v
    BY <2>1, <2>3 DEF Current
  <2>5. \A j \in DOMAIN Scripts[v] : j < i + 1 => <<v, j>> \in done'
    BY <1>1, <1>3, <1>5, <1>6
  <2>6. ScriptHasCome(p)'
    BY <1>2, <2>1, <2>3, <2>4, <2>5 DEF ScriptHasCome, Executed
  <2>7. /\ starter' \in [Starters -> Start]
        /\ \A q \in Starters : ScriptHasCome(q)'
    <3> HIDE DEF s
    <3>. QED BY <1>6, <2>1, <2>2, <2>6, ScriptStepKeeps
  <2>. QED BY <1>6, <2>7, RecordedStays DEF Statement, SchemaInv
<1>7. CASE /\ starter' = [starter EXCEPT ![p].at = "raised"]
           /\ UNCHANGED done
  <2> DEFINE s == [starter[p] EXCEPT !.at = "raised"]
  <2>1. s \in Start /\ s.pending = starter[p].pending /\ s.at = "raised"
    BY <1>1 DEF Start
  <2>2. starter' = [starter EXCEPT ![p] = s]
    BY <1>7
  <2>3. starter'[p] = s
    BY <2>2 DEF SchemaInv
  <2>4. ScriptHasCome(p)'
    BY <2>1, <2>3 DEF ScriptHasCome
  <2>5. /\ starter' \in [Starters -> Start]
        /\ \A q \in Starters : ScriptHasCome(q)'
    <3> HIDE DEF s
    <3>. QED BY <1>7, <2>1, <2>2, <2>4, ScriptStepKeeps
  <2>. QED BY <1>7, <2>5, RecordedStays DEF Statement, SchemaInv
<1>8. CASE Skip(p) /\ UNCHANGED done
  <2>1. /\ starter' \in [Starters -> Start]
        /\ \A q \in Starters : ScriptHasCome(q)'
    BY <1>1, <1>8, ContinueKeeps DEF Skip
  <2>. QED BY <1>8, <2>1, RecordedStays DEF Statement, SchemaInv
<1>. QED BY <1>6, <1>7, <1>8 DEF Statement

LEMMA ScriptEndsKeeps ==
  ASSUME SchemaInv, NEW p \in Starters, ScriptEnds(p)
  PROVE  SchemaInv'
<1> DEFINE v == Current(p)
           s == [starter[p] EXCEPT !.at = "record"]
<1>1. starter[p] \in Start /\ starter[p].pending \in SUBSET Versions /\ starter[p].next \in Nat
  BY DEF SchemaInv, Start
<1>2. starter[p].at = "script" /\ starter[p].pending # {} /\ starter[p].next > Len(Scripts[v])
  BY DEF ScriptEnds, SchemaInv, ScriptHasCome
<1>3. v \in Versions
  BY <1>1, <1>2, CurrentIsPending
<1>4. Scripts[v] \in Seq({"again", "once", "unique"})
  BY <1>3, SchemaAssumption DEF Versions
<1>5. \A j \in DOMAIN Scripts[v] : j < starter[p].next
  BY <1>1, <1>2, <1>4
<1>6. \A j \in DOMAIN Scripts[v] : <<v, j>> \in done
  BY <1>2, <1>5 DEF SchemaInv, ScriptHasCome, Executed
<1>7. s \in Start /\ s.pending = starter[p].pending /\ s.at = "record"
  BY <1>1 DEF Start
<1>8. starter' = [starter EXCEPT ![p] = s] /\ UNCHANGED <<recorded, done>>
  BY DEF ScriptEnds
<1>9. starter'[p] = s
  BY <1>8 DEF SchemaInv
<1>10. Current(p)' = v
  BY <1>7, <1>9 DEF Current
<1>11. ScriptHasCome(p)'
  BY <1>2, <1>6, <1>7, <1>8, <1>9, <1>10 DEF ScriptHasCome, Executed
<1>12. /\ starter' \in [Starters -> Start]
       /\ \A q \in Starters : ScriptHasCome(q)'
  <2> HIDE DEF s
  <2>. QED BY <1>7, <1>8, <1>11, ScriptStepKeeps
<1>. QED BY <1>8, <1>12, RecordedStays DEF SchemaInv

LEMMA RecordVersionKeeps ==
  ASSUME SchemaInv, NEW p \in Starters, RecordVersion(p)
  PROVE  SchemaInv'
<1>1. starter[p].pending \in SUBSET Versions /\ UNCHANGED done
  BY DEF SchemaInv, Start, RecordVersion
<1>2. /\ starter' \in [Starters -> Start]
      /\ \A q \in Starters : ScriptHasCome(q)'
  BY <1>1, ContinueKeeps DEF RecordVersion, Skip
<1>3. \A i \in DOMAIN Scripts[Current(p)] : <<Current(p), i>> \in done
  BY DEF RecordVersion, SchemaInv, ScriptHasCome, Executed
<1>4. RecordedIsApplied'
  BY <1>1, <1>3 DEF RecordVersion, SchemaInv, RecordedIsApplied
<1>. QED BY <1>2, <1>4 DEF SchemaInv

\* The steps that only move the process: to the list, to the first statement
\* of a migration, past it, or out.
LEMMA StarterMoveKeeps ==
  ASSUME SchemaInv, NEW p \in Starters,
         \/ ensure_migrations_table(p) \/ get_applied_versions(p)
         \/ apply_migration(p) \/ StarterDies(p)
  PROVE  SchemaInv'
<1>1. starter[p] \in Start /\ starter[p].pending \in SUBSET Versions
  BY DEF SchemaInv, Start
<1>2. UNCHANGED <<recorded, done>>
  BY DEF ensure_migrations_table, get_applied_versions, apply_migration, StarterDies
<1>3. ASSUME NEW s \in Start, s.pending = {}, s.at \in {"off", "list"},
             starter' = [starter EXCEPT ![p] = s]
      PROVE  /\ starter' \in [Starters -> Start]
             /\ \A q \in Starters : ScriptHasCome(q)'
  <2>1. starter' \in [Starters -> Start] /\ starter'[p] = s
    BY <1>3 DEF SchemaInv
  <2>2. ASSUME NEW q \in Starters, q # p
        PROVE  ScriptHasCome(q)'
    <3>1. starter'[q] = starter[q]
      BY <1>3, <2>2 DEF SchemaInv
    <3>2. Current(q)' = Current(q)
      BY <3>1 DEF Current
    <3>. QED BY <1>2, <3>1, <3>2 DEF SchemaInv, ScriptHasCome, Executed
  <2>3. ScriptHasCome(p)'
    BY <1>3, <2>1 DEF ScriptHasCome
  <2>. QED BY <2>1, <2>2, <2>3
<1>4. /\ starter' \in [Starters -> Start]
      /\ \A q \in Starters : ScriptHasCome(q)'
  <2>1. CASE ensure_migrations_table(p)
    <3> DEFINE s == [NotStarted EXCEPT !.at = "list"]
    <3>1. s \in Start /\ s.pending = {} /\ s.at = "list"
      BY DEF NotStarted, Start
    <3>2. starter' = [starter EXCEPT ![p] = s]
      BY <2>1 DEF ensure_migrations_table
    <3> HIDE DEF s
    <3>. QED BY <1>3, <3>1, <3>2
  <2>2. CASE StarterDies(p)
    <3>1. NotStarted \in Start /\ NotStarted.pending = {} /\ NotStarted.at = "off"
      BY DEF NotStarted, Start
    <3>. QED BY <1>3, <2>2, <3>1 DEF StarterDies
  <2>3. CASE get_applied_versions(p)
    BY <1>2, <2>3, ContinueKeeps DEF get_applied_versions
  <2>4. CASE apply_migration(p) /\ Current(p) \in recorded
    BY <1>1, <1>2, <2>4, ContinueKeeps DEF apply_migration, Skip
  <2>5. CASE apply_migration(p) /\ Current(p) \notin recorded
    <3> DEFINE s == [starter[p] EXCEPT !.at = "script", !.next = 1]
    <3>1. s \in Start /\ s.pending = starter[p].pending /\ s.at = "script" /\ s.next = 1
      BY <1>1 DEF Start
    <3>2. starter' = [starter EXCEPT ![p] = s]
      BY <2>5 DEF apply_migration
    <3>3. starter'[p] = s /\ starter[p].at = "apply"
      BY <2>5, <3>2 DEF SchemaInv, apply_migration
    <3>4. starter[p].pending # {}
      BY <3>3 DEF SchemaInv, ScriptHasCome
    <3>5. Current(p)' = Current(p) /\ Current(p) \in Versions
      BY <1>1, <3>1, <3>3, <3>4, CurrentIsPending DEF Current
    <3>6. \A i \in DOMAIN Scripts[Current(p)] : ~(i < 1)
      BY <3>5, SchemaAssumption DEF Versions
    <3>7. ScriptHasCome(p)'
      BY <3>1, <3>3, <3>4, <3>5, <3>6 DEF ScriptHasCome
    <3> HIDE DEF s
    <3>. QED BY <1>2, <3>1, <3>2, <3>7, ScriptStepKeeps
  <2>. QED BY <2>1, <2>2, <2>3, <2>4, <2>5
<1>. QED BY <1>2, <1>4, RecordedStays DEF SchemaInv

LEMMA SchemaStutterKeeps == SchemaInv /\ UNCHANGED schemaVars => SchemaInv'
BY DEF SchemaInv, schemaVars, ScriptHasCome, Executed, Current, RecordedIsApplied

\* run_migrations, by any number of processes at once, records only versions
\* all of whose statements have been executed, whoever dies or raises.
THEOREM RecordedVersionsAreApplied == SchemaSpec => []RecordedIsApplied
<1>1. SchemaInv /\ [SchemaNext]_schemaVars => SchemaInv'
  <2> SUFFICES ASSUME SchemaInv, SchemaNext
               PROVE  SchemaInv'
    BY SchemaStutterKeeps
  <2>1. PICK p \in Starters : Migrating(p) \/ StarterDies(p)
    BY DEF SchemaNext
  <2>. QED BY <2>1, StatementKeeps, ScriptEndsKeeps, RecordVersionKeeps, StarterMoveKeeps DEF Migrating
<1>2. SchemaInv => RecordedIsApplied
  BY DEF SchemaInv
<1>. QED BY SchemaInitEstablishes, <1>1, <1>2, PTL DEF SchemaSpec

-----------------------------------------------------------------------------
(* The types of migrations *)

\* A script is executed from its first statement on.
StatementsInv == \A p \in Starters : starter[p].at = "script" => starter[p].next >= 1

SchemaTypes == SchemaInv /\ SchemaTypeOK /\ StatementsInv

LEMMA SchemaTypesStart == SchemaInit => SchemaTypes
<1>1. 0 \in 0..MaxStarts
  BY SchemaAssumption
<1>. QED BY <1>1, SchemaInitEstablishes DEF SchemaInit, SchemaTypes, SchemaTypeOK, StatementsInv,
                                      SchemaInv, NotStarted

LEMMA SchemaTypesKept == SchemaTypes /\ [SchemaNext]_schemaVars => SchemaTypes'
<1>. SUFFICES ASSUME SchemaTypes, SchemaNext PROVE SchemaTypes'
  BY SchemaStutterKeeps DEF SchemaTypes, SchemaTypeOK, StatementsInv, schemaVars
<1>1. PICK p \in Starters : Migrating(p) \/ StarterDies(p)
  BY DEF SchemaNext
<1>2. SchemaInv'
  BY <1>1, StatementKeeps, ScriptEndsKeeps, RecordVersionKeeps, StarterMoveKeeps
  DEF Migrating, SchemaTypes
<1>3. starter[p] \in Start /\ starter \in [Starters -> Start]
  BY DEF SchemaTypes, SchemaInv
<1>4. starts' \in 0..MaxStarts
  BY <1>1, SchemaAssumption
  DEF Migrating, ensure_migrations_table, get_applied_versions, apply_migration, Statement,
      ScriptEnds, RecordVersion, StarterDies, SchemaTypes, SchemaTypeOK
<1>5. starter[p].at \in {"apply", "script", "record"} => Current(p) \in Versions
  BY <1>3, CurrentIsPending DEF SchemaTypes, SchemaInv, ScriptHasCome, Start
<1>6. recorded' \subseteq Versions
  BY <1>1, <1>5
  DEF Migrating, ensure_migrations_table, get_applied_versions, apply_migration, Statement,
      ScriptEnds, RecordVersion, StarterDies, SchemaTypes, SchemaTypeOK
<1>7. \A d \in done' : d[1] \in Versions /\ d[2] \in DOMAIN Scripts[d[1]]
  <2>1. CASE Statement(p)
    <3>1. PICK v \in Versions : v = Current(p)
      BY <1>5, <2>1 DEF Statement
    <3>2. PICK i \in Nat : i = starter[p].next
      BY <1>3 DEF Start
    <3>3. i >= 1 /\ i <= Len(Scripts[v]) /\ done' \in {done, done \cup {<<v, i>>}}
      BY <2>1, <3>1, <3>2 DEF Statement, SchemaTypes, StatementsInv
    <3>4. Scripts[v] \in Seq({"again", "once", "unique"})
      BY SchemaAssumption DEF Versions
    <3>5. i \in DOMAIN Scripts[v]
      BY <3>3, <3>4, LenProperties
    <3>6. <<v, i>>[1] = v /\ <<v, i>>[2] = i
      OBVIOUS
    <3>. QED BY <3>3, <3>5, <3>6 DEF SchemaTypes, SchemaTypeOK
  <2>2. CASE ~Statement(p)
    BY <1>1, <2>2
    DEF Migrating, ensure_migrations_table, get_applied_versions, apply_migration,
        ScriptEnds, RecordVersion, StarterDies, SchemaTypes, SchemaTypeOK
  <2>. QED BY <2>1, <2>2
<1>8. StatementsInv'
  <2>1. ASSUME NEW s, starter' = [starter EXCEPT ![p] = s], s.at = "script" => s.next >= 1
        PROVE  StatementsInv'
    BY <1>3, <2>1 DEF StatementsInv, SchemaTypes
  <2>2. ASSUME NEW pending, Continue(p, pending) PROVE StatementsInv'
    <3>0. PICK s : s = [at |-> IF pending = {} THEN "up" ELSE "apply", pending |-> pending, next |-> 0]
      OBVIOUS
    <3>2. s.at = IF pending = {} THEN "up" ELSE "apply"
      BY <3>0
    <3>1. s.at # "script" /\ starter' = [starter EXCEPT ![p] = s]
      BY <2>2, <3>0, <3>2 DEF Continue
    <3>. QED BY <2>1, <3>1
  <2>3. Skip(p) => StatementsInv'
    BY <2>2 DEF Skip
  <2>4. CASE ensure_migrations_table(p) \/ StarterDies(p)
    <3>1. NotStarted.at # "script" /\ [NotStarted EXCEPT !.at = "list"].at # "script"
      BY DEF NotStarted
    <3>. QED BY <2>1, <2>4, <3>1 DEF ensure_migrations_table, StarterDies
  <2>5. CASE get_applied_versions(p) \/ RecordVersion(p)
    BY <2>2, <2>3, <2>5 DEF get_applied_versions, RecordVersion
  <2>6. CASE apply_migration(p)
    <3>1. PICK s : s = [starter[p] EXCEPT !.at = "script", !.next = 1]
      OBVIOUS
    <3>2. s.next = 1
      BY <1>3, <3>1 DEF Start
    <3>3. Skip(p) \/ starter' = [starter EXCEPT ![p] = s]
      BY <1>3, <2>6, <3>1 DEF apply_migration
    <3>. QED BY <2>1, <2>3, <3>2, <3>3
  <2>7. CASE ScriptEnds(p)
    <3>1. [starter[p] EXCEPT !.at = "record"].at # "script"
      BY <1>3 DEF Start
    <3>. QED BY <1>3, <2>1, <2>7, <3>1 DEF ScriptEnds
  <2>8. CASE Statement(p)
    <3>1. PICK s : s = [starter[p] EXCEPT !.next = starter[p].next + 1]
      OBVIOUS
    <3>2. PICK r : r = [starter[p] EXCEPT !.at = "raised"]
      OBVIOUS
    <3>3. Skip(p) \/ starter' = [starter EXCEPT ![p] = s] \/ starter' = [starter EXCEPT ![p] = r]
      BY <1>3, <2>8, <3>1, <3>2 DEF Statement
    <3>4. starter[p].next \in Nat /\ starter[p].next >= 1
      BY <1>3, <2>8 DEF Statement, Start, SchemaTypes, StatementsInv
    <3>5. s.next = starter[p].next + 1 /\ s.next >= 1
      BY <1>3, <3>1, <3>4 DEF Start
    <3>6. r.at # "script"
      BY <1>3, <3>2 DEF Start
    <3>. QED BY <2>1, <2>3, <3>3, <3>5, <3>6
  <2>. QED BY <1>1, <2>4, <2>5, <2>6, <2>7, <2>8 DEF Migrating
<1>9. starter' \in [Starters -> Start]
  BY <1>2 DEF SchemaInv
<1>. QED BY <1>2, <1>4, <1>6, <1>7, <1>8, <1>9 DEF SchemaTypes, SchemaTypeOK

\* The types of the migrations.
LEMMA SchemaTypeCorrect == SchemaSpec => []SchemaTypeOK
<1>1. SchemaTypes => SchemaTypeOK
  BY DEF SchemaTypes
<1>. QED BY <1>1, SchemaTypesStart, SchemaTypesKept, PTL DEF SchemaSpec

-----------------------------------------------------------------------------
(*****************************************************************************)
(* Messaging.  A message nobody was shown leaves the table only by age or by *)
(* the cap, and the table never holds more than MaxTotal rows, for every     *)
(* number of processes, inboxes and messages.                                *)
(*                                                                           *)
(* UnreadIsKept speaks of a step; the receiver that deletes has to know that *)
(* what it deletes was shown.  It knew when it got there (Show), and handed  *)
(* only grows.  The cap is kept because making room and inserting are one    *)
(* transaction, whatever happened since the message was created.             *)
(*****************************************************************************)

MessagingTypes ==
  /\ sent \in 0..MaxMessages
  /\ address \in [Messages -> Inboxes \cup {None}]
  /\ message \in [Messages -> {"none", "unread", "read"}]
  /\ expired \in 0..aged /\ aged \in 0..sent
  /\ handed \subseteq Messages
  /\ file \subseteq Messages
  /\ signal \in [Inboxes -> 0..MaxMessages]
  /\ window \subseteq Inboxes
  /\ peer \in [Peers -> Errand]

\* What delete_by_ids deletes has been shown; only sends encode.
ErrandsAreKnown ==
  \A q \in Peers :
    /\ peer[q].at = "remove" => peer[q].got \subseteq handed
    /\ peer[q].at = "encode" => peer[q].msg \in Messages

TableCapped == Cardinality(Rows) <= MaxTotal

MessagingInv == MessagingTypes /\ ErrandsAreKnown /\ TableCapped

LEMMA NoErrandIsErrand ==
  /\ NoErrand \in Errand
  /\ NoErrand.at = "idle"
BY MessagingAssumption DEF NoErrand, Errand, PeerSteps, Messages

LEMMA MessagesAreFinite == IsFiniteSet(Messages)
BY MessagingAssumption, FS_Interval DEF Messages

\* The rows that make_room leaves are fewer than MaxTotal: those above the
\* smallest of them are at most MaxTotal - 2.
LEMMA RoomIsMade ==
  ASSUME MessagingTypes
  PROVE  /\ IsFiniteSet(Rows \ Overflow)
         /\ Cardinality(Rows \ Overflow) < MaxTotal
<1>. DEFINE Left == Rows \ Overflow
            Above(m) == {n \in Rows : n > m}
<1>1. Rows \in SUBSET Messages /\ Left \in SUBSET Rows /\ Messages \in SUBSET Nat
  BY MessagingAssumption DEF Rows, Messages
<1>2. IsFiniteSet(Rows) /\ IsFiniteSet(Left)
  BY <1>1, MessagesAreFinite, FS_Subset
<1>3. MaxTotal \in Nat /\ MaxTotal > 0
  BY MessagingAssumption
<1>4. \A m \in Rows : m \notin Overflow => ~(Cardinality(Above(m)) >= MaxTotal - 1)
  <2>1. Overflow = {m \in Rows : Cardinality(Above(m)) >= MaxTotal - 1}
    BY DEF Overflow
  <2>. HIDE DEF Above
  <2>. QED BY <2>1
<1>5. CASE Left = {}
  <2>1. Cardinality(Left) = 0
    BY <1>5, FS_EmptySet
  <2>. QED BY <1>2, <1>3, <2>1
<1>6. CASE Left # {}
  <2>1. PICK s \in Left : \A m \in Left : s <= m
    BY <1>1, <1>6, SmallestNumber
  <2>2. Above(s) \in SUBSET Rows /\ IsFiniteSet(Above(s)) /\ Cardinality(Above(s)) \in Nat
    BY <1>2, FS_Subset, FS_CardinalityType
  <2>3. ~(Cardinality(Above(s)) >= MaxTotal - 1)
    <3>1. s \in Rows /\ s \notin Overflow
      BY <2>1
    <3>. HIDE DEF Above
    <3>. QED BY <3>1, <1>4
  <2>4. Left \subseteq Above(s) \cup {s}
    <3>. SUFFICES ASSUME NEW m \in Left, m # s
                  PROVE  m \in Above(s)
      OBVIOUS
    <3>1. m \in Rows /\ m \in Nat /\ s \in Nat /\ s <= m
      BY <1>1, <2>1
    <3>. QED BY <3>1
  <2>5. /\ IsFiniteSet(Above(s) \cup {s})
        /\ Cardinality(Above(s) \cup {s}) = Cardinality(Above(s)) + 1
    BY <1>1, <2>1, <2>2, FS_AddElement
  <2>6. Cardinality(Left) <= Cardinality(Above(s) \cup {s})
    BY <2>4, <2>5, FS_Subset
  <2>7. Cardinality(Left) \in Nat
    BY <1>2, FS_CardinalityType
  <2>8. Cardinality(Left) < MaxTotal
    <3>. HIDE DEF Above, Left
    <3>. QED BY <1>3, <2>2, <2>3, <2>5, <2>6, <2>7
  <2>. QED BY <1>2, <2>8
<1>. QED BY <1>5, <1>6

\* Fewer rows keep the cap.
LEMMA FewerRows ==
  ASSUME TableCapped, MessagingTypes, Rows' \subseteq Rows
  PROVE  TableCapped'
<1>1. IsFiniteSet(Rows) /\ IsFiniteSet(Rows')
  BY MessagesAreFinite, FS_Subset DEF Rows
<1>2. Cardinality(Rows') <= Cardinality(Rows)
  BY <1>1, FS_Subset
<1>3. Cardinality(Rows) \in Nat /\ Cardinality(Rows') \in Nat
  BY <1>1, FS_CardinalityType
<1>. QED BY <1>2, <1>3, MessagingAssumption DEF TableCapped

LEMMA MessagingInitEstablishes == MessagingInit => MessagingInv
<1>. SUFFICES ASSUME MessagingInit
              PROVE  MessagingInv
  OBVIOUS
<1>1. MessagingTypes
  BY NoErrandIsErrand, MessagingAssumption
  DEF MessagingInit, MessagingTypes, Messages
<1>2. ErrandsAreKnown
  BY NoErrandIsErrand DEF MessagingInit, ErrandsAreKnown
<1>3. TableCapped
  <2>1. Rows = {}
    BY DEF MessagingInit, Rows
  <2>. QED BY <2>1, FS_EmptySet, MessagingAssumption DEF TableCapped
<1>. QED BY <1>1, <1>2, <1>3 DEF MessagingInv

LEMMA FinishedErrand ==
  ASSUME MessagingTypes, NEW q \in Peers
  PROVE  /\ [NoErrand EXCEPT !.panes = peer[q].panes, !.again = peer[q].again] \in Errand
         /\ [NoErrand EXCEPT !.panes = peer[q].panes, !.again = peer[q].again].at = "idle"
<1>1. peer[q] \in Errand
  BY DEF MessagingTypes
<1>. QED BY <1>1, NoErrandIsErrand DEF Errand, NoErrand

LEMMA NextErrand ==
  ASSUME MessagingTypes, NEW q \in Peers, NEW step \in PeerSteps
  PROVE  /\ [peer[q] EXCEPT !.at = step] \in Errand
         /\ [peer[q] EXCEPT !.at = step].at = step
         /\ [peer[q] EXCEPT !.at = step].got = peer[q].got
         /\ [peer[q] EXCEPT !.at = step].msg = peer[q].msg
<1>1. peer[q] \in Errand
  BY DEF MessagingTypes
<1>. QED BY <1>1 DEF Errand

\* The rows a process drops.
LEMMA DropTypes ==
  ASSUME MessagingTypes, NEW S, Drop(S)
  PROVE  /\ message' \in [Messages -> {"none", "unread", "read"}]
         /\ Rows' \subseteq Rows
<1>1. message' = [m \in Messages |-> IF m \in S THEN "none" ELSE message[m]]
  BY DEF Drop
<1>2. message' \in [Messages -> {"none", "unread", "read"}]
  BY <1>1 DEF MessagingTypes
<1>3. \A m \in Messages : message'[m] # "none" => message[m] # "none"
  BY <1>1
<1>. QED BY <1>2, <1>3 DEF Rows

\* A step of one process that stores nothing.
LEMMA PeerStep ==
  ASSUME MessagingInv, NEW q \in Peers, NEW e \in Errand,
         peer' = [peer EXCEPT ![q] = e],
         e.at = "remove" => e.got \subseteq handed',
         e.at = "encode" => e.msg \in Messages,
         handed \subseteq handed', handed' \subseteq Messages,
         message' \in [Messages -> {"none", "unread", "read"}], Rows' \subseteq Rows,
         sent' \in 0..MaxMessages, sent <= sent',
         address' \in [Messages -> Inboxes \cup {None}],
         file' \subseteq Messages, signal' \in [Inboxes -> 0..MaxMessages],
         UNCHANGED <<clockVars, window>>
  PROVE  MessagingInv'
<1>1. MessagingTypes'
  <2>1. /\ sent \in 0..MaxMessages /\ expired \in 0..aged /\ aged \in 0..sent
        /\ window \subseteq Inboxes /\ peer \in [Peers -> Errand]
    BY DEF MessagingInv, MessagingTypes
  <2>2. expired' \in 0..aged' /\ aged' \in 0..sent'
    BY <2>1, MessagingAssumption DEF clockVars
  <2>. QED BY <2>1, <2>2 DEF MessagingTypes
<1>2. peer'[q] = e /\ \A r \in Peers : r # q => peer'[r] = peer[r]
  BY DEF MessagingInv, MessagingTypes
<1>3. ErrandsAreKnown'
  BY <1>2 DEF MessagingInv, ErrandsAreKnown
<1>4. TableCapped'
  BY FewerRows DEF MessagingInv
<1>. QED BY <1>1, <1>3, <1>4 DEF MessagingInv

\* A step of one process that only goes on to e.
LEMMA OnlyPeerStep ==
  ASSUME MessagingInv, NEW q \in Peers, NEW e \in Errand,
         peer' = [peer EXCEPT ![q] = e],
         e.at = "remove" => e.got \subseteq handed',
         e.at = "encode" => e.msg \in Messages,
         handed \subseteq handed', handed' \subseteq Messages,
         UNCHANGED <<sent, address, message, clockVars, noticeVars>>
  PROVE  MessagingInv'
<1>1. /\ sent \in 0..MaxMessages /\ file \subseteq Messages
      /\ address \in [Messages -> Inboxes \cup {None}]
      /\ signal \in [Inboxes -> 0..MaxMessages]
      /\ message \in [Messages -> {"none", "unread", "read"}]
  BY DEF MessagingInv, MessagingTypes
<1>2. sent <= sent'
  BY <1>1, MessagingAssumption
<1>3. Rows' = Rows
  BY DEF Rows
<1>. QED BY <1>1, <1>2, <1>3, PeerStep DEF noticeVars

LEMMA CreatedTypes ==
  ASSUME MessagingInv, NEW q \in Peers, NEW i \in Inboxes, CreateMessage(q, i)
  PROVE  /\ sent' = sent + 1 /\ sent' \in 0..MaxMessages /\ sent <= sent'
         /\ address' \in [Messages -> Inboxes \cup {None}]
BY MessagingAssumption DEF CreateMessage, MessagingInv, MessagingTypes, Messages

LEMMA SendKeeps ==
  ASSUME MessagingInv, NEW q \in Peers, NEW i \in Inboxes, send(q, i)
  PROVE  MessagingInv'
<1>. DEFINE e == [NoErrand EXCEPT !.at = "sweep", !.msg = sent + 1]
<1>1. /\ sent' = sent + 1 /\ sent' \in 0..MaxMessages /\ sent <= sent'
      /\ address' \in [Messages -> Inboxes \cup {None}]
  BY CreatedTypes DEF send
<1>2. e \in Errand /\ e.at = "sweep"
  BY <1>1, NoErrandIsErrand DEF Errand, NoErrand, PeerSteps
<1>3. /\ peer' = [peer EXCEPT ![q] = e]
      /\ UNCHANGED <<message, clockVars, handed, noticeVars>>
  BY DEF send, CreateMessage
<1>. HIDE DEF e
<1>. QED BY <1>1, <1>2, <1>3, PeerStep
         DEF MessagingInv, MessagingTypes, Rows, noticeVars

LEMMA BroadcastNextKeeps ==
  ASSUME MessagingInv, NEW q \in Peers, BroadcastNext(q)
  PROVE  MessagingInv'
<1>1. PICK i \in peer[q].panes :
        /\ CreateMessage(q, i)
        /\ peer' = [peer EXCEPT ![q] = [NoErrand EXCEPT !.at = "sweep", !.msg = sent + 1,
                                                        !.panes = peer[q].panes \ {i},
                                                        !.again = peer[q].again]]
  BY DEF BroadcastNext
<1>. DEFINE e == [NoErrand EXCEPT !.at = "sweep", !.msg = sent + 1,
                                  !.panes = peer[q].panes \ {i}, !.again = peer[q].again]
<1>2. peer[q] \in Errand
  BY DEF MessagingInv, MessagingTypes
<1>3. i \in Inboxes
  BY <1>2 DEF Errand
<1>4. /\ sent' = sent + 1 /\ sent' \in 0..MaxMessages /\ sent <= sent'
      /\ address' \in [Messages -> Inboxes \cup {None}]
  BY <1>1, <1>3, CreatedTypes
<1>5. e \in Errand /\ e.at = "sweep"
  BY <1>2, <1>4, NoErrandIsErrand DEF Errand, NoErrand, PeerSteps
<1>6. /\ peer' = [peer EXCEPT ![q] = e]
      /\ UNCHANGED <<message, clockVars, handed, noticeVars>>
  BY <1>1 DEF CreateMessage
<1>. HIDE DEF e
<1>. QED BY <1>4, <1>5, <1>6, PeerStep
         DEF MessagingInv, MessagingTypes, Rows, noticeVars

LEMMA StartBroadcastKeeps ==
  ASSUME MessagingInv, NEW q \in Peers, NEW again \in BOOLEAN, On(q, "idle"),
         StartBroadcast(q, again)
  PROVE  MessagingInv'
<1>1. PICK panes \in SUBSET window :
        peer' = [peer EXCEPT ![q].panes = panes, ![q].again = again]
  BY DEF StartBroadcast
<1>. DEFINE e == [peer[q] EXCEPT !.panes = panes, !.again = again]
<1>2. /\ peer[q] \in Errand /\ peer[q].at = "idle" /\ window \subseteq Inboxes
      /\ peer \in [Peers -> Errand]
  BY DEF MessagingInv, MessagingTypes, On
<1>3. e \in Errand /\ e.at = "idle"
  BY <1>2 DEF Errand
<1>4. peer' = [peer EXCEPT ![q] = e]
  BY <1>1, <1>2
<1>5. UNCHANGED <<sent, address, message, clockVars, handed, noticeVars>>
  BY DEF StartBroadcast
<1>. HIDE DEF e
<1>6. handed \subseteq Messages
  BY DEF MessagingInv, MessagingTypes
<1>. QED BY <1>3, <1>4, <1>5, <1>6, OnlyPeerStep

\* Room first, then the row: at most MaxTotal - 1 rows and one more.
LEMMA SaveKeeps ==
  ASSUME MessagingInv, NEW q \in Peers, save(q)
  PROVE  MessagingInv'
<1>. DEFINE e == [peer[q] EXCEPT !.at = "maintain"]
            m0 == peer[q].msg
<1>1. MessagingTypes /\ peer \in [Peers -> Errand]
  BY DEF MessagingInv, MessagingTypes
<1>2. /\ peer' = [peer EXCEPT ![q] = e]
      /\ message' = [m \in Messages |->
                      IF m = m0 THEN "unread"
                      ELSE IF m \in Overflow THEN "none" ELSE message[m]]
      /\ UNCHANGED <<sent, address, clockVars, handed, noticeVars>>
  BY <1>1 DEF save, Then
<1>3. e \in Errand /\ e.at = "maintain"
  BY <1>1, NextErrand DEF PeerSteps
<1>4. MessagingTypes'
  <2>1. message' \in [Messages -> {"none", "unread", "read"}]
    BY <1>1, <1>2 DEF MessagingTypes
  <2>. HIDE DEF e
  <2>. QED BY <1>1, <1>2, <1>3, <2>1 DEF MessagingTypes, clockVars, noticeVars
<1>5. ErrandsAreKnown'
  <2>. HIDE DEF e
  <2>1. peer'[q] = e /\ \A r \in Peers : r # q => peer'[r] = peer[r]
    BY <1>1, <1>2
  <2>. QED BY <1>2, <1>3, <2>1 DEF MessagingInv, ErrandsAreKnown
<1>6. TableCapped'
  <2>. DEFINE Left == Rows \ Overflow
  <2>1. Rows' \subseteq Left \cup {m0}
    BY <1>2 DEF Rows
  <2>2. IsFiniteSet(Left) /\ Cardinality(Left) < MaxTotal
    BY <1>1, RoomIsMade
  <2>. HIDE DEF Left
  <2>3. /\ IsFiniteSet(Left \cup {m0})
        /\ Cardinality(Left \cup {m0}) =
             IF m0 \in Left THEN Cardinality(Left) ELSE Cardinality(Left) + 1
    BY <2>2, FS_AddElement
  <2>4. Cardinality(Left) \in Nat /\ MaxTotal \in Nat
    BY <2>2, FS_CardinalityType, MessagingAssumption
  <2>5. IsFiniteSet(Rows') /\ Cardinality(Rows') <= Cardinality(Left \cup {m0})
    BY <2>1, <2>3, FS_Subset
  <2>6. Cardinality(Rows') \in Nat
    BY <2>5, FS_CardinalityType
  <2>. QED BY <2>2, <2>3, <2>4, <2>5, <2>6 DEF TableCapped
<1>. QED BY <1>4, <1>5, <1>6 DEF MessagingInv

LEMMA FinishKeeps ==
  ASSUME MessagingInv, NEW q \in Peers, Finish(q),
         handed \subseteq handed', handed' \subseteq Messages,
         message' \in [Messages -> {"none", "unread", "read"}], Rows' \subseteq Rows,
         file' \subseteq Messages, signal' \in [Inboxes -> 0..MaxMessages],
         UNCHANGED <<sent, address, clockVars, window>>
  PROVE  MessagingInv'
<1>. DEFINE e == [NoErrand EXCEPT !.panes = peer[q].panes, !.again = peer[q].again]
<1>1. e \in Errand /\ e.at = "idle"
  BY FinishedErrand DEF MessagingInv
<1>2. peer' = [peer EXCEPT ![q] = e]
  BY DEF Finish
<1>3. sent \in 0..MaxMessages /\ address \in [Messages -> Inboxes \cup {None}]
  BY DEF MessagingInv, MessagingTypes
<1>4. sent <= sent'
  BY <1>3, MessagingAssumption
<1>. HIDE DEF e
<1>. QED BY <1>1, <1>2, <1>3, <1>4, PeerStep

LEMMA ThenKeeps ==
  ASSUME MessagingInv, NEW q \in Peers, NEW step \in PeerSteps, Then(q, step),
         step = "remove" => peer[q].got \subseteq handed',
         step = "encode" => peer[q].msg \in Messages,
         handed \subseteq handed', handed' \subseteq Messages,
         message' \in [Messages -> {"none", "unread", "read"}], Rows' \subseteq Rows,
         file' \subseteq Messages, UNCHANGED <<sent, address, clockVars, signal, window>>
  PROVE  MessagingInv'
<1>. DEFINE e == [peer[q] EXCEPT !.at = step]
<1>1. e \in Errand /\ e.at = step /\ e.got = peer[q].got /\ e.msg = peer[q].msg
  BY NextErrand DEF MessagingInv
<1>2. /\ sent \in 0..MaxMessages /\ address \in [Messages -> Inboxes \cup {None}]
      /\ signal \in [Inboxes -> 0..MaxMessages] /\ peer \in [Peers -> Errand]
  BY DEF MessagingInv, MessagingTypes
<1>3. peer' = [peer EXCEPT ![q] = e]
  BY <1>2 DEF Then
<1>4. sent <= sent'
  BY <1>2, MessagingAssumption
<1>. HIDE DEF e
<1>. QED BY <1>1, <1>2, <1>3, <1>4, PeerStep

LEMMA ReceiveKeeps ==
  ASSUME MessagingInv, NEW q \in Peers, NEW i \in Inboxes,
         NEW tool \in BOOLEAN, NEW mark \in BOOLEAN, receive(q, i, tool, mark)
  PROVE  MessagingInv'
<1>1. get_for_agent(i) \subseteq Messages
  BY DEF get_for_agent, Rows
<1>2. /\ handed \subseteq Messages /\ file \subseteq Messages
      /\ peer \in [Peers -> Errand] /\ peer[q] \in Errand
      /\ message \in [Messages -> {"none", "unread", "read"}]
  BY DEF MessagingInv, MessagingTypes
<1>3. CASE mark
  <2>. DEFINE e == [NoErrand EXCEPT !.at = IF tool THEN "mark" ELSE "show",
                                    !.got = get_for_agent(i), !.tool = tool]
  <2>1. /\ peer' = [peer EXCEPT ![q] = e]
        /\ UNCHANGED <<sent, address, message, clockVars, handed, noticeVars>>
    BY <1>3 DEF receive
  <2>2. e \in Errand /\ e.at \notin {"remove", "encode"}
    BY <1>1, NoErrandIsErrand DEF Errand, NoErrand, PeerSteps
  <2>. HIDE DEF e
  <2>. QED BY <1>2, <2>1, <2>2, OnlyPeerStep
<1>4. CASE ~mark
  <2>1. /\ handed' = handed \cup get_for_agent(i)
        /\ UNCHANGED <<peer, sent, address, message, clockVars, noticeVars>>
    BY <1>4 DEF receive
  <2>2. MessagingTypes'
    BY <1>1, <2>1 DEF MessagingInv, MessagingTypes, clockVars, noticeVars
  <2>3. ErrandsAreKnown' /\ TableCapped'
    BY <2>1 DEF MessagingInv, ErrandsAreKnown, TableCapped, Rows
  <2>. QED BY <2>2, <2>3 DEF MessagingInv
<1>. QED BY <1>3, <1>4

\* What an action of a process leaves alone, in the form the lemmas ask for.
LEMMA MessagingFacts ==
  ASSUME MessagingInv
  PROVE  /\ handed \subseteq Messages /\ file \subseteq Messages
         /\ signal \in [Inboxes -> 0..MaxMessages]
         /\ message \in [Messages -> {"none", "unread", "read"}]
         /\ peer \in [Peers -> Errand] /\ \A q \in Peers : peer[q].got \subseteq Messages
         /\ \A q \in Peers : peer[q].msg \in 0..MaxMessages
         /\ message' = message => Rows' = Rows
<1>1. \A q \in Peers : peer[q] \in Errand
  BY DEF MessagingInv, MessagingTypes
<1>2. \A q \in Peers : peer[q].got \subseteq Messages /\ peer[q].msg \in 0..MaxMessages
  BY <1>1 DEF Errand
<1>. QED BY <1>2 DEF MessagingInv, MessagingTypes, Rows

LEMMA NoticingKeeps ==
  ASSUME MessagingInv, NEW q \in Peers, Noticing(q)
  PROVE  MessagingInv'
<1>. USE MessagingFacts
<1>1. CASE broadcast(q)
  BY <1>1, StartBroadcastKeeps DEF broadcast, Free
<1>2. CASE BroadcastNext(q)
  BY <1>2, BroadcastNextKeeps
<1>3. CASE Maintain(q)
  <2>1. file' \subseteq file /\ UNCHANGED <<sent, address, message, clockVars, handed, signal, window>>
    BY <1>3 DEF Maintain
  <2>2. Finish(q) \/ (peer[q].msg \in Messages /\ Then(q, "encode"))
    BY <1>3, MessagingAssumption DEF Maintain, Messages
  <2>. QED BY <2>1, <2>2, FinishKeeps, ThenKeeps DEF PeerSteps
<1>4. CASE encode_message(q)
  <2>1. UNCHANGED <<sent, address, message, clockVars, handed, signal, window>>
    BY <1>4 DEF encode_message
  <2>2. CASE Finish(q) /\ UNCHANGED file
    BY <2>1, <2>2, FinishKeeps
  <2>3. CASE file' = file \cup {peer[q].msg} /\ Then(q, "check")
    <3>1. peer[q].msg \in Messages
      BY <1>4 DEF encode_message, On, MessagingInv, ErrandsAreKnown
    <3>. QED BY <2>1, <2>3, <3>1, ThenKeeps DEF PeerSteps
  <2>. QED BY <1>4, <2>2, <2>3 DEF encode_message
<1>5. CASE CheckTarget(q)
  <2>1. UNCHANGED <<sent, address, message, clockVars, handed, noticeVars>>
    BY <1>5 DEF CheckTarget
  <2>2. Finish(q) \/ Then(q, "notify")
    BY <1>5 DEF CheckTarget
  <2>. QED BY <2>1, <2>2, FinishKeeps, ThenKeeps DEF PeerSteps, noticeVars
<1>6. CASE Notify(q)
  <2>1. /\ Finish(q)
        /\ UNCHANGED <<sent, address, message, clockVars, handed, file, window>>
    BY <1>6 DEF Notify
  <2>2. signal' = signal \/ signal' = [signal EXCEPT ![address[peer[q].msg]] = peer[q].msg]
    BY <1>6 DEF Notify
  <2>3. signal' \in [Inboxes -> 0..MaxMessages]
    BY <2>2
  <2>. QED BY <2>1, <2>3, FinishKeeps
<1>. QED BY <1>1, <1>2, <1>3, <1>4, <1>5, <1>6 DEF Noticing

LEMMA StoringKeeps ==
  ASSUME MessagingInv, NEW q \in Peers, Storing(q)
  PROVE  MessagingInv'
<1>. USE MessagingFacts
<1>1. CASE \E i \in Inboxes : send(q, i)
  BY <1>1, SendKeeps
<1>2. CASE \E i \in Inboxes : \E tool, mark \in BOOLEAN : receive(q, i, tool, mark)
  BY <1>2, ReceiveKeeps
<1>3. CASE cleanup_expired(q)
  <2>. DEFINE dropped == {m \in Rows : m <= expired \/ (m <= aged /\ message[m] = "read")}
              step == IF peer[q].msg = 0 THEN "maintain" ELSE "insert"
  <2>1. /\ Drop(dropped) /\ Then(q, step)
        /\ UNCHANGED <<sent, address, clockVars, handed, noticeVars>>
    BY <1>3 DEF cleanup_expired
  <2>2. step \in PeerSteps /\ step \notin {"remove", "encode"}
    BY DEF PeerSteps
  <2>. HIDE DEF dropped, step
  <2>3. message' \in [Messages -> {"none", "unread", "read"}] /\ Rows' \subseteq Rows
    BY <2>1, DropTypes DEF MessagingInv
  <2>. QED BY <2>1, <2>2, <2>3, ThenKeeps DEF noticeVars
<1>4. CASE save(q)
  BY <1>4, SaveKeeps
<1>5. CASE cleanup(q)
  BY <1>5, ThenKeeps DEF cleanup, PeerSteps, noticeVars
<1>6. CASE Show(q)
  <2>1. /\ handed' = handed \cup peer[q].got /\ Then(q, "remove")
        /\ UNCHANGED <<sent, address, message, clockVars, noticeVars>>
    BY <1>6 DEF Show
  <2>. QED BY <2>1, ThenKeeps DEF PeerSteps, noticeVars
<1>7. CASE delete_by_ids(q)
  <2>1. /\ Drop(peer[q].got) /\ Finish(q)
        /\ UNCHANGED <<sent, address, clockVars, handed, noticeVars>>
    BY <1>7 DEF delete_by_ids
  <2>2. message' \in [Messages -> {"none", "unread", "read"}] /\ Rows' \subseteq Rows
    BY <2>1, DropTypes DEF MessagingInv
  <2>. QED BY <2>1, <2>2, FinishKeeps DEF noticeVars
<1>8. CASE mark_as_read(q)
  <2>1. /\ message' = [m \in Messages |->
                       IF m \in peer[q].got /\ message[m] # "none" THEN "read" ELSE message[m]]
        /\ Then(q, "reply")
        /\ UNCHANGED <<sent, address, clockVars, handed, noticeVars>>
    BY <1>8 DEF mark_as_read
  <2>2. message' \in [Messages -> {"none", "unread", "read"}] /\ Rows' \subseteq Rows
    BY <2>1 DEF Rows
  <2>. QED BY <2>1, <2>2, ThenKeeps DEF PeerSteps, noticeVars
<1>9. CASE Reply(q)
  <2>1. /\ handed' = handed \cup peer[q].got /\ Finish(q)
        /\ UNCHANGED <<sent, address, message, clockVars, noticeVars>>
    BY <1>9 DEF Reply
  <2>. QED BY <2>1, FinishKeeps DEF noticeVars
<1>10. CASE PeerDies(q)
  BY <1>10, NoErrandIsErrand, OnlyPeerStep DEF PeerDies
<1>. QED BY <1>1, <1>2, <1>3, <1>4, <1>5, <1>6, <1>7, <1>8, <1>9, <1>10 DEF Storing

LEMMA DispatchingKeeps ==
  ASSUME MessagingInv, NEW q \in Peers, Dispatching(q)
  PROVE  MessagingInv'
<1>1. CASE dispatch_message_broadcast(q) \/ BroadcastAgain(q)
  BY <1>1, StartBroadcastKeeps DEF dispatch_message_broadcast, BroadcastAgain, Free
<1>2. CASE \E i \in Inboxes : dispatch_message_send(q, i)
  BY <1>2, SendKeeps DEF dispatch_message_send
<1>3. CASE \E i \in Inboxes : \E mark \in BOOLEAN : dispatch_message_receive(q, i, mark)
  BY <1>3, ReceiveKeeps DEF dispatch_message_receive
<1>. QED BY <1>1, <1>2, <1>3 DEF Dispatching

LEMMA MessagingNextKeeps ==
  ASSUME MessagingInv, [MessagingNext]_messagingVars
  PROVE  MessagingInv'
<1>1. CASE \E q \in Peers : Storing(q) \/ Dispatching(q) \/ Noticing(q)
  BY <1>1, StoringKeeps, DispatchingKeeps, NoticingKeeps
<1>2. CASE TimePasses
  <2>1. MessagingTypes'
    BY <1>2, MessagingAssumption DEF TimePasses, MessagingInv, MessagingTypes, noticeVars
  <2>2. ErrandsAreKnown' /\ TableCapped'
    BY <1>2 DEF TimePasses, MessagingInv, ErrandsAreKnown, TableCapped, Rows
  <2>. QED BY <2>1, <2>2 DEF MessagingInv
<1>3. CASE \E i \in Inboxes : WindowChanges(i)
  <2>1. MessagingTypes'
    BY <1>3, MessagingAssumption DEF WindowChanges, MessagingInv, MessagingTypes, clockVars
  <2>2. ErrandsAreKnown' /\ TableCapped'
    BY <1>3 DEF WindowChanges, MessagingInv, ErrandsAreKnown, TableCapped, Rows
  <2>. QED BY <2>1, <2>2 DEF MessagingInv
<1>4. CASE UNCHANGED messagingVars
  BY <1>4 DEF messagingVars, clockVars, noticeVars, MessagingInv, MessagingTypes,
              ErrandsAreKnown, TableCapped, Rows
<1>. QED BY <1>1, <1>2, <1>3, <1>4 DEF MessagingNext

\* Only three actions take rows away.
LEMMA RowsThatGo ==
  ASSUME MessagingInv, MessagingNext,
         NEW m \in Messages, message[m] = "unread", message'[m] = "none", m \notin handed
  PROVE  m <= expired \/ m \in Overflow
<1>0. MessagingTypes /\ m \in Rows
  BY DEF MessagingInv, Rows
<1>1. SUFFICES ASSUME message' # message
               PROVE  m <= expired \/ m \in Overflow
  OBVIOUS
<1>2. PICK q \in Peers : cleanup_expired(q) \/ save(q) \/ delete_by_ids(q) \/ mark_as_read(q)
  <2>1. ~TimePasses /\ \A i \in Inboxes : ~WindowChanges(i)
    BY <1>1 DEF TimePasses, WindowChanges
  <2>2. \A q \in Peers, i \in Inboxes : ~send(q, i)
    BY <1>1 DEF send, CreateMessage
  <2>3. \A q \in Peers, i \in Inboxes, tool, mark \in BOOLEAN : ~receive(q, i, tool, mark)
    BY <1>1 DEF receive
  <2>4. \A q \in Peers : ~Dispatching(q)
    BY <1>1, <2>2, <2>3
    DEF Dispatching, dispatch_message_broadcast, BroadcastAgain, StartBroadcast,
        dispatch_message_send, dispatch_message_receive
  <2>5. \A q \in Peers : ~Noticing(q)
    BY <1>1 DEF Noticing, broadcast, StartBroadcast, BroadcastNext, CreateMessage,
                Maintain, encode_message, CheckTarget, Notify
  <2>6. \A q \in Peers : ~cleanup(q) /\ ~Show(q) /\ ~Reply(q) /\ ~PeerDies(q)
    BY <1>1 DEF cleanup, Show, Reply, PeerDies
  <2>. QED BY <2>1, <2>2, <2>3, <2>4, <2>5, <2>6 DEF MessagingNext, Storing
<1>3. CASE cleanup_expired(q)
  <2>1. m \in {n \in Rows : n <= expired \/ (n <= aged /\ message[n] = "read")}
    BY <1>0, <1>3 DEF cleanup_expired, Drop
  <2>. QED BY <2>1
<1>4. CASE save(q)
  BY <1>4 DEF save
<1>5. CASE delete_by_ids(q)
  <2>1. m \in peer[q].got
    BY <1>5 DEF delete_by_ids, Drop
  <2>. QED BY <1>5, <2>1 DEF delete_by_ids, On, MessagingInv, ErrandsAreKnown
<1>6. CASE mark_as_read(q)
  BY <1>6 DEF mark_as_read
<1>. QED BY <1>2, <1>3, <1>4, <1>5, <1>6

\* MessageStoreRepository: the types, and the cap MAX_TOTAL_MESSAGES after
\* every step.
THEOREM MessagingTypeCorrect == MessagingSpec => []MessagingTypeOK
<1>1. MessagingInv => MessagingTypeOK
  BY DEF MessagingInv, MessagingTypes, MessagingTypeOK, TableCapped, Rows
<1>. QED BY MessagingInitEstablishes, MessagingNextKeeps, <1>1, PTL DEF MessagingSpec

\* MessageStoreRepository.save, cleanup_expired and delete_by_ids: a message
\* nobody has been shown leaves the table unread only by age or by the cap.
THEOREM UnreadMessagesAreKept == MessagingSpec => UnreadIsKept
<1>1. MessagingInv /\ [MessagingNext]_messagingVars
      => [\A m \in Messages :
            message[m] = "unread" /\ message'[m] = "none" /\ m \notin handed
            => m <= expired \/ m \in Overflow]_messagingVars
  BY RowsThatGo
<1>. QED BY MessagingInitEstablishes, MessagingNextKeeps, <1>1, PTL
         DEF MessagingSpec, UnreadIsKept

-----------------------------------------------------------------------------
(*****************************************************************************)
(* Telemetry.  An event leaves the buffer of a process that goes on only     *)
(* when the table has it or cleanup_expired has taken it out again, for      *)
(* every number of processes, services and events and every batch size.      *)
(*                                                                           *)
(* A flush empties the buffer after its transaction: until then, what it is  *)
(* about to clear is stored (ClearedIsStored).                               *)
(*****************************************************************************)

\* A flush clears its buffer after its transaction: what it is about to clear
\* is stored, or cleanup_expired has taken it away.
ClearedIsStored ==
  \A p \in TelemetryProcs :
    tracker[p].at = "clear" => buffer[p][tracker[p].on] \subseteq stored \cup outdated

\* The inductive invariant of the telemetry.
TelemetryInv == TelemetryTypeOK /\ ClearedIsStored

\* What TrackedIsKept says of a step.
KeepsTracked ==
  \A p \in TelemetryProcs, s \in Services :
    tracker'[p].at # "off" => buffer[p][s] \subseteq buffer'[p][s] \cup stored' \cup outdated'

\* Every buffer is empty.
LEMMA TelemetryStarts == TelemetryInit => TelemetryInv
<1> USE TelemetryAssumption
<1> QED BY DEF TelemetryInit, TelemetryInv, TelemetryTypeOK, ClearedIsStored, NoBuffers,
     TrackingOff, Tracking, Services, Events, TelemetryProcs

\* A step of one process: the services of the others are as they were.
LEMMA ProcessTells ==
  ASSUME TelemetryInv, NEW p \in TelemetryProcs, NEW t \in Tracking,
         NEW b \in [Services -> SUBSET Events],
         tracker' = [tracker EXCEPT ![p] = t], buffer' = [buffer EXCEPT ![p] = b],
         made' \in 0..MaxEvents, stored \subseteq stored', stored' \subseteq Events,
         outdated' = outdated, summaries' \subseteq Commands,
         reported' \in [Commands -> SUBSET Events],
         t.at = "clear" => b[t.on] \subseteq stored' \cup outdated,
         t.at # "off" => \A s \in Services : buffer[p][s] \subseteq b[s] \cup stored' \cup outdated
  PROVE  TelemetryInv' /\ KeepsTracked
<1>0. TelemetryTypeOK /\ ClearedIsStored BY DEF TelemetryInv
<1>1. /\ tracker'[p] = t /\ buffer'[p] = b
      /\ \A q \in TelemetryProcs \ {p} : tracker'[q] = tracker[q] /\ buffer'[q] = buffer[q]
  BY <1>0 DEF TelemetryTypeOK
<1>2. /\ tracker' \in [TelemetryProcs -> Tracking]
      /\ buffer' \in [TelemetryProcs -> [Services -> SUBSET Events]]
  BY <1>0, <1>1 DEF TelemetryTypeOK
<1>3. TelemetryTypeOK' BY <1>0, <1>2 DEF TelemetryTypeOK
<1>4. ClearedIsStored'
  <2> SUFFICES ASSUME NEW q \in TelemetryProcs, tracker'[q].at = "clear"
               PROVE  buffer'[q][tracker'[q].on] \subseteq stored' \cup outdated'
    BY DEF ClearedIsStored
  <2>1. CASE q = p BY <1>1, <2>1
  <2>2. CASE q # p
    <3>1. buffer[q][tracker[q].on] \subseteq stored \cup outdated
      BY <1>0, <1>1, <2>2 DEF ClearedIsStored
    <3> QED BY <1>1, <2>2, <3>1
  <2> QED BY <2>1, <2>2
<1>5. KeepsTracked
  <2> SUFFICES ASSUME NEW q \in TelemetryProcs, NEW s \in Services, tracker'[q].at # "off"
               PROVE  buffer[q][s] \subseteq buffer'[q][s] \cup stored' \cup outdated'
    BY DEF KeepsTracked
  <2>1. CASE q = p BY <1>1, <2>1
  <2>2. CASE q # p BY <1>1, <2>2
  <2> QED BY <2>1, <2>2
<1> QED BY <1>3, <1>4, <1>5 DEF TelemetryInv

\* A step of one process that leaves its buffers and the table alone.
LEMMA ProcessGoesOn ==
  ASSUME TelemetryInv, NEW p \in TelemetryProcs, NEW t \in Tracking,
         tracker' = [tracker EXCEPT ![p] = t], t.at # "clear", summaries' \subseteq Commands,
         UNCHANGED <<made, buffer, stored, outdated, reported>>
  PROVE  TelemetryInv' /\ KeepsTracked
<1>0. TelemetryTypeOK BY DEF TelemetryInv
<1>1. PICK b \in [Services -> SUBSET Events] : b = buffer[p] BY <1>0 DEF TelemetryTypeOK
<1>2. buffer' = [buffer EXCEPT ![p] = b] BY <1>0, <1>1 DEF TelemetryTypeOK
<1> QED BY <1>0, <1>1, <1>2, ProcessTells DEF TelemetryTypeOK

\* track: the buffer has one event more, whether it is flushed or not.
LEMMA EventTracked ==
  ASSUME TelemetryInv, NEW p \in TelemetryProcs, NEW s \in Services,
         NEW flushes \in BOOLEAN, NEW then \in {"ready", "tracked", "flush", "ended"},
         Track(p, s, flushes, then),
         reported' \in [Commands -> SUBSET Events],
         UNCHANGED <<stored, outdated, summaries>>
  PROVE  TelemetryInv' /\ KeepsTracked
<1> USE TelemetryAssumption
<1>0. TelemetryTypeOK BY DEF TelemetryInv
<1>1. made' \in 0..MaxEvents /\ made' \in Events
  BY <1>0 DEF Track, TelemetryTypeOK, Events
<1>2. PICK events : events = buffer[p][s] \cup {made'} OBVIOUS
<1>3. buffer[p] \in [Services -> SUBSET Events] /\ events \subseteq Events
  BY <1>0, <1>1, <1>2 DEF TelemetryTypeOK
<1>4. PICK b : b = [buffer[p] EXCEPT ![s] = events] OBVIOUS
<1>5. b \in [Services -> SUBSET Events] BY <1>3, <1>4
<1>6. buffer' = [buffer EXCEPT ![p] = b] BY <1>2, <1>4 DEF Track
<1>7. \E t \in Tracking : t.at # "clear" /\ tracker' = [tracker EXCEPT ![p] = t]
  <2>1. \/ TrackerAt(p, then, "last", then) \/ FlushBegins(p, s, events, then)
    BY <1>2, Zenon DEF Track
  <2>2. TrackerAt(p, then, "last", then) \/ TrackerAt(p, "save", s, then)
    BY <2>1 DEF FlushBegins
  <2> QED BY <2>2 DEF TrackerAt, Tracking, Services
<1>8. \A u \in Services : buffer[p][u] \subseteq b[u] BY <1>2, <1>3, <1>4
<1> QED BY <1>0, <1>1, <1>5, <1>6, <1>7, <1>8, ProcessTells DEF TelemetryTypeOK

\* Every action preserves TelemetryInv and keeps what was tracked.
LEMMA TelemetryStep ==
  TelemetryInv /\ [TelemetryNext]_telemetryVars => TelemetryInv' /\ (KeepsTracked \/ UNCHANGED telemetryVars)
<1> SUFFICES ASSUME TelemetryInv, [TelemetryNext]_telemetryVars
             PROVE  TelemetryInv' /\ (KeepsTracked \/ UNCHANGED telemetryVars)
  OBVIOUS
<1> USE TelemetryAssumption
<1>0. TelemetryTypeOK /\ ClearedIsStored BY DEF TelemetryInv
<1>1. ASSUME NEW p \in TelemetryProcs, start_telemetry(p)
      PROVE  TelemetryInv' /\ KeepsTracked
  <2>1. PICK t : t = [at |-> "start", on |-> "session", then |-> "ready"] OBVIOUS
  <2>2. t \in Tracking /\ t.at # "clear" BY <2>1 DEF Tracking, Services
  <2>3. tracker' = [tracker EXCEPT ![p] = t] BY <1>1, <2>1 DEF start_telemetry, TrackerAt
  <2>4. summaries' \subseteq Commands BY <1>0, <1>1 DEF start_telemetry, TelemetryTypeOK
  <2> QED BY <1>1, <2>2, <2>3, <2>4, ProcessGoesOn DEF start_telemetry
<1>2. ASSUME NEW p \in TelemetryProcs, track_session_start(p)
      PROVE  TelemetryInv' /\ KeepsTracked
  <2>1. reported' \in [Commands -> SUBSET Events]
    BY <1>0, <1>2 DEF track_session_start, TelemetryTypeOK
  <2> QED BY <1>2, <2>1, EventTracked DEF track_session_start, Services
<1>3. ASSUME NEW p \in TelemetryProcs, track_memory(p)
      PROVE  TelemetryInv' /\ KeepsTracked
  <2>1. made' \in Events BY <1>0, <1>3 DEF track_memory, Track, TelemetryTypeOK, Events
  <2>2. reported' \in [Commands -> SUBSET Events]
    BY <1>0, <1>3, <2>1 DEF track_memory, TelemetryTypeOK
  <2>3. PICK then \in {"ready", "tracked", "flush", "ended"} :
          then = IF p \in Commands THEN "tracked" ELSE "ready"
    OBVIOUS
  <2>4. Track(p, "memory", FALSE, then) BY <1>3, <2>3, Zenon DEF track_memory
  <2> QED BY <1>3, <2>2, <2>4, EventTracked DEF track_memory, Services
<1>4. ASSUME NEW p \in TelemetryProcs, track_dispatch(p)
      PROVE  TelemetryInv' /\ KeepsTracked
  <2>1. reported' \in [Commands -> SUBSET Events]
    BY <1>0, <1>4 DEF track_dispatch, TelemetryTypeOK
  <2> QED BY <1>4, <2>1, EventTracked DEF track_dispatch, Services
<1>5. ASSUME NEW p \in TelemetryProcs, save_batch(p)
      PROVE  TelemetryInv' /\ KeepsTracked
  <2>0. tracker[p] \in Tracking BY <1>0 DEF TelemetryTypeOK
  <2>1. CASE /\ TrackerAt(p, "clear", tracker[p].on, tracker[p].then)
             /\ stored' = stored \cup buffer[p][tracker[p].on]
    <3>1. PICK t : t = [at |-> "clear", on |-> tracker[p].on, then |-> tracker[p].then] OBVIOUS
    <3>2. t \in Tracking /\ t.on = tracker[p].on BY <2>0, <3>1 DEF Tracking
    <3>3. tracker' = [tracker EXCEPT ![p] = t] BY <2>1, <3>1 DEF TrackerAt
    <3>4. PICK b \in [Services -> SUBSET Events] : b = buffer[p] BY <1>0 DEF TelemetryTypeOK
    <3>5. buffer' = [buffer EXCEPT ![p] = b] BY <1>0, <1>5, <3>4 DEF save_batch, TelemetryTypeOK
    <3>6. t.on \in Services BY <3>2 DEF Tracking
    <3>7. /\ stored \subseteq stored' /\ stored' \subseteq Events
          /\ b[t.on] \subseteq stored' \cup outdated
      BY <1>0, <2>1, <3>2, <3>4, <3>6 DEF TelemetryTypeOK
    <3>8. /\ made' \in 0..MaxEvents /\ outdated' = outdated /\ summaries' \subseteq Commands
          /\ reported' \in [Commands -> SUBSET Events]
      BY <1>0, <1>5 DEF save_batch, TelemetryTypeOK
    <3> QED BY <3>2, <3>3, <3>4, <3>5, <3>7, <3>8, ProcessTells
  <2>2. CASE TrackerAt(p, tracker[p].then, "last", tracker[p].then) /\ UNCHANGED stored
    <3>1. PICK t : t = [at |-> tracker[p].then, on |-> "last", then |-> tracker[p].then] OBVIOUS
    <3>2. t \in Tracking /\ t.at # "clear" BY <2>0, <3>1 DEF Tracking, Services
    <3>3. tracker' = [tracker EXCEPT ![p] = t] BY <2>2, <3>1 DEF TrackerAt
    <3>4. summaries' \subseteq Commands BY <1>0, <1>5 DEF save_batch, TelemetryTypeOK
    <3> QED BY <1>5, <2>2, <3>2, <3>3, <3>4, ProcessGoesOn DEF save_batch
  <2> QED BY <1>5, <2>1, <2>2 DEF save_batch
<1>6. ASSUME NEW p \in TelemetryProcs, flush(p)
      PROVE  TelemetryInv' /\ KeepsTracked
  <2>0. tracker[p] \in Tracking /\ buffer[p] \in [Services -> SUBSET Events]
    BY <1>0 DEF TelemetryTypeOK
  <2>1. PICK t : t = [at |-> tracker[p].then, on |-> "last", then |-> tracker[p].then] OBVIOUS
  <2>2. t \in Tracking /\ t.at # "clear" BY <2>0, <2>1 DEF Tracking, Services
  <2>3. tracker' = [tracker EXCEPT ![p] = t] BY <1>6, <2>1 DEF flush, TrackerAt
  <2>4. PICK s \in Services : s = tracker[p].on BY <2>0 DEF Tracking
  <2>5. PICK b : b = [buffer[p] EXCEPT ![s] = {}] OBVIOUS
  <2>6. b \in [Services -> SUBSET Events] BY <2>0, <2>5
  <2>7. buffer' = [buffer EXCEPT ![p] = b] BY <1>6, <2>4, <2>5 DEF flush
  <2>8. buffer[p][s] \subseteq stored \cup outdated
    BY <1>0, <1>6, <2>4 DEF flush, ClearedIsStored
  <2>9. /\ made' \in 0..MaxEvents /\ outdated' = outdated /\ summaries' \subseteq Commands
        /\ reported' \in [Commands -> SUBSET Events] /\ stored' = stored /\ stored' \subseteq Events
    BY <1>0, <1>6 DEF flush, TelemetryTypeOK
  <2>10. \A u \in Services : buffer[p][u] \subseteq b[u] \cup stored' \cup outdated
    BY <2>0, <2>5, <2>8, <2>9
  <2> QED BY <2>2, <2>3, <2>6, <2>7, <2>9, <2>10, ProcessTells
<1>7. ASSUME NEW p \in TelemetryProcs, flush_last(p)
      PROVE  TelemetryInv' /\ KeepsTracked
  <2>1. \E t \in Tracking : t.at # "clear" /\ tracker' = [tracker EXCEPT ![p] = t]
    BY <1>7 DEF flush_last, FlushBegins, TrackerAt, Tracking, Services
  <2>2. summaries' \subseteq Commands BY <1>0, <1>7 DEF flush_last, TelemetryTypeOK
  <2> QED BY <1>7, <2>1, <2>2, ProcessGoesOn DEF flush_last
<1>8. ASSUME NEW p \in TelemetryProcs, ProcessEnds(p)
      PROVE  TelemetryInv' /\ KeepsTracked
  <2>1. TrackingOff \in Tracking /\ TrackingOff.at = "off"
    BY DEF TrackingOff, Tracking, Services
  <2>2. NoBuffers \in [Services -> SUBSET Events] BY DEF NoBuffers
  <2>3. reported' \in [Commands -> SUBSET Events]
    BY <1>0, <1>8 DEF ProcessEnds, TelemetryTypeOK
  <2>4. /\ made' \in 0..MaxEvents /\ outdated' = outdated /\ summaries' \subseteq Commands
        /\ stored' = stored /\ stored' \subseteq Events
    BY <1>0, <1>8 DEF ProcessEnds, TelemetryTypeOK
  <2> QED BY <1>8, <2>1, <2>2, <2>3, <2>4, ProcessTells DEF ProcessEnds
<1>9. CASE serve_telemetry
  <2>1. PICK t : t = [at |-> "ready", on |-> "last", then |-> "ready"] OBVIOUS
  <2>2. t \in Tracking /\ t.at # "clear" BY <2>1 DEF Tracking, Services
  <2>3. tracker' = [tracker EXCEPT ![McpServer] = t]
    BY <1>9, <2>1 DEF serve_telemetry, TrackerAt
  <2>4. summaries' \subseteq Commands BY <1>0, <1>9 DEF serve_telemetry, TelemetryTypeOK
  <2> QED BY <1>9, <2>2, <2>3, <2>4, ProcessGoesOn DEF serve_telemetry, TelemetryProcs
<1>10. CASE cleanup_outdated
  <2>1. TelemetryTypeOK' BY <1>0, <1>10 DEF cleanup_outdated, TelemetryTypeOK
  <2>2. ClearedIsStored'
    <3> SUFFICES ASSUME NEW p \in TelemetryProcs, tracker'[p].at = "clear"
                 PROVE  buffer'[p][tracker'[p].on] \subseteq stored' \cup outdated'
      BY DEF ClearedIsStored
    <3>1. buffer[p][tracker[p].on] \subseteq stored \cup outdated
      BY <1>0, <1>10 DEF cleanup_outdated, ClearedIsStored
    <3> QED BY <1>10, <3>1 DEF cleanup_outdated
  <2>3. KeepsTracked BY <1>10 DEF cleanup_outdated, KeepsTracked
  <2> QED BY <2>1, <2>2, <2>3 DEF TelemetryInv
<1>11. CASE EventsAge
  <2>1. PICK e \in 1..made : outdated' = outdated \cup {e} BY <1>11 DEF EventsAge
  <2>2. e \in Events BY <1>0 DEF TelemetryTypeOK, Events
  <2>3. TelemetryTypeOK' BY <1>0, <1>11, <2>1, <2>2 DEF EventsAge, TelemetryTypeOK
  <2>4. ClearedIsStored'
    <3> SUFFICES ASSUME NEW p \in TelemetryProcs, tracker'[p].at = "clear"
                 PROVE  buffer'[p][tracker'[p].on] \subseteq stored' \cup outdated'
      BY DEF ClearedIsStored
    <3>1. buffer[p][tracker[p].on] \subseteq stored \cup outdated
      BY <1>0, <1>11 DEF EventsAge, ClearedIsStored
    <3> QED BY <1>11, <2>1, <3>1 DEF EventsAge
  <2>5. KeepsTracked BY <1>11 DEF EventsAge, KeepsTracked
  <2> QED BY <2>3, <2>4, <2>5 DEF TelemetryInv
<1>12. CASE UNCHANGED telemetryVars
  BY <1>0, <1>12 DEF telemetryVars, TelemetryInv, TelemetryTypeOK, ClearedIsStored
<1> QED BY <1>1, <1>2, <1>3, <1>4, <1>5, <1>6, <1>7, <1>8, <1>9, <1>10, <1>11, <1>12
    DEF TelemetryNext, Telling

\* TelemetryInv is an invariant of the telemetry.
LEMMA TelemetryAlways == TelemetrySpec => []TelemetryInv
<1>1. TelemetryInv /\ [TelemetryNext]_telemetryVars => TelemetryInv' BY TelemetryStep
<1> QED BY <1>1, TelemetryStarts, PTL DEF TelemetrySpec

\* The variables of the telemetry keep their types.
THEOREM TelemetryTypeCorrect == TelemetrySpec => []TelemetryTypeOK
<1>1. TelemetryInv => TelemetryTypeOK BY DEF TelemetryInv
<1> QED BY <1>1, TelemetryAlways, PTL

\* Whatever fails or dies between the transaction of a flush and its clear(),
\* no event leaves the buffer of a service that goes on before the table has it.
THEOREM BufferedIsKept == TelemetrySpec => TrackedIsKept
<1>1. TelemetryInv /\ [TelemetryNext]_telemetryVars => [KeepsTracked]_telemetryVars
  BY TelemetryStep
<1> QED BY <1>1, TelemetryAlways, PTL DEF TelemetrySpec, TrackedIsKept, KeepsTracked

=============================================================================
