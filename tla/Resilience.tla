----------------------------- MODULE Resilience -----------------------------
(***************************************************************************)
(* What tmux_orchestrator has for agents that fail: TmuxCircuitBreaker,    *)
(* which every Agent has one of, DeadLetterQueue and retry_with_backoff.   *)
(* Their callers are threads of one process.                               *)
(*                                                                         *)
(* A method of the breaker holds its lock, can_execute two times with a    *)
(* gap in between; a method of the queue holds the lock of queue.Queue for *)
(* one item.                                                               *)
(***************************************************************************)
EXTENDS Naturals, Sequences

CONSTANTS
  Threads,           \* threads that use the breaker and the queue
  FailureThreshold,  \* failure_threshold
  HalfOpenMax,       \* half_open_max_calls
  MaxFailures,       \* bound: _failure_count
  QueueSize,         \* max_size of the dead letter queue
  MaxLetters,        \* bound: letters
  MaxRetries         \* max_retries

ASSUME ResilienceAssumption ==
  /\ FailureThreshold \in Nat \ {0} /\ HalfOpenMax \in Nat
  /\ MaxFailures \in Nat /\ MaxFailures >= FailureThreshold
  /\ QueueSize \in Nat /\ MaxLetters \in Nat /\ MaxRetries \in Nat

VARIABLES
  circuit,    \* _state
  failures,   \* _failure_count
  recovered,  \* recovery_timeout has passed since _last_failure_time
  trials,     \* _half_open_calls
  caller,     \* how far each thread is with the breaker
  letters,    \* letters added so far
  queue,      \* _queue
  persisted,  \* the file
  persister,  \* the letters a persist has drained
  attempts    \* of each thread's retry_with_backoff

breakerVars == <<circuit, failures, recovered, trials, caller>>
letterVars == <<letters, queue, persisted, persister>>
resilienceVars == <<circuit, failures, recovered, trials, caller,
                    letters, queue, persisted, persister, attempts>>

-----------------------------------------------------------------------------

Letters == 1..MaxLetters

\* The type invariant.
ResilienceTypeOK ==
  /\ circuit \in {"closed", "open", "half_open"}
  /\ failures \in 0..MaxFailures
  /\ recovered \in BOOLEAN
  /\ trials \in 0..HalfOpenMax
  /\ caller \in [Threads -> {"idle", "half_open", "executing"}]
  /\ letters \in 0..MaxLetters
  /\ queue \in Seq(Letters) /\ Len(queue) <= QueueSize
  /\ persisted \in Seq(Letters)
  /\ persister \in [open : BOOLEAN, items : Seq(Letters)]
  /\ attempts \in [Threads -> [at : {"idle", "trying", "done", "failed"}, n : 0..MaxRetries + 1]]

NoPersist == [open |-> FALSE, items |-> <<>>]
NoAttempt == [at |-> "idle", n |-> 0]

ResilienceInit ==
  /\ circuit = "closed" /\ failures = 0 /\ recovered = FALSE /\ trials = 0
  /\ caller = [t \in Threads |-> "idle"]
  /\ letters = 0 /\ queue = <<>> /\ persisted = <<>> /\ persister = NoPersist
  /\ attempts = [t \in Threads |-> NoAttempt]

-----------------------------------------------------------------------------
(* TmuxCircuitBreaker *)

\* The property state, which half opens an open circuit when it is time.
HalfOpens == circuit = "open" /\ recovered
State == IF HalfOpens THEN "half_open" ELSE circuit

\* The first half of can_execute: the state.
can_execute(t) ==
  /\ caller[t] = "idle"
  /\ circuit' = State
  /\ trials' = IF HalfOpens THEN 0 ELSE trials
  /\ caller' = [caller EXCEPT ![t] =
       IF State = "closed" THEN "executing" ELSE IF State = "half_open" THEN State ELSE @]
  /\ UNCHANGED <<failures, recovered, letterVars, attempts>>

\* The second half: a slot, whatever has become of the circuit since.
TakeSlot(t) ==
  /\ caller[t] = "half_open"
  /\ IF trials < HalfOpenMax
     THEN trials' = trials + 1 /\ caller' = [caller EXCEPT ![t] = "executing"]
     ELSE UNCHANGED trials /\ caller' = [caller EXCEPT ![t] = "idle"]
  /\ UNCHANGED <<circuit, failures, recovered, letterVars, attempts>>

record_success(t) ==
  /\ caller[t] = "executing"
  /\ circuit' = "closed" /\ failures' = 0
  /\ caller' = [caller EXCEPT ![t] = "idle"]
  /\ UNCHANGED <<recovered, trials, letterVars, attempts>>

\* Mutant: a trial that fails leaves the circuit half open.
FailureCounted(t) ==
  /\ caller[t] = "executing" /\ failures < MaxFailures
  /\ failures' = failures + 1 /\ recovered' = FALSE
  /\ circuit' = IF failures' = FailureThreshold + 1 THEN "open" ELSE circuit
  /\ caller' = [caller EXCEPT ![t] = "idle"]
  /\ UNCHANGED <<trials, letterVars, attempts>>

record_failure(t) ==
  /\ caller[t] = "executing" /\ failures < MaxFailures
  /\ failures' = failures + 1 /\ recovered' = FALSE
  /\ circuit' = IF failures' >= FailureThreshold THEN "open" ELSE circuit
  /\ caller' = [caller EXCEPT ![t] = "idle"]
  /\ UNCHANGED <<trials, letterVars, attempts>>

\* A caller may record nothing, as the Agent that only asks.
Abandon(t) ==
  /\ caller[t] = "executing"
  /\ caller' = [caller EXCEPT ![t] = "idle"]
  /\ UNCHANGED <<circuit, failures, recovered, trials, letterVars, attempts>>

\* reset
reset_circuit ==
  /\ circuit' = "closed" /\ failures' = 0
  /\ UNCHANGED <<recovered, trials, caller, letterVars, attempts>>

\* Time passes.
RecoveryElapses ==
  /\ ~recovered /\ recovered' = TRUE
  /\ UNCHANGED <<circuit, failures, trials, caller, letterVars, attempts>>

Breaking(t) ==
  \/ can_execute(t) \/ TakeSlot(t) \/ record_success(t) \/ record_failure(t) \/ Abandon(t)

-----------------------------------------------------------------------------
(* DeadLetterQueue *)

\* put_nowait: a full queue drops the letter.
PutNowait(items, letter) == IF Len(items) < QueueSize THEN Append(items, letter) ELSE items

add_letter ==
  /\ letters < MaxLetters /\ letters' = letters + 1
  /\ queue' = PutNowait(queue, letters')
  /\ UNCHANGED <<persisted, persister, breakerVars, attempts>>

\* requeue of the letter that has just been taken.
Requeued == PutNowait(Tail(queue), Head(queue))

\* get; the letter may be put back.
get_letter ==
  /\ queue # <<>>
  /\ queue' \in {Tail(queue), Requeued}
  /\ UNCHANGED <<letters, persisted, persister, breakerVars, attempts>>

\* get_all, item by item: the first step of persist.
DrainOne ==
  /\ queue # <<>>
  /\ persister' = [open |-> TRUE, items |-> Append(persister.items, Head(queue))]
  /\ queue' = Tail(queue)
  /\ UNCHANGED <<letters, persisted, breakerVars, attempts>>

\* The file is opened, which empties it, and written; the process may die
\* before, between or after the two.
persist_letters ==
  /\ persister.open
  /\ persisted' = persister.items /\ persister' = NoPersist
  /\ UNCHANGED <<letters, queue, breakerVars, attempts>>

\* load puts the letters of the file, which stays, until the queue is full.
load_letters ==
  /\ ~persister.open
  /\ queue' = LET room == QueueSize - Len(queue)
              IN  queue \o SubSeq(persisted, 1, IF Len(persisted) < room THEN Len(persisted) ELSE room)
  /\ UNCHANGED <<letters, persisted, persister, breakerVars, attempts>>

\* The process dies with its queue, perhaps with the file just emptied.
QueueDies ==
  /\ queue' = <<>> /\ persister' = NoPersist
  /\ persisted' \in IF persister.open THEN {persisted, <<>>} ELSE {persisted}
  /\ UNCHANGED <<letters, breakerVars, attempts>>

DeadLetters ==
  add_letter \/ get_letter \/ DrainOne \/ persist_letters \/ load_letters \/ QueueDies

-----------------------------------------------------------------------------
(* retry_with_backoff and retry_sync *)

retry_sync(t) ==
  /\ attempts[t].at # "trying"
  /\ attempts' = [attempts EXCEPT ![t] = [at |-> "trying", n |-> 0]]
  /\ UNCHANGED <<breakerVars, letterVars>>

\* The function returns, or raises: then again after a delay, or no more.
Attempt(t) ==
  /\ attempts[t].at = "trying"
  /\ \E at \in {"done", IF attempts[t].n < MaxRetries THEN "trying" ELSE "failed"} :
       attempts' = [attempts EXCEPT ![t] = [at |-> at, n |-> @.n + 1]]
  /\ UNCHANGED <<breakerVars, letterVars>>

ResilienceNext ==
  \/ \E t \in Threads : Breaking(t) \/ retry_sync(t) \/ Attempt(t)
  \/ reset_circuit \/ RecoveryElapses \/ DeadLetters

ResilienceSpec == ResilienceInit /\ [][ResilienceNext]_resilienceVars

-----------------------------------------------------------------------------
(* Properties *)

\* The circuit is closed exactly while fewer failures than the threshold have
\* come since the last success, however late a thread reports: a single
\* failure on trial opens a half-open circuit again.
CircuitFollowsFailures == circuit = "closed" <=> failures < FailureThreshold

\* An open circuit lets nobody through: a thread that gets a slot finds the
\* circuit half open.
OpenRefuses ==
  [][\A t \in Threads :
       caller[t] # "executing" /\ caller'[t] = "executing" => circuit' # "open"]_resilienceVars

\* "Messages are persisted to disk and can be retried later": once a letter is
\* in the file it stays there or is in memory.
PersistedIsKept ==
  [][\A i \in DOMAIN persisted :
       \/ \E j \in DOMAIN persisted' : persisted'[j] = persisted[i]
       \/ \E j \in DOMAIN queue' : queue'[j] = persisted[i]]_resilienceVars

=============================================================================
