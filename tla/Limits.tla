------------------------------- MODULE Limits -------------------------------
(***************************************************************************)
(* The two sliding-window limiters: InMemoryRateLimiter behind the API's   *)
(* RateLimitMiddleware, and RateLimiter behind MemoryHook.                 *)
(*                                                                         *)
(* Time is counted in fractions of a second, which the Retry-After header  *)
(* does not show.  is_allowed of the middleware holds the limiter's lock;  *)
(* the hook's is called by one thread.  Nothing calls cleanup_old_entries, *)
(* reset or the hook itself.                                               *)
(***************************************************************************)
EXTENDS Nothing, Naturals, Sequences, FiniteSets

CONSTANTS
  Clients,       \* what the middleware tells clients apart by
  MaxRequests,   \* requests_per_minute, max_requests
  Window,        \* window_seconds, in ticks
  Second,        \* ticks in a second
  MaxAge,        \* max_age of cleanup_old_entries, in ticks
  HookMessages,  \* messages of one rate key
  Allowed,       \* those of an allowed type
  Important,     \* those marked important
  MaxNow         \* bound: the clock

ASSUME LimitsAssumption ==
  /\ MaxRequests \in Nat \ {0} /\ Second \in Nat \ {0} /\ MaxNow \in Nat
  /\ Window \in Nat \ {0} /\ MaxAge \in Nat /\ MaxAge >= Window
  /\ Allowed \subseteq HookMessages /\ Important \subseteq HookMessages

VARIABLES
  entries,   \* _clients of the middleware's limiter
  admitted,  \* the times at which each client's requests were let in
  told,      \* when the last refusal told each client to come back
  stamps,    \* timestamps of the hook's limiter for the one key
  noted,     \* the messages that are in the memory
  config,    \* MemoryHookConfig of the process
  now        \* the time

limitVars == <<entries, admitted, told, stamps, noted, config, now>>

-----------------------------------------------------------------------------

Times == 0..MaxNow

Entry == [requests : Seq(Times), blocked_until : 0..MaxNow + Window]
NoEntry == [requests |-> <<>>, blocked_until |-> 0]

HookConfig == [enabled : BOOLEAN, policy : {"off", "important_only", "all"}, limited : BOOLEAN]

\* The type invariant.
LimitsTypeOK ==
  /\ entries \in [Clients -> Entry]
  /\ admitted \in [Clients -> Seq(Times)]
  /\ told \in [Clients -> 0..MaxNow + Window]
  /\ stamps \in Seq(Times)
  /\ noted \subseteq HookMessages
  /\ config \in HookConfig
  /\ now \in Times

LimitsInit ==
  /\ entries = [c \in Clients |-> NoEntry]
  /\ admitted = [c \in Clients |-> <<>>]
  /\ told = [c \in Clients |-> 0]
  /\ stamps = <<>> /\ noted = {}
  /\ config \in HookConfig
  /\ now = 0

-----------------------------------------------------------------------------

\* The timestamps that are still in the window.
Recent(times) ==
  LET kept[n \in 0..Len(times)] ==
        IF n = 0 THEN <<>>
        ELSE IF now - times[n] < Window THEN Append(kept[n - 1], times[n])
        ELSE kept[n - 1]
  IN  kept[Len(times)]

\* InMemoryRateLimiter.is_allowed, and the answer RateLimitMiddleware makes of
\* it; int() cuts the time that is left to whole seconds.
Refusing(c) == now < entries[c].blocked_until
Full(c) == Len(Recent(entries[c].requests)) >= MaxRequests

Admit(c) ==
  /\ ~Refusing(c) /\ ~Full(c)
  /\ entries' = [entries EXCEPT ![c].requests = Append(Recent(@), now)]
  /\ admitted' = [admitted EXCEPT ![c] = Append(@, now)]
  /\ told' = [told EXCEPT ![c] = 0]

Refuse(c) ==
  \/ /\ Refusing(c)
     /\ told' = [told EXCEPT ![c] = now + Second * ((entries[c].blocked_until - now) \div Second)]
     /\ UNCHANGED entries
  \/ /\ ~Refusing(c) /\ Full(c)
     /\ entries' = [entries EXCEPT ![c] =
          [requests |-> Recent(@.requests), blocked_until |-> now + Window]]
     /\ told' = [told EXCEPT ![c] = now + Window]

\* A request for a path that is not excluded.
is_allowed(c) ==
  /\ Admit(c) \/ (Refuse(c) /\ UNCHANGED admitted)
  /\ UNCHANGED <<stamps, noted, config, now>>

\* cleanup_old_entries
Latest(times) == times[Len(times)]

Old(c) ==
  IF entries[c].requests # <<>>
  THEN now - Latest(entries[c].requests) > MaxAge
  ELSE now > entries[c].blocked_until + MaxAge

cleanup_old_entries ==
  /\ entries' = [c \in Clients |-> IF Old(c) THEN NoEntry ELSE entries[c]]
  /\ UNCHANGED <<admitted, told, stamps, noted, config, now>>

-----------------------------------------------------------------------------

\* should_capture, but for the limiter.  HookPolicy.OFF is never looked at.
Wanted(m) ==
  /\ config.enabled
  /\ m \in Allowed
  /\ config.policy = "important_only" => m \in Important

\* RateLimiter.is_allowed
TakeStamp ==
  IF Len(Recent(stamps)) < MaxRequests
  THEN stamps' = Append(Recent(stamps), now)
  ELSE stamps' = Recent(stamps)

\* MemoryHook.capture.  The stamp is taken before save_event, which keeps one
\* observation for each message id, and whose errors are logged.
capture(m) ==
  /\ Wanted(m)
  /\ \/ /\ config.limited /\ TakeStamp
        /\ noted' \in IF Len(Recent(stamps)) < MaxRequests THEN {noted, noted \cup {m}} ELSE {noted}
     \/ /\ ~config.limited /\ UNCHANGED stamps
        /\ noted' \in {noted, noted \cup {m}}
  /\ UNCHANGED <<entries, admitted, told, config, now>>

\* RateLimiter.reset
reset_key ==
  /\ stamps # <<>> /\ stamps' = <<>>
  /\ UNCHANGED <<entries, admitted, told, noted, config, now>>

-----------------------------------------------------------------------------

TimePassed == now < MaxNow /\ now' = now + 1 /\ UNCHANGED <<entries, admitted, told, stamps, noted, config>>

Requesting == (\E c \in Clients : is_allowed(c)) \/ cleanup_old_entries

Capturing == (\E m \in HookMessages : capture(m)) \/ reset_key

LimitsNext == Requesting \/ Capturing \/ TimePassed

LimitsSpec == LimitsInit /\ [][LimitsNext]_limitVars

-----------------------------------------------------------------------------
(* Properties *)

\* No window, wherever it starts, has more than MaxRequests admitted requests
\* of one client, whatever is blocked or cleaned up meanwhile.
WindowHolds ==
  \A c \in Clients :
    \A i \in DOMAIN admitted[c] :
      i + MaxRequests \in DOMAIN admitted[c]
        => admitted[c][i + MaxRequests] - admitted[c][i] >= Window

\* "Retry after n seconds": a client that comes back then is not refused.  The
\* fraction int() cuts off refuses it once more, with Retry-After: 0.
RetryAfterSuffices ==
  \A c \in Clients : told[c] # 0 /\ now >= told[c] => ~Refusing(c)

=============================================================================
