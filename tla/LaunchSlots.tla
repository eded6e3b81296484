----------------------------- MODULE LaunchSlots -----------------------------
(***************************************************************************)
(* What the launch registry promises its callers: every canonical key has  *)
(* one slot.  A launch acquires a free slot, holds it alone, releases it   *)
(* once, and never comes back.                                             *)
(***************************************************************************)
CONSTANTS Keys, Launches

VARIABLES
  held,    \* the launches holding each key's slot
  spent    \* every launch that ever held one

slotVars == <<held, spent>>

Init ==
  /\ held = [k \in Keys |-> {}]
  /\ spent = {}

Acquire(k, l) ==
  /\ held[k] = {}
  /\ l \notin spent
  /\ held' = [held EXCEPT ![k] = {l}]
  /\ spent' = spent \cup {l}

Release(k, l) ==
  /\ l \in held[k]
  /\ held' = [held EXCEPT ![k] = @ \ {l}]
  /\ UNCHANGED spent

Next == \E k \in Keys, l \in Launches : Acquire(k, l) \/ Release(k, l)

Spec == Init /\ [][Next]_slotVars

=============================================================================
