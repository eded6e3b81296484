------------------------------ MODULE Delivery ------------------------------
(***************************************************************************)
(* What incremental sync promises: a log is delivered to a remote at least *)
(* once, from where a replica receives it.  Nothing written, delivered or  *)
(* received is ever taken back, and no entry is acknowledged before the    *)
(* remote has it, unless its delivery was dropped without anyone being     *)
(* told, or the watermark is shared with another way of delivery.          *)
(***************************************************************************)
EXTENDS Naturals, Sequences

VARIABLES
  log,        \* the entries written
  delivered,  \* which of them the remote has
  dropped,    \* which of them have been given up
  acked,      \* the watermark: entries up to here are not sent again
  shared,     \* whether others move the watermark, too
  received    \* which entries the replica has received

deliveryVars == <<log, delivered, dropped, acked, shared, received>>

Init ==
  /\ log = <<>>
  /\ delivered = {} /\ dropped = {} /\ received = {}
  /\ acked = 0
  /\ shared = FALSE

Write ==
  /\ Len(log') = Len(log) + 1
  /\ \A n \in DOMAIN log : log'[n] = log[n]
  /\ UNCHANGED <<delivered, dropped, acked, shared, received>>

Deliver ==
  /\ delivered \subseteq delivered' /\ delivered' \subseteq DOMAIN log
  /\ UNCHANGED <<log, dropped, acked, shared, received>>

Drop ==
  /\ dropped \subseteq dropped' /\ dropped' \subseteq DOMAIN log
  /\ UNCHANGED <<log, delivered, acked, shared, received>>

Acknowledge ==
  /\ acked' \in 0..Len(log)
  /\ shared \/ 1..acked' \subseteq delivered \cup dropped
  /\ UNCHANGED <<log, delivered, dropped, shared, received>>

Share ==
  /\ shared' = TRUE
  /\ UNCHANGED <<log, delivered, dropped, acked, received>>

Receive ==
  /\ received \subseteq received' /\ received' \subseteq delivered
  /\ UNCHANGED <<log, delivered, dropped, acked, shared>>

Next == Write \/ Deliver \/ Drop \/ Acknowledge \/ Share \/ Receive

Spec == Init /\ [][Next]_deliveryVars

=============================================================================
