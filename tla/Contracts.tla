------------------------------ MODULE Contracts ------------------------------
(***************************************************************************)
(* Promise contracts, and the workflow routes of the API server that write *)
(* them.  A request runs to its end before the server takes the next; its  *)
(* transactions interleave with those of another server on the database.   *)
(*                                                                         *)
(* outline and execute make up ids and store nothing.  verify makes a new  *)
(* contract every time, so a plan may have several; a contract is never    *)
(* deleted.                                                                *)
(***************************************************************************)
EXTENDS Nothing, Naturals, Sequences

CONSTANTS
  Servers,       \* API servers
  PlanIds,       \* ids of plans
  MaxContracts   \* bound: contracts

ASSUME ContractsAssumption == None \notin PlanIds /\ MaxContracts \in Nat

VARIABLES
  contracts,  \* the table promise_contracts, in order of rowid
  shipping,   \* what the ship request of each server is about to do
  shipped     \* <<plan, contract>> of each request that was answered "shipped"

contractVars == <<contracts, shipping, shipped>>

-----------------------------------------------------------------------------

PromiseState ==
  {"created", "running", "verify_passed", "verify_failed", "shipped", "failed"}

\* evidence: the exit code of the verification was 0.
Contract == [plan : PlanIds, state : PromiseState, evidence : BOOLEAN]

Shipment ==
  [at       : {"idle", "load", "update"},
   plan     : PlanIds \cup {None},
   contract : 0..MaxContracts]

NoShipment == [at |-> "idle", plan |-> None, contract |-> 0]

\* The type invariant.
ContractsTypeOK ==
  /\ contracts \in Seq(Contract) /\ Len(contracts) <= MaxContracts
  /\ shipping \in [Servers -> Shipment]
  /\ shipped \in Seq(PlanIds \X (1..MaxContracts))

ContractsInit ==
  /\ contracts = <<>>
  /\ shipping = [p \in Servers |-> NoShipment]
  /\ shipped = <<>>

-----------------------------------------------------------------------------

\* PromiseContract.can_transition_to
PromiseTransitions ==
  {<<"created", "running">>, <<"created", "failed">>,
   <<"running", "verify_passed">>, <<"running", "verify_failed">>, <<"running", "failed">>,
   <<"verify_passed", "shipped">>, <<"verify_passed", "failed">>,
   <<"verify_failed", "running">>, <<"verify_failed", "failed">>,
   <<"failed", "running">>}

\* get_by_plan_id: SELECT ... WHERE plan_id = ? without an order, which the
\* index on plan_id answers in order of rowid.
OfPlan(plan) == {c \in DOMAIN contracts : contracts[c].plan = plan}
FirstOf(plan) == {c \in OfPlan(plan) : \A d \in OfPlan(plan) : c <= d}

\* Mutant: the contract of the last verification.
Newest(plan) == {c \in OfPlan(plan) : \A d \in OfPlan(plan) : c >= d}

get_by_plan_id(plan) == FirstOf(plan)

SaveContract(contract) == contracts' = Append(contracts, contract)

\* POST /{plan_id}/verify runs nothing: the evidence is made up, and passed.
verify_plan(p, plan) ==
  /\ shipping[p].at = "idle" /\ Len(contracts) < MaxContracts
  /\ SaveContract([plan |-> plan, state |-> "verify_passed", evidence |-> TRUE])
  /\ UNCHANGED <<shipping, shipped>>

\* POST /{plan_id}/ship: 404 without a contract, 409 when it has not passed.
ship_plan(p, plan) ==
  /\ shipping[p].at = "idle"
  /\ \E c \in get_by_plan_id(plan) :
       /\ contracts[c].state = "verify_passed"
       /\ shipping' = [shipping EXCEPT ![p] = [at |-> "load", plan |-> plan, contract |-> c]]
  /\ UNCHANGED <<contracts, shipped>>

\* update_state: the transition is tested on a row read once more, an error
\* ends the request ...
LoadContract(p) ==
  /\ shipping[p].at = "load"
  /\ shipping' = [shipping EXCEPT ![p] =
       IF <<contracts[shipping[p].contract].state, "shipped">> \in PromiseTransitions
       THEN [@ EXCEPT !.at = "update"] ELSE NoShipment]
  /\ UNCHANGED <<contracts, shipped>>

\* ... and the row is written whatever its state is by now.  The evidence
\* stays; the answer is "shipped" when the row can be read back.
update_state(p) ==
  /\ shipping[p].at = "update"
  /\ LET c == shipping[p].contract
     IN  /\ contracts' = [contracts EXCEPT ![c].state = "shipped"]
         /\ shipped' \in {shipped, Append(shipped, <<shipping[p].plan, c>>)}
  /\ shipping' = [shipping EXCEPT ![p] = NoShipment]

\* The server dies, or the database raises.
ShipDies(p) ==
  /\ shipping[p].at # "idle"
  /\ shipping' = [shipping EXCEPT ![p] = NoShipment]
  /\ UNCHANGED <<contracts, shipped>>

ContractsNext ==
  \E p \in Servers :
    \/ \E plan \in PlanIds : verify_plan(p, plan) \/ ship_plan(p, plan)
    \/ LoadContract(p) \/ update_state(p) \/ ShipDies(p)

ContractsSpec == ContractsInit /\ [][ContractsNext]_contractVars

-----------------------------------------------------------------------------
(* Properties *)

\* A plan is shipped under one contract, the first that was verified, however
\* often and by whichever server it is verified or shipped again.
ShippedUnderOne ==
  \A c, d \in DOMAIN contracts :
    contracts[c].plan = contracts[d].plan /\ contracts[c].state = "shipped"
      => c <= d

\* The state machine of the contract lets nothing leave SHIPPED, so a contract
\* is shipped once.  One server keeps to it.
ShippedOnce ==
  \A i, j \in DOMAIN shipped : shipped[i][2] = shipped[j][2] => i = j

=============================================================================
