---------------------------- MODULE EventDelivery ----------------------------
(***************************************************************************)
(* What the outbox promises to the code that enqueues an event, with no    *)
(* rows, workers, leases or attempts: an event that is due is handed to    *)
(* its consumer one or more times, is reported delivered only if the       *)
(* consumer took it, and stays due until it is delivered or given up.      *)
(* Only an operator makes a given-up event due again.                      *)
(***************************************************************************)
CONSTANT Event
VARIABLES stage,     \* stage[e]: where event e is
          consumed   \* events the consumer took at least once

contractVars == <<stage, consumed>>

Stage == {"absent", "due", "delivered", "given_up"}

ContractInit ==
  /\ stage = [e \in Event |-> "absent"]
  /\ consumed = {}

Moves(e, from, to) ==
  /\ stage[e] = from
  /\ stage' = [stage EXCEPT ![e] = to]
  /\ UNCHANGED consumed

Request(e) == Moves(e, "absent", "due")
GiveUp(e) == Moves(e, "due", "given_up")
Revive(e) == Moves(e, "given_up", "due")

\* A late copy may reach the consumer after the event was settled.
Consume(e) ==
  /\ stage[e] # "absent"
  /\ consumed' = consumed \union {e}
  /\ UNCHANGED stage

Confirm(e) ==
  /\ e \in consumed
  /\ Moves(e, "due", "delivered")

Settle(e) == Confirm(e) \/ GiveUp(e)

ContractNext ==
  \E e \in Event : Request(e) \/ Consume(e) \/ Settle(e) \/ Revive(e)

ContractSafety == ContractInit /\ [][ContractNext]_contractVars

\* Settle(e) is enabled as long as e is due, and ends that: its weak fairness
\* says that e is not due for ever.
Contract == ContractSafety /\ \A e \in Event : []<>(stage[e] # "due")
=============================================================================
