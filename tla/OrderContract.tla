---------------------------- MODULE OrderContract ----------------------------
(***************************************************************************)
(* What placing an order under a client-chosen transaction id promises     *)
(* (business.prd.md 4.3, "Ensure idempotency for order and payment APIs"): *)
(* however often a client repeats a request, at most one order exists for  *)
(* its transaction id, every successful answer names that order, and an    *)
(* order that exists stays.  OrderCreation implements this specification.  *)
(***************************************************************************)
CONSTANTS
  Keys,      \* transaction ids
  OrderIds   \* order ids

VARIABLES
  orders,    \* the orders in existence: <<transaction id, order id>>
  answered   \* the successful answers given: <<transaction id, order id>>

contractVars == <<orders, answered>>

ContractInit ==
  /\ orders = {}
  /\ answered = {}

(* The first order of a transaction id comes into existence.               *)
Place(k, id) ==
  /\ \A i \in OrderIds : <<k, i>> \notin orders
  /\ \A j \in Keys : <<j, id>> \notin orders
  /\ orders' = orders \cup {<<k, id>>}
  /\ UNCHANGED answered

(* A client learns the order of its transaction id.                        *)
Answer(k, id) ==
  /\ <<k, id>> \in orders
  /\ answered' = answered \cup {<<k, id>>}
  /\ UNCHANGED orders

ContractNext ==
  \E k \in Keys, id \in OrderIds : Place(k, id) \/ Answer(k, id)

ContractSpec == ContractInit /\ [][ContractNext]_contractVars

(* No client is ever told of two orders under one transaction id, and no   *)
(* two transaction ids are answered with one order.                        *)
OneAnswer ==
  \A a, b \in answered : a[1] = b[1] <=> a[2] = b[2]
=============================================================================
