--------------------------- MODULE CircuitContract ---------------------------
(***************************************************************************)
(* What the circuit breaker keeps of the state machine described in        *)
(* docs/circuit-breaker.md ("State Transitions"), with timers and failure  *)
(* windows reduced to "a failure may stop counting":                       *)
(*   - while the circuit is OPEN no request reaches the service;           *)
(*   - CLOSED is left exactly at the FailureThreshold-th failure that      *)
(*     still counts, HALF_OPEN for OPEN at any failure;                    *)
(*   - HALF_OPEN is left for CLOSED at the SuccessThreshold-th success     *)
(*     counted since the test began, and not before, or by a reset;        *)
(*   - OPEN is left for HALF_OPEN by a turned-away request, or for CLOSED  *)
(*     by a reset, which also forgets every failure.                       *)
(* It is weaker than the document in two places, because the code is:      *)
(* HALF_OPEN lets any number of requests through, where the document has   *)
(* "limited requests", and a success counts in HALF_OPEN whether or not    *)
(* its request was let through in HALF_OPEN.  CircuitTests states both     *)
(* and shows them violated.                                                *)
(* CircuitBreaker implements this specification.                           *)
(***************************************************************************)
EXTENDS Integers

CONSTANTS Calls, FailureThreshold, SuccessThreshold

VARIABLES
  state,   \* "CLOSED", "OPEN" or "HALF_OPEN"
  inside,  \* the requests that have reached the service and not returned
  bad,     \* the failures that still count
  good     \* the successes counted since the test began

contractVars == <<state, inside, bad, good>>

ContractInit ==
  /\ state = "CLOSED"
  /\ inside = {}
  /\ bad = 0
  /\ good = 0

(* A request passes through to the service: never while OPEN.              *)
LetThrough(c) ==
  /\ c \notin inside
  /\ state # "OPEN"
  /\ inside' = inside \cup {c}
  /\ UNCHANGED <<state, bad, good>>

Closes == state' = "CLOSED" /\ bad' = 0 /\ good' = 0

(* The outcome of a request moves the circuit along at most one edge.      *)
Good ==
  \/ state # "HALF_OPEN" /\ UNCHANGED <<state, bad, good>>
  \/ state = "HALF_OPEN" /\ good + 1 >= SuccessThreshold /\ Closes
  \/ /\ state = "HALF_OPEN" /\ good + 1 < SuccessThreshold
     /\ good' = good + 1 /\ UNCHANGED <<state, bad>>

Bad ==
  \/ state = "HALF_OPEN" /\ state' = "OPEN" /\ good' = 0 /\ UNCHANGED bad
  \/ /\ state # "HALF_OPEN"
     /\ bad' = bad + 1
     /\ state' = IF bad + 1 >= FailureThreshold THEN "OPEN" ELSE state
     /\ UNCHANGED good

Settle(c) ==
  /\ c \in inside
  /\ inside' = inside \ {c}
  /\ Good \/ Bad

(* Failures grow too old to count.                                         *)
Expire ==
  /\ bad' \in 0 .. bad
  /\ UNCHANGED <<state, inside, good>>

(* OPEN becomes HALF_OPEN without any request reaching the service.        *)
StartTesting ==
  /\ state = "OPEN"
  /\ state' = "HALF_OPEN"
  /\ good' = 0
  /\ UNCHANGED <<inside, bad>>

(* An operator or a health check closes the circuit.                       *)
ForceClosed ==
  /\ Closes
  /\ UNCHANGED inside

ContractNext ==
  \/ \E c \in Calls : LetThrough(c) \/ Settle(c)
  \/ Expire
  \/ StartTesting
  \/ ForceClosed

ContractSpec == ContractInit /\ [][ContractNext]_contractVars
=============================================================================
