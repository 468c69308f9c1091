----------------------------- MODULE CircuitTests -----------------------------
(***************************************************************************)
(* What docs/circuit-breaker.md says of HALF_OPEN and the code does not    *)
(* do.  The circuit is CircuitBreaker's; only a history of which callers   *)
(* were let through since its last change of state is added.               *)
(***************************************************************************)
EXTENDS MCCircuitBreaker

VARIABLE admitted   \* history: callers let through in the present state

TestsInit == Init /\ admitted = {}

TestsNext ==
  /\ Next
  /\ admitted' = IF state' # state THEN {}
                 ELSE (admitted \cap inside') \cup (inside' \ inside)

TestsSpec == TestsInit /\ [][TestsNext]_<<vars, admitted>>

(* "HALF_OPEN: Testing if service has recovered, limited requests pass     *)
(* through": at any time no more requests are under test than the test     *)
(* needs.  The code lets every request through in HALF_OPEN.               *)
TestsAreLimited ==
  state = "HALF_OPEN" => Cardinality(admitted) <= SuccessThreshold

(* "successThreshold: Number of successful requests needed in HALF_OPEN    *)
(* state to close the circuit": a request whose success counts towards the *)
(* closing was let through in HALF_OPEN.  The code counts whatever settles *)
(* in HALF_OPEN, a request begun before the opening included.              *)
TestsAreTests ==
  [][\A c \in inside \ inside' :
        state = "HALF_OPEN" /\ outcome'[c] = "result" => c \in admitted]_<<vars, admitted>>
=============================================================================
