---------------------------- MODULE CircuitBreaker ----------------------------
(***************************************************************************)
(* One circuit of CircuitBreakerService, with the callers that run         *)
(* operations through it, the scheduled health checks that may reset it    *)
(* (CircuitBreakerHealthService) and the gauge the monitor derives from    *)
(* its events (CircuitBreakerMonitorService).  Circuits are independent:   *)
(* the service keys them by id in a Map.                                   *)
(*                                                                         *)
(* JavaScript runs each synchronous stretch without interruption, so the   *)
(* atomic steps are: entering executeWithCircuitBreaker up to the await of *)
(* the operation, and everything from the operation settling to the        *)
(* return.  Between the two, any other call, reset or check may run.       *)
(*                                                                         *)
(* Time is kept as ages.  Date.now() differences are compared with two     *)
(* configured bounds only, so an age may saturate at its bound.            *)
(***************************************************************************)
EXTENDS Integers, FiniteSets

CONSTANTS
  Calls,             \* concurrent callers of the circuit
  Checks,            \* overlapping runs of the health-check cron job
  FailureThreshold,  \* failures within the window that open the circuit
  FailureWindow,     \* failureWindowMs, in ticks
  ResetTimeout,      \* resetTimeoutMs, in ticks
  SuccessThreshold,  \* successes that close a HALF_OPEN circuit
  HasFallback        \* whether the circuit's config has a fallback

ASSUME CircuitAssumption ==
  /\ FailureThreshold \in Nat \ {0}
  /\ FailureWindow \in Nat
  /\ ResetTimeout \in Nat
  /\ SuccessThreshold \in Nat \ {0}
  /\ HasFallback \in BOOLEAN

VARIABLES
  state,         \* CircuitData.state
  failures,      \* CircuitData.failures: a multiset of ages
  successCount,  \* CircuitData.successCount
  sinceChange,   \* now - CircuitData.lastStateChange, saturated
  inside,        \* callers whose operation is running
  outcome,       \* how each caller's latest call ended
  registered,    \* a health check is registered for the circuit
  check,         \* progress of each health-check run
  gauge,         \* the circuit_state metric: TRUE for 1, FALSE for 0
  service,       \* the protected service, "up" or "down"
  dwell          \* history: ticks spent in the present state, saturated

circuit == <<state, failures, successCount, sinceChange>>
vars == <<circuit, inside, outcome, registered, check, gauge, service, dwell>>

States == {"CLOSED", "OPEN", "HALF_OPEN"}

(* How a call may end: with the operation's result or error, with the      *)
(* fallback after the operation failed, turned away with an error or with  *)
(* the fallback, or with null without running anything.                    *)
Outcomes == {"none", "result", "error", "failedOver",
             "rejected", "rejectedFallback", "null"}

Slots == Nat \ {0}
Failure == [slot : Slots, age : 0 .. FailureWindow]

AtMost(n, bound) == IF n < bound THEN n ELSE bound

TypeOK ==
  /\ state \in States
  /\ failures \subseteq Failure
  /\ IsFiniteSet(failures)
  /\ successCount \in Nat
  /\ sinceChange \in 0 .. ResetTimeout
  /\ inside \subseteq Calls
  /\ outcome \in [Calls -> Outcomes]
  /\ registered \in BOOLEAN
  /\ check \in [Checks -> {"idle", "queued", "running"}]
  /\ gauge \in BOOLEAN
  /\ service \in {"up", "down"}
  /\ dwell \in 0 .. ResetTimeout

(* getOrCreateCircuit: a circuit starts CLOSED with nothing counted.       *)
Init ==
  /\ state = "CLOSED"
  /\ failures = {}
  /\ successCount = 0
  /\ sinceChange = 0
  /\ inside = {}
  /\ outcome = [c \in Calls |-> "none"]
  /\ registered = FALSE
  /\ check = [k \in Checks |-> "idle"]
  /\ gauge = FALSE
  /\ service = "up"
  /\ dwell = 0

(* emitCircuitEvent followed by the monitor's handleCircuitStateChange     *)
(* with the default alert handler, which settles before any other task.    *)
Emit(s) == gauge' = (s = "OPEN")

(* History of the present state: forgotten when the state changes.         *)
Forget == dwell' = 0

-----------------------------------------------------------------------------
(* executeWithCircuitBreaker: the entry of a call.                         *)

(* CLOSED or HALF_OPEN: the operation is started and awaited.              *)
Admit(c) ==
  /\ c \notin inside
  /\ state # "OPEN"
  /\ inside' = inside \cup {c}
  /\ UNCHANGED <<circuit, outcome, registered, check, gauge, service, dwell>>

(* transitionToHalfOpen: no event is emitted, failures are kept.           *)
TransitionToHalfOpen ==
  /\ state' = "HALF_OPEN"
  /\ sinceChange' = 0
  /\ successCount' = 0
  /\ UNCHANGED failures
  /\ Forget

(* handleOpenCircuit after the reset timeout: the circuit is moved to      *)
(* HALF_OPEN and the call returns null; its operation never runs.          *)
Probe(c) ==
  /\ c \notin inside
  /\ state = "OPEN"
  /\ sinceChange >= ResetTimeout
  /\ TransitionToHalfOpen
  /\ outcome' = [outcome EXCEPT ![c] = "null"]
  /\ UNCHANGED <<inside, registered, check, gauge, service>>

(* Mutant: a rejected call restarts the reset timer.                       *)
BugFastFail(c) ==
  /\ c \notin inside
  /\ state = "OPEN"
  /\ sinceChange < ResetTimeout
  /\ Emit("OPEN")
  /\ sinceChange' = 0
  /\ outcome' = [outcome EXCEPT ![c] = "rejected"]
  /\ UNCHANGED <<state, failures, successCount, inside, registered, check,
                 service, dwell>>

(* handleOpenCircuit before the reset timeout: an event, then the fallback *)
(* or an error.                                                            *)
FastFail(c) ==
  /\ c \notin inside
  /\ state = "OPEN"
  /\ sinceChange < ResetTimeout
  /\ Emit("OPEN")
  /\ outcome' = [outcome EXCEPT ![c] =
                   IF HasFallback THEN "rejectedFallback" ELSE "rejected"]
  /\ UNCHANGED <<circuit, inside, registered, check, service, dwell>>

Enter(c) == Admit(c) \/ Probe(c) \/ FastFail(c)

-----------------------------------------------------------------------------
(* executeOperation: the operation settles.                                *)

(* Mutant: the failures of the earlier period survive the closing.         *)
BugToClosed ==
  /\ state' = "CLOSED"
  /\ successCount' = 0
  /\ sinceChange' = 0
  /\ UNCHANGED failures
  /\ Forget

(* closeCircuit, and the same assignments in resetCircuit.                 *)
ToClosed ==
  /\ state' = "CLOSED"
  /\ failures' = {}
  /\ successCount' = 0
  /\ sinceChange' = 0
  /\ Forget

(* Mutant: a late success closes the circuit from OPEN as well.            *)
BugHandleSuccess ==
  \/ state # "CLOSED" /\ ToClosed /\ Emit("CLOSED")
  \/ state = "CLOSED" /\ UNCHANGED <<circuit, gauge, dwell>>

(* handleSuccess: counted only in HALF_OPEN, whenever the call began.      *)
HandleSuccess ==
  \/ /\ state = "HALF_OPEN"
     /\ successCount + 1 >= SuccessThreshold
     /\ ToClosed
     /\ Emit("CLOSED")
  \/ /\ state = "HALF_OPEN"
     /\ successCount + 1 < SuccessThreshold
     /\ successCount' = successCount + 1
     /\ UNCHANGED <<state, failures, sinceChange, gauge, dwell>>
  \/ /\ state # "HALF_OPEN"
     /\ UNCHANGED <<circuit, gauge, dwell>>

(* A place for one more failure in the multiset.                           *)
FreeSlot == CHOOSE n \in 1 .. (Cardinality(failures) + 1) :
              \A f \in failures : f.slot # n

WithFailure == failures \cup {[slot |-> FreeSlot, age |-> 0]}

(* Mutant: reopening does not restart the timer.                           *)
BugOpenCircuitFromHalfOpen ==
  /\ state' = "OPEN"
  /\ successCount' = 0
  /\ UNCHANGED <<failures, sinceChange>>
  /\ Forget
  /\ Emit("OPEN")

(* openCircuitFromHalfOpen: the timer restarts, failures are kept.         *)
OpenCircuitFromHalfOpen ==
  /\ state' = "OPEN"
  /\ sinceChange' = 0
  /\ successCount' = 0
  /\ UNCHANGED failures
  /\ Forget
  /\ Emit("OPEN")

(* trackFailureInClosedState: also reached in OPEN, by a call let through  *)
(* before the circuit opened.  Failures outside the window are dropped by  *)
(* Tick, as they age, which the code does lazily just before the test.     *)
TrackFailure ==
  /\ failures' = WithFailure
  /\ \/ /\ state = "CLOSED"
        /\ Cardinality(WithFailure) >= FailureThreshold
        /\ state' = "OPEN"
        /\ sinceChange' = 0
        /\ Emit("OPEN")
        /\ Forget
     \/ /\ ~ (state = "CLOSED" /\ Cardinality(WithFailure) >= FailureThreshold)
        /\ UNCHANGED <<state, sinceChange, gauge, dwell>>
  /\ UNCHANGED successCount

(* handleFailure.                                                          *)
HandleFailure ==
  \/ state = "HALF_OPEN" /\ OpenCircuitFromHalfOpen
  \/ state # "HALF_OPEN" /\ TrackFailure

Succeed(c) ==
  /\ c \in inside
  /\ service = "up"
  /\ HandleSuccess
  /\ inside' = inside \ {c}
  /\ outcome' = [outcome EXCEPT ![c] = "result"]
  /\ UNCHANGED <<registered, check, service>>

Fail(c) ==
  /\ c \in inside
  /\ service = "down"
  /\ HandleFailure
  /\ inside' = inside \ {c}
  /\ outcome' = [outcome EXCEPT ![c] =
                   IF HasFallback THEN "failedOver" ELSE "error"]
  /\ UNCHANGED <<registered, check, service>>

Return(c) == Succeed(c) \/ Fail(c)

-----------------------------------------------------------------------------
(* Mutant: an event only if the circuit was exactly OPEN.                  *)
BugResetCircuit ==
  /\ ToClosed
  /\ IF state = "OPEN" THEN Emit("CLOSED") ELSE UNCHANGED gauge

(* resetCircuit: an event only if the circuit was not CLOSED.              *)
ResetCircuit ==
  /\ ToClosed
  /\ IF state # "CLOSED" THEN Emit("CLOSED") ELSE UNCHANGED gauge

(* The health controller, or a service facade, resets the circuit.         *)
ManualReset ==
  /\ ResetCircuit
  /\ UNCHANGED <<inside, outcome, registered, check, service>>

(* registerHealthCheck, removeHealthCheck.                                 *)
SetHealthCheck ==
  /\ registered' = ~ registered
  /\ UNCHANGED <<circuit, inside, outcome, check, gauge, service, dwell>>

(* runHealthChecks: the run takes a snapshot of the OPEN circuits that     *)
(* have a check, then works through it one circuit at a time.              *)
RunHealthChecks(k) ==
  /\ check[k] = "idle"
  /\ state = "OPEN"
  /\ registered
  /\ check' = [check EXCEPT ![k] = "queued"]
  /\ UNCHANGED <<circuit, inside, outcome, registered, gauge, service, dwell>>

(* checkCircuitHealth: the registry is read again, the state is not.       *)
CheckCircuitHealth(k) ==
  /\ check[k] = "queued"
  /\ check' = [check EXCEPT ![k] = IF registered THEN "running" ELSE "idle"]
  /\ UNCHANGED <<circuit, inside, outcome, registered, gauge, service, dwell>>

(* executeHealthCheck: a healthy answer resets the circuit, whatever state *)
(* it is in by now; an unhealthy answer or an error changes nothing.       *)
ExecuteHealthCheck(k) ==
  /\ check[k] = "running"
  /\ check' = [check EXCEPT ![k] = "idle"]
  /\ IF service = "up"
       THEN ResetCircuit
       ELSE UNCHANGED <<circuit, gauge, dwell>>
  /\ UNCHANGED <<inside, outcome, registered, service>>

-----------------------------------------------------------------------------
(* The environment.                                                        *)

ServiceChanges ==
  /\ service' = IF service = "up" THEN "down" ELSE "up"
  /\ UNCHANGED <<circuit, inside, outcome, registered, check, gauge, dwell>>

(* Failures older than the window can never count again.                   *)
AgedFailures == {[slot |-> f.slot, age |-> f.age + 1] :
                   f \in {g \in failures : g.age < FailureWindow}}

Tick ==
  /\ failures' = AgedFailures
  /\ sinceChange' = AtMost(sinceChange + 1, ResetTimeout)
  /\ dwell' = AtMost(dwell + 1, ResetTimeout)
  /\ UNCHANGED <<state, successCount, inside, outcome, registered, check,
                 gauge, service>>

Next ==
  \/ \E c \in Calls : Enter(c) \/ Return(c)
  \/ ManualReset
  \/ SetHealthCheck
  \/ \E k \in Checks :
       RunHealthChecks(k) \/ CheckCircuitHealth(k) \/ ExecuteHealthCheck(k)
  \/ ServiceChanges
  \/ Tick

Spec == Init /\ [][Next]_vars

(* Time passes, operations settle, and callers keep arriving: the last is  *)
(* an assumption on the traffic, without which OPEN is never left.         *)
Fairness ==
  /\ WF_vars(Tick)
  /\ \A c \in Calls : WF_vars(Enter(c)) /\ WF_vars(Return(c))

FairSpec == Spec /\ Fairness
-----------------------------------------------------------------------------
(* Properties.                                                             *)

(* A CLOSED circuit never sits on failures it should have opened for:      *)
(* trackFailureInClosedState tests after every push, and every way back to *)
(* CLOSED forgets the failures of the earlier period, those of late calls  *)
(* that settled while it was OPEN included.                                *)
NoMissedOpening == state = "CLOSED" => ~ (Cardinality(failures) >= FailureThreshold)

(* The metric is right in the two states that are announced: 1 in OPEN and *)
(* 0 in CLOSED, after late failures, reopenings, resets and health checks  *)
(* in any order.  HALF_OPEN is exempt, and there the metric is wrong: the  *)
(* code announces nothing, so 1 ("open") stands while every request is let *)
(* through (MetricMeansOpen).                                              *)
GaugeAgrees == state # "HALF_OPEN" => (gauge <=> state = "OPEN")

(* What the documents say of the metric and the code does not do: an event *)
(* is "emitted when a circuit changes state", and circuit_state with state *)
(* "open" is 1 when the circuit is OPEN and 0 when it is not.              *)
MetricMeansOpen == gauge <=> state = "OPEN"

(* The circuit starts testing only after a whole reset timeout has passed  *)
(* since it last opened, also when it reopened out of HALF_OPEN and when   *)
(* late failures arrived meanwhile.                                        *)
FullTimeout ==
  [][state = "OPEN" /\ state' = "HALF_OPEN" => dwell >= ResetTimeout]_vars

(* Seen through its state, the requests inside and the two counts, the     *)
(* breaker takes the documented transitions at exactly the documented      *)
(* counts; what CircuitContract leaves open is said there.                 *)
Contract == INSTANCE CircuitContract
              WITH bad <- Cardinality(failures), good <- successCount
ImplementsContract == Contract!ContractSpec

(* A service that stays up ends with its circuit closed for good, however  *)
(* the calls, the timer, resets and health checks interleaved before.      *)
Recovers == <>[](service = "up") => <>[](state = "CLOSED")
=============================================================================
