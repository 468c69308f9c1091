---------------------------- MODULE OrderLifecycle ----------------------------
(***************************************************************************)
(* The life of one order: OrdersService.updateOrderStatus called at the    *)
(* same time by restaurants, drivers and administrators, and by the        *)
(* fire-and-forget OrderProcessingService.processNewOrder.  Orders are     *)
(* independent of one another.                                             *)
(*                                                                         *)
(* updateOrderStatus reads the order, checks the transition, and then, in  *)
(* a SERIALIZABLE transaction that does not read the order again, writes   *)
(* the new status and a history row.  The idempotency key is fresh in      *)
(* every call, so IdempotencyService adds a first and a last database      *)
(* write that may fail and never recognises a repetition                   *)
(* (OrderCreation models it where keys do repeat).                         *)
(***************************************************************************)
EXTENDS Integers, Sequences

CONSTANTS
  Actors,      \* concurrent callers of PATCH /orders/:id/status
  Processor,   \* the background processNewOrder of this order
  MaxRetries,  \* executeWithRetry's maxRetries
  MaxHistory   \* bound: no call starts once the history is this long

ASSUME LifecycleAssumption ==
  /\ MaxRetries \in Nat
  /\ MaxHistory \in Nat
  /\ Processor \notin Actors

VARIABLES
  status,     \* orders.status
  history,    \* order_history.status, in commit order
  pc,         \* where each caller's updateOrderStatus is
  target,     \* the status it asks for
  seen,       \* the status it validated against
  snapshot,   \* the writes its transaction's snapshot contains
  retries,    \* executeWithRetry's counter
  outcome,    \* how the caller's latest call ended
  writes,     \* history: rows the latest call has committed
  processed   \* processNewOrder has been started

locals == <<target, seen, snapshot, retries>>
vars == <<status, history, pc, locals, outcome, writes, processed>>

Callers == Actors \cup {Processor}

Statuses == {"CREATED", "CONFIRMED", "PREPARING", "READY_FOR_PICKUP",
             "OUT_FOR_DELIVERY", "DELIVERED", "CANCELLED", "REFUNDED"}

(* validTransitions.                                                       *)
ValidTransitions ==
  [CREATED          |-> {"CONFIRMED", "CANCELLED"},
   CONFIRMED        |-> {"PREPARING", "CANCELLED"},
   PREPARING        |-> {"READY_FOR_PICKUP", "CANCELLED"},
   READY_FOR_PICKUP |-> {"OUT_FOR_DELIVERY", "CANCELLED"},
   OUT_FOR_DELIVERY |-> {"DELIVERED", "CANCELLED"},
   DELIVERED        |-> {"REFUNDED"},
   CANCELLED        |-> {"REFUNDED"},
   REFUNDED         |-> {}]

Places == {"idle", "reading", "validated", "inTransaction", "committed"}

TypeOK ==
  /\ status \in Statuses
  /\ history \in Seq(Statuses)
  /\ pc \in [Callers -> Places]
  /\ target \in [Callers -> Statuses]
  /\ seen \in [Callers -> Statuses]
  /\ snapshot \in [Callers -> Nat]
  /\ retries \in [Callers -> 0 .. MaxRetries]
  /\ outcome \in [Callers -> {"none", "ok", "rejected", "error"}]
  /\ writes \in [Callers -> Nat]
  /\ processed \in BOOLEAN

(* The order as OrdersRepository.createOrder leaves it.                    *)
Init ==
  /\ status = "CREATED"
  /\ history = <<"CREATED">>
  /\ pc = [u \in Callers |-> "idle"]
  /\ target = [u \in Callers |-> "CREATED"]
  /\ seen = [u \in Callers |-> "CREATED"]
  /\ snapshot = [u \in Callers |-> 0]
  /\ retries = [u \in Callers |-> 0]
  /\ outcome = [u \in Callers |-> "none"]
  /\ writes = [u \in Callers |-> 0]
  /\ processed = FALSE

Goto(u, place) == pc' = [pc EXCEPT ![u] = place]

(* The call returns or throws; its local variables are gone.               *)
End(u, how) ==
  /\ Goto(u, "idle")
  /\ outcome' = [outcome EXCEPT ![u] = how]
  /\ target' = [target EXCEPT ![u] = "CREATED"]
  /\ seen' = [seen EXCEPT ![u] = "CREATED"]
  /\ snapshot' = [snapshot EXCEPT ![u] = 0]
  /\ retries' = [retries EXCEPT ![u] = 0]

-----------------------------------------------------------------------------
(* updateOrderStatus up to the read: the call is recorded under a fresh    *)
(* transaction id.                                                         *)
UpdateOrderStatus(u, s) ==
  /\ pc[u] = "idle"
  /\ Len(history) < MaxHistory
  /\ Goto(u, "reading")
  /\ target' = [target EXCEPT ![u] = s]
  /\ outcome' = [outcome EXCEPT ![u] = "none"]
  /\ writes' = [writes EXCEPT ![u] = 0]
  /\ UNCHANGED <<status, history, seen, snapshot, retries>>

(* PATCH /orders/:id/status: any of its roles may ask for any status.      *)
Request(u, s) ==
  /\ UpdateOrderStatus(u, s)
  /\ UNCHANGED processed

(* processNewOrder, started once by the controller and not awaited.        *)
ProcessNewOrder ==
  /\ ~ processed
  /\ UpdateOrderStatus(Processor, "CONFIRMED")
  /\ processed' = TRUE

(* Mutant: the transition is not validated.                                *)
BugValidateStatusTransition(u) ==
  /\ pc[u] = "reading"
  /\ seen' = [seen EXCEPT ![u] = status]
  /\ Goto(u, "validated")
  /\ UNCHANGED <<status, history, target, snapshot, retries, outcome,
                 writes, processed>>

(* getOrderById, then validateStatusTransition on what it returned.        *)
ValidateStatusTransition(u) ==
  /\ pc[u] = "reading"
  /\ \/ /\ target[u] \in ValidTransitions[status]
        /\ seen' = [seen EXCEPT ![u] = status]
        /\ Goto(u, "validated")
        /\ UNCHANGED <<target, snapshot, retries, outcome>>
     \/ /\ target[u] \notin ValidTransitions[status]
        /\ End(u, "rejected")
  /\ UNCHANGED <<status, history, writes, processed>>

(* executeInTransaction: the transaction starts; the snapshot is taken.    *)
BeginTransaction(u) ==
  /\ pc[u] = "validated"
  /\ Goto(u, "inTransaction")
  /\ snapshot' = [snapshot EXCEPT ![u] = Len(history)]
  /\ UNCHANGED <<status, history, target, seen, retries, outcome,
                 writes, processed>>

(* The two writes of the transaction body.                                 *)
WriteStatus(u) ==
  /\ status' = target[u]
  /\ history' = Append(history, target[u])
  /\ writes' = [writes EXCEPT ![u] = @ + 1]

(* No other write since the snapshot: the transaction commits.             *)
CommitTransaction(u) ==
  /\ pc[u] = "inTransaction"
  /\ snapshot[u] = Len(history)
  /\ WriteStatus(u)
  /\ Goto(u, "committed")
  /\ UNCHANGED <<target, seen, snapshot, retries, outcome, processed>>

(* The catch block of executeWithRetry: another attempt, or the error.     *)
Retry(u) ==
  \/ /\ retries[u] < MaxRetries
     /\ retries' = [retries EXCEPT ![u] = @ + 1]
     /\ Goto(u, "validated")
     /\ UNCHANGED <<target, seen, snapshot, outcome>>
  \/ /\ retries[u] >= MaxRetries
     /\ End(u, "error")

(* Mutant: the writes are kept when the transaction is retried.            *)
BugSerializationFailure(u) ==
  /\ pc[u] = "inTransaction"
  /\ snapshot[u] # Len(history)
  /\ WriteStatus(u)
  /\ Retry(u)
  /\ UNCHANGED processed

(* Another write since the snapshot: error 40001, rollback, and another    *)
(* attempt of the transaction alone; the transition is not checked again.  *)
SerializationFailure(u) ==
  /\ pc[u] = "inTransaction"
  /\ snapshot[u] # Len(history)
  /\ Retry(u)
  /\ UNCHANGED <<status, history, writes, processed>>

(* completeTransaction, then the return of updateOrderStatus.              *)
Complete(u) ==
  /\ pc[u] = "committed"
  /\ End(u, "ok")
  /\ UNCHANGED <<status, history, writes, processed>>

(* The database or the process fails at any await, completeTransaction     *)
(* after the commit included; an open transaction is rolled back.          *)
(* processNewOrder swallows the error and is never started again.          *)
Break(u) ==
  /\ pc[u] # "idle"
  /\ End(u, "error")
  /\ UNCHANGED <<status, history, writes, processed>>

Step(u) ==
  \/ ValidateStatusTransition(u)
  \/ BeginTransaction(u)
  \/ CommitTransaction(u)
  \/ SerializationFailure(u)
  \/ Complete(u)
  \/ Break(u)

Next ==
  \/ \E u \in Actors, s \in Statuses : Request(u, s)
  \/ ProcessNewOrder
  \/ \E u \in Callers : Step(u)

Spec == Init /\ [][Next]_vars
-----------------------------------------------------------------------------
(* Properties.                                                             *)

(* The order's status is the one its latest history row records: the two   *)
(* writes commit together or not at all, however attempts interleave.      *)
HistoryIsCurrent == status = history[Len(history)]

(* No status is ever reached out of nothing: whatever calls interleave and *)
(* whatever stale answers they validated against, each recorded status is  *)
(* a legal successor of some status recorded before it, so nothing is      *)
(* delivered that never was out for delivery and nothing refunded that     *)
(* was neither delivered nor cancelled.  And no status is unrecorded.      *)
EveryStatusEarned ==
  /\ HistoryIsCurrent
  /\ \A i \in 2 .. Len(history) :
       \E j \in 1 .. (i - 1) : history[i] \in ValidTransitions[history[j]]

(* A call answered "ok" has written exactly once although executeWithRetry *)
(* may have run its transaction several times, a rejected call never.      *)
WritesOnce ==
  \A u \in Callers :
    /\ outcome[u] = "ok" => writes[u] = 1
    /\ outcome[u] = "rejected" => writes[u] = 0
    /\ writes[u] <= 1
=============================================================================
