---------------------------- MODULE OrderCreation ----------------------------
(***************************************************************************)
(* OrdersService.createOrder: IdempotencyService.executeWithIdempotency    *)
(* around OrdersRepository.createOrder, for clients that repeat a request  *)
(* under one transaction id, concurrently or after an error, a lost answer *)
(* or a crash of the process that served it.                               *)
(*                                                                         *)
(* The rows of order_transactions are read and written one statement at a  *)
(* time through the default data source; the order is inserted in a        *)
(* SERIALIZABLE transaction of DatabaseConnectionService's own data source.*)
(* Before that transaction commits, createOrder reads the new order back   *)
(* through the default data source.  ReadBackSeesInsert says whether the   *)
(* read can find the row: FALSE for the two data sources the modules wire  *)
(* up, TRUE where both are one connection, as the repository's tests set   *)
(* it up.  As wired no order is ever placed (ClientsAreAnswered fails); the*)
(* races of the protocol, which need one, are checked with TRUE, and what  *)
(* they are checked for holds either way.                                  *)
(***************************************************************************)
EXTENDS Integers

CONSTANTS
  Requests,            \* requests being served at the same time
  Keys,                \* transaction ids
  OrderIds,            \* generated order ids
  NoOrder,             \* no order id
  MaxRetries,          \* executeWithRetry's maxRetries
  MaxFaults,           \* bound: database errors and crashes
  ReadBackSeesInsert   \* see above

ASSUME CreationAssumption ==
  /\ NoOrder \notin OrderIds
  /\ MaxRetries \in Nat
  /\ MaxFaults \in Nat
  /\ ReadBackSeesInsert \in BOOLEAN

VARIABLES
  row,        \* order_transactions.status per key, "absent" without a row
  rowOrder,   \* order_transactions.orderId
  orders,     \* committed orders: <<transactionId, id>>
  pc,         \* where each request is
  key,        \* its transaction id
  id,         \* the order id it generated
  result,     \* the id of the order its operation returned
  retries,    \* executeWithRetry's counter
  answered,   \* history: successful answers <<transaction id, order id>>
  faults      \* history: database errors and crashes so far

rows == <<row, rowOrder>>
locals == <<key, id, result, retries>>
vars == <<rows, orders, pc, locals, answered, faults>>

Places == {"idle", "checking", "recording", "counting", "counted", "ready",
           "starting", "inserting", "executed", "completed", "failing", "failed"}

TypeOK ==
  /\ row \in [Keys -> {"absent", "pending", "completed", "failed"}]
  /\ rowOrder \in [Keys -> OrderIds \cup {NoOrder}]
  /\ orders \subseteq Keys \X OrderIds
  /\ pc \in [Requests -> Places]
  /\ key \in [Requests -> Keys]
  /\ id \in [Requests -> OrderIds \cup {NoOrder}]
  /\ result \in [Requests -> OrderIds \cup {NoOrder}]
  /\ retries \in [Requests -> 0 .. MaxRetries]
  /\ answered \subseteq Keys \X OrderIds
  /\ faults \in 0 .. MaxFaults

Init ==
  /\ row = [k \in Keys |-> "absent"]
  /\ rowOrder = [k \in Keys |-> NoOrder]
  /\ orders = {}
  /\ pc = [r \in Requests |-> "idle"]
  /\ key \in [Requests -> Keys]
  /\ id = [r \in Requests |-> NoOrder]
  /\ result = [r \in Requests |-> NoOrder]
  /\ retries = [r \in Requests |-> 0]
  /\ answered = {}
  /\ faults = 0

Goto(r, place) == pc' = [pc EXCEPT ![r] = place]

Placed(k) == \E i \in OrderIds : <<k, i>> \in orders

(* The request is over; its local variables are gone.                      *)
Finish(r) ==
  /\ Goto(r, "idle")
  /\ id' = [id EXCEPT ![r] = NoOrder]
  /\ result' = [result EXCEPT ![r] = NoOrder]
  /\ retries' = [retries EXCEPT ![r] = 0]
  /\ UNCHANGED key

Succeed(r, order) ==
  /\ Finish(r)
  /\ answered' = answered \cup {<<key[r], order>>}

-----------------------------------------------------------------------------
(* executeWithIdempotency, before the try.                                 *)

(* A client sends, or repeats, a request under a transaction id.           *)
CreateOrder(r, k) ==
  /\ pc[r] = "idle"
  /\ Goto(r, "checking")
  /\ key' = [key EXCEPT ![r] = k]
  /\ UNCHANGED <<rows, orders, id, result, retries, answered, faults>>

(* checkTransactionExists, and what each status of the row leads to.       *)
CheckTransactionExists(r) ==
  /\ pc[r] = "checking"
  /\ \/ /\ row[key[r]] = "completed"
        /\ rowOrder[key[r]] # NoOrder
        /\ Succeed(r, rowOrder[key[r]])
     \/ /\ \/ row[key[r]] = "absent" /\ Goto(r, "recording")
           \/ row[key[r]] = "pending" /\ Goto(r, "counting")
           \/ row[key[r]] = "failed" /\ Goto(r, "ready")
        /\ UNCHANGED <<locals, answered>>
  /\ UNCHANGED <<rows, orders, faults>>

(* recordTransaction: save() selects the row by its id and inserts or      *)
(* updates it accordingly.  When another request has inserted it since     *)
(* this one's check, the update resets it, completed or not, and an insert *)
(* decided upon earlier violates the primary key.                          *)
RecordTransaction(r) ==
  /\ pc[r] = "recording"
  /\ \/ /\ row' = [row EXCEPT ![key[r]] = "pending"]
        /\ Goto(r, "ready")
        /\ UNCHANGED locals
     \/ /\ row[key[r]] # "absent"
        /\ Finish(r)
        /\ UNCHANGED row
  /\ UNCHANGED <<rowOrder, orders, answered, faults>>

(* incrementAttempt, its UPDATE: a pending row does not keep the operation *)
(* from running again.                                                     *)
IncrementAttempt(r) ==
  /\ pc[r] = "counting"
  /\ Goto(r, "counted")
  /\ UNCHANGED <<rows, orders, locals, answered, faults>>

-----------------------------------------------------------------------------
(* OrdersRepository.createOrder, inside the try.                           *)

(* generateOrderId: a fresh id, kept through the retries.                  *)
GenerateOrderId(r, i) ==
  /\ pc[r] = "ready"
  /\ \A k \in Keys : <<k, i>> \notin orders
  /\ \A q \in Requests : id[q] # i
  /\ id' = [id EXCEPT ![r] = i]
  /\ Goto(r, "starting")
  /\ UNCHANGED <<rows, orders, key, result, retries, answered, faults>>

(* Mutant: an existing order is not looked for.                            *)
BugCheckTransactionIdempotency(r) ==
  /\ pc[r] = "starting"
  /\ Goto(r, "inserting")
  /\ UNCHANGED <<rows, orders, locals, answered, faults>>

(* The transaction starts with checkTransactionIdempotency: an order that  *)
(* exists under the transaction id is the result.                          *)
CheckTransactionIdempotency(r) ==
  /\ pc[r] = "starting"
  /\ \/ \E i \in OrderIds :
          /\ <<key[r], i>> \in orders
          /\ result' = [result EXCEPT ![r] = i]
          /\ Goto(r, "executed")
     \/ /\ ~ Placed(key[r])
        /\ Goto(r, "inserting")
        /\ UNCHANGED result
  /\ UNCHANGED <<rows, orders, key, id, retries, answered, faults>>

(* Mutant: orders.transactionId is not unique and nothing conflicts.       *)
BugInsertOrder(r) ==
  /\ pc[r] = "inserting"
  /\ orders' = orders \cup {<<key[r], id[r]>>}
  /\ result' = [result EXCEPT ![r] = id[r]]
  /\ Goto(r, "executed")
  /\ UNCHANGED <<rows, key, id, retries, answered, faults>>

(* The order, its items and its history row are inserted and read back;    *)
(* without a row to return the transaction is rolled back.                 *)
InsertOrder(r) ==
  /\ pc[r] = "inserting"
  /\ ~ Placed(key[r])
  /\ \/ /\ ReadBackSeesInsert
        /\ orders' = orders \cup {<<key[r], id[r]>>}
        /\ result' = [result EXCEPT ![r] = id[r]]
        /\ Goto(r, "executed")
     \/ /\ ~ ReadBackSeesInsert
        /\ Goto(r, "failing")
        /\ UNCHANGED <<orders, result>>
  /\ UNCHANGED <<rows, key, id, retries, answered, faults>>

(* Another request committed an order of the transaction id meanwhile:     *)
(* PostgreSQL reports 40001, which executeWithRetry retries, or the unique *)
(* violation 23505, which it does not.                                     *)
InsertConflict(r) ==
  /\ pc[r] = "inserting"
  /\ Placed(key[r])
  /\ \/ /\ retries[r] < MaxRetries
        /\ retries' = [retries EXCEPT ![r] = @ + 1]
        /\ Goto(r, "starting")
     \/ /\ Goto(r, "failing")
        /\ UNCHANGED retries
  /\ UNCHANGED <<rows, orders, key, id, result, answered, faults>>

-----------------------------------------------------------------------------
(* The end of executeWithIdempotency.                                      *)

(* Mutant: the row gets the id generated for this request.                 *)
BugCompleteTransaction(r) ==
  /\ pc[r] = "executed"
  /\ row' = [row EXCEPT ![key[r]] = "completed"]
  /\ rowOrder' = [rowOrder EXCEPT ![key[r]] = id[r]]
  /\ Goto(r, "completed")
  /\ UNCHANGED <<orders, locals, answered, faults>>

(* completeTransaction, its UPDATE.                                        *)
CompleteTransaction(r) ==
  /\ pc[r] = "executed"
  /\ row' = [row EXCEPT ![key[r]] = "completed"]
  /\ rowOrder' = [rowOrder EXCEPT ![key[r]] = result[r]]
  /\ Goto(r, "completed")
  /\ UNCHANGED <<orders, locals, answered, faults>>

(* failTransaction, its UPDATE: the row is marked whoever has completed it *)
(* meanwhile, and keeps its order id.                                      *)
FailTransaction(r) ==
  /\ pc[r] = "failing"
  /\ row' = [row EXCEPT ![key[r]] = "failed"]
  /\ Goto(r, "failed")
  /\ UNCHANGED <<rowOrder, orders, locals, answered, faults>>

(* Each of the three updates is followed by a read of the row whose result *)
(* nobody uses; then the order is returned, the error thrown or the        *)
(* operation started.                                                      *)
ReadRowBack(r) ==
  /\ \/ pc[r] = "completed" /\ Succeed(r, result[r])
     \/ pc[r] = "failed" /\ Finish(r) /\ UNCHANGED answered
     \/ pc[r] = "counted" /\ Goto(r, "ready") /\ UNCHANGED <<locals, answered>>
  /\ UNCHANGED <<rows, orders, faults>>

(* A statement fails.  Inside the try that leads to failTransaction, also  *)
(* after the order's commit and after the row was completed.               *)
DatabaseError(r) ==
  /\ faults < MaxFaults
  /\ faults' = faults + 1
  /\ \/ /\ pc[r] \in {"checking", "recording", "counting", "counted", "failing", "failed"}
        /\ Finish(r)
     \/ /\ pc[r] \in {"starting", "inserting", "executed", "completed"}
        /\ Goto(r, "failing")
        /\ UNCHANGED locals
  /\ UNCHANGED <<rows, orders, answered>>

(* The process serving the request stops; an open transaction is rolled    *)
(* back and the client hears nothing.                                      *)
Crash(r) ==
  /\ faults < MaxFaults
  /\ faults' = faults + 1
  /\ pc[r] # "idle"
  /\ Finish(r)
  /\ UNCHANGED <<rows, orders, answered>>

Step(r) ==
  \/ CheckTransactionExists(r)
  \/ RecordTransaction(r)
  \/ IncrementAttempt(r)
  \/ \E i \in OrderIds : GenerateOrderId(r, i)
  \/ CheckTransactionIdempotency(r)
  \/ InsertOrder(r)
  \/ InsertConflict(r)
  \/ CompleteTransaction(r)
  \/ FailTransaction(r)
  \/ ReadRowBack(r)

Next ==
  \E r \in Requests :
    \/ \E k \in Keys : CreateOrder(r, k)
    \/ Step(r)
    \/ DatabaseError(r)
    \/ Crash(r)

Spec == Init /\ [][Next]_vars

(* Requests proceed, and a client repeats its request until it is answered *)
(* (an assumption on the clients).                                         *)
Unanswered(k) == \A i \in OrderIds : <<k, i>> \notin answered

Resend(r, k) == Unanswered(k) /\ CreateOrder(r, k)

Fairness ==
  \A r \in Requests :
    /\ WF_vars(Step(r))
    /\ \A k \in Keys : SF_vars(Resend(r, k))

FairSpec == Spec /\ Fairness
-----------------------------------------------------------------------------
(* Properties.                                                             *)

(* Seen through the committed orders and the successful answers, repeated, *)
(* racing and interrupted requests place at most one order per transaction *)
(* id, and no answer names another.                                        *)
Contract == INSTANCE OrderContract
              WITH Keys <- Keys, OrderIds <- OrderIds,
                   orders <- orders, answered <- answered
ImplementsContract == Contract!ContractSpec

(* The order id a transaction row holds, also after failTransaction or a   *)
(* racing recordTransaction took its status back, is that of the committed *)
(* order: replaying it never points a client at an order that is not there.*)
RowNamesTheOrder ==
  \A k \in Keys :
    /\ rowOrder[k] # NoOrder => <<k, rowOrder[k]>> \in orders
    /\ row[k] = "completed" => rowOrder[k] # NoOrder

(* Once an order is placed, a client that keeps repeating its request is   *)
(* told it, whatever happened to the request that placed it and to its row:*)
(* an error or a crash after the commit, a row taken back by a late        *)
(* failTransaction or recordTransaction, lost answers.                     *)
PlacedOrdersAreTold == \A k \in Keys : Placed(k) ~> ~ Unanswered(k)

(* What createOrder is for: once faults have ended, a client that keeps    *)
(* repeating its request is told its order.  It holds where the read-back  *)
(* sees the inserted row; as the modules are wired it does not.            *)
ClientsAreAnswered == \A k \in Keys : <> ~ Unanswered(k)
=============================================================================
