------------------------------- MODULE Payments -------------------------------
(***************************************************************************)
(* PaymentsService: processPayment and refundPayment against the gateway   *)
(* of MockPaymentGateway behind CircuitBreakerPaymentGateway.              *)
(*                                                                         *)
(* processPayment draws a new idempotency key for every call, so a call,   *)
(* its row of order_transactions, its row of payments and its gateway      *)
(* payment share one identity, a member of Payments; the key is never seen *)
(* before, so the response cache and executeWithIdempotency never find     *)
(* anything.  A process restart loses the calls in progress and, the mock  *)
(* keeping its payments in memory, what the gateway knows; the tables, and *)
(* the money that moved, stay.                                             *)
(*                                                                         *)
(* The circuits (one around the service's gateway calls, one per order to  *)
(* authorize, one per payment to refund) appear through what they let a    *)
(* caller see: the operation's outcome, the fallback's, or the null of the *)
(* call that starts the half-open test.  A circuit that has counted        *)
(* Threshold failures may be in any state from then on; when it is in      *)
(* which is the subject of CircuitBreaker.                                 *)
(***************************************************************************)
EXTENDS Integers

CONSTANTS
  Payments,      \* calls of processPayment
  Orders,        \* existing orders
  Refunds,       \* refundPayment calls being served at the same time
  Amount,        \* what every payment is for
  Amounts,       \* the amounts refunds ask for; 0 asks for none in particular
  NoPayment,     \* no payment; also the empty gatewayPaymentId of a decline
  Threshold,     \* failureThreshold of the payment circuits
  MaxFaults      \* bound: database errors and restarts

ASSUME PaymentsAssumption ==
  /\ Payments \cap Orders = {}
  /\ NoPayment \notin Payments \cup Orders
  /\ Amount \in Nat \ {0}
  /\ Amounts \subseteq Nat
  /\ Threshold \in Nat \ {0}
  /\ MaxFaults \in Nat

VARIABLES
  \* the gateway
  gateway,       \* MockPaymentData.status, "unknown" without an entry
  charged,       \* history: the money was captured
  refunded,      \* history: the money given back
  \* the tables
  transaction,   \* order_transactions.status of the idempotency key
  status,        \* payments.status, "absent" without a row
  gatewayId,     \* payments.gatewayPaymentId
  refundedAmount,\* payments.refundedAmount
  queue,         \* the payments of payment_failure_queue
  \* processPayment
  pc, order, outcome,
  answer,        \* history: what the caller was told
  \* refundPayment
  at, payment, amount, refund,
  failures,      \* failures each circuit has counted, up to Threshold
  faults         \* history: database errors and restarts so far

money == <<gateway, charged, refunded>>
row == <<status, gatewayId, refundedAmount>>
tables == <<transaction, row, queue>>
calls == <<pc, order, outcome, answer>>
refunds == <<at, payment, amount, refund>>
vars == <<money, tables, calls, refunds, failures, faults>>

Places == {"new", "recording", "authorizing", "saving", "capturing", "updating",
           "completing", "queueing", "failing", "done"}
Outcomes == {"none", "authorized", "declined", "unreachable", "captured", "failed"}
GatewayStatuses == {"unknown", "authorized", "captured", "partially_refunded", "refunded"}
Statuses == {"absent", "authorized", "captured", "failed", "partially_refunded", "refunded"}
Circuits == {"service"} \cup Orders \cup Payments
GatewayIds == Payments \cup Orders \cup {NoPayment}

TypeOK ==
  /\ gateway \in [Payments -> GatewayStatuses]
  /\ charged \in [Payments -> BOOLEAN]
  /\ refunded \in [Payments -> Nat]
  /\ transaction \in [Payments -> {"absent", "pending", "completed", "failed"}]
  /\ status \in [Payments -> Statuses]
  /\ gatewayId \in [Payments -> GatewayIds]
  /\ refundedAmount \in [Payments -> Nat]
  /\ queue \subseteq Payments
  /\ pc \in [Payments -> Places]
  /\ order \in [Payments -> Orders \cup {NoPayment}]
  /\ outcome \in [Payments -> Outcomes]
  /\ answer \in [Payments -> {"none", "success", "failure"}]
  /\ at \in [Refunds -> {"idle", "calling", "writing"}]
  /\ payment \in [Refunds -> Payments \cup {NoPayment}]
  /\ amount \in [Refunds -> Amounts \cup {0}]
  /\ refund \in [Refunds -> {"none", "failed", "partially_refunded", "refunded"}]
  /\ failures \in [Circuits -> 0 .. Threshold]
  /\ faults \in 0 .. MaxFaults

Init ==
  /\ gateway = [p \in Payments |-> "unknown"]
  /\ charged = [p \in Payments |-> FALSE]
  /\ refunded = [p \in Payments |-> 0]
  /\ transaction = [p \in Payments |-> "absent"]
  /\ status = [p \in Payments |-> "absent"]
  /\ gatewayId = [p \in Payments |-> NoPayment]
  /\ refundedAmount = [p \in Payments |-> 0]
  /\ queue = {}
  /\ pc = [p \in Payments |-> "new"]
  /\ order = [p \in Payments |-> NoPayment]
  /\ outcome = [p \in Payments |-> "none"]
  /\ answer = [p \in Payments |-> "none"]
  /\ at = [r \in Refunds |-> "idle"]
  /\ payment = [r \in Refunds |-> NoPayment]
  /\ amount = [r \in Refunds |-> 0]
  /\ refund = [r \in Refunds |-> "none"]
  /\ failures = [c \in Circuits |-> 0]
  /\ faults = 0

CountFailure(c) ==
  failures' = [failures EXCEPT ![c] = IF @ < Threshold THEN @ + 1 ELSE Threshold]

(* A circuit may be OPEN, or half-opening, once it has counted enough.     *)
MayTurnAway(c) == failures[c] = Threshold

Goto(p, place) == pc' = [pc EXCEPT ![p] = place]

(* The call is over: the caller is told how the payment went.              *)
Answer(p, told) ==
  /\ Goto(p, "done")
  /\ outcome' = [outcome EXCEPT ![p] = "none"]
  /\ answer' = [answer EXCEPT ![p] = told]

-----------------------------------------------------------------------------
(* processPayment: outside the transaction.                                *)

(* A call for an order: the key is new and ensureValidOrderState finds the *)
(* order.  The service's own circuit lets it in, or turns it away, which   *)
(* handlePaymentProcessingError answers; it knows of no payment to queue.  *)
ProcessPayment(p, o) ==
  /\ pc[p] = "new"
  /\ order' = [order EXCEPT ![p] = o]
  /\ \/ Goto(p, "recording") /\ UNCHANGED <<outcome, answer>>
     \/ MayTurnAway("service") /\ Answer(p, "failure")
  /\ UNCHANGED <<money, tables, refunds, failures, faults>>

(* executeWithIdempotency records the transaction.                         *)
RecordTransaction(p) ==
  /\ pc[p] = "recording"
  /\ transaction' = [transaction EXCEPT ![p] = "pending"]
  /\ Goto(p, "authorizing")
  /\ UNCHANGED <<money, row, queue, order, outcome, answer, refunds, failures, faults>>

-----------------------------------------------------------------------------
(* processPaymentTransaction, one await at a time.                         *)

(* authorizePayment: authorized, declined, or not reached, with the        *)
(* fallback's FAILED; the null of a half-open test makes the service throw.*)
AuthorizePayment(p) ==
  /\ pc[p] = "authorizing"
  /\ \/ /\ gateway' = [gateway EXCEPT ![p] = "authorized"]
        /\ outcome' = [outcome EXCEPT ![p] = "authorized"]
        /\ Goto(p, "saving")
        /\ UNCHANGED failures
     \/ /\ outcome' = [outcome EXCEPT ![p] = "declined"]
        /\ Goto(p, "saving")
        /\ UNCHANGED <<gateway, failures>>
     \/ /\ outcome' = [outcome EXCEPT ![p] = "unreachable"]
        /\ CountFailure(order[p])
        /\ Goto(p, "saving")
        /\ UNCHANGED gateway
     \/ /\ MayTurnAway(order[p])
        /\ Goto(p, "failing")
        /\ UNCHANGED <<gateway, outcome, failures>>
  /\ UNCHANGED <<charged, refunded, tables, order, answer, refunds, faults>>

(* Mutant: the order id is stored, whatever the gateway answered.          *)
BugResultId(p) == order[p]

(* The gatewayPaymentId a result carries: a decline has none, and the      *)
(* authorization's fallback passes the order id in its place.              *)
ResultId(p) ==
  CASE outcome[p] = "authorized"  -> p
    [] outcome[p] = "unreachable" -> order[p]
    [] OTHER                      -> NoPayment

(* gatewayPaymentId is unique among the rows.                              *)
Taken(id) == \E q \in Payments : status[q] # "absent" /\ gatewayId[q] = id

(* createPaymentRecord; a gatewayPaymentId that is taken throws.           *)
CreatePaymentRecord(p) ==
  /\ pc[p] = "saving"
  /\ \/ /\ ~ Taken(ResultId(p))
        /\ gatewayId' = [gatewayId EXCEPT ![p] = ResultId(p)]
        /\ \/ /\ outcome[p] = "authorized"
              /\ status' = [status EXCEPT ![p] = "authorized"]
              /\ Goto(p, "capturing")
           \/ /\ outcome[p] # "authorized"
              /\ status' = [status EXCEPT ![p] = "failed"]
              /\ Goto(p, "completing")
     \/ /\ Taken(ResultId(p))
        /\ Goto(p, "failing")
        /\ UNCHANGED <<status, gatewayId>>
  /\ UNCHANGED <<money, transaction, refundedAmount, queue, order, outcome,
                 answer, refunds, failures, faults>>

(* capturePayment, in full: the gateway captures what it has authorized,   *)
(* or refuses or is not reached.  The circuit of this payment is new.      *)
CapturePayment(p) ==
  /\ pc[p] = "capturing"
  /\ \/ /\ gateway[p] = "authorized"
        /\ gateway' = [gateway EXCEPT ![p] = "captured"]
        /\ charged' = [charged EXCEPT ![p] = TRUE]
        /\ outcome' = [outcome EXCEPT ![p] = "captured"]
     \/ /\ outcome' = [outcome EXCEPT ![p] = "failed"]
        /\ UNCHANGED <<gateway, charged>>
  /\ Goto(p, "updating")
  /\ UNCHANGED <<refunded, tables, order, answer, refunds, failures, faults>>

(* Mutant: the row becomes CAPTURED before the result is known to be one.  *)
BugUpdatePaymentRecord(p) ==
  /\ pc[p] = "updating"
  /\ status' = [status EXCEPT ![p] = "captured"]
  /\ Goto(p, "completing")
  /\ UNCHANGED <<money, transaction, gatewayId, refundedAmount, queue, order,
                 outcome, answer, refunds, failures, faults>>

(* updatePaymentRecord with the result of the capture.                     *)
UpdatePaymentRecord(p) ==
  /\ pc[p] = "updating"
  /\ status' = [status EXCEPT ![p] = outcome[p]]
  /\ Goto(p, "completing")
  /\ UNCHANGED <<money, transaction, gatewayId, refundedAmount, queue, order,
                 outcome, answer, refunds, failures, faults>>

(* Mutant: every payment goes through handleFailedPayment.                 *)
BugCompleteTransaction(p) ==
  /\ pc[p] = "completing"
  /\ transaction' = [transaction EXCEPT ![p] = "completed"]
  /\ Goto(p, "queueing")
  /\ UNCHANGED <<money, row, queue, order, outcome, answer, refunds, failures, faults>>

(* completeTransaction; the circuit passes the result on, and a success is *)
(* cached under the key nobody will use again.                             *)
CompleteTransaction(p) ==
  /\ pc[p] = "completing"
  /\ transaction' = [transaction EXCEPT ![p] = "completed"]
  /\ \/ outcome[p] = "captured" /\ Answer(p, "success")
     \/ outcome[p] # "captured" /\ Goto(p, "queueing") /\ UNCHANGED <<outcome, answer>>
  /\ UNCHANGED <<money, row, queue, order, refunds, failures, faults>>

(* handleFailedPayment: the payment is found and joins the queue.          *)
HandleFailedPayment(p) ==
  /\ pc[p] = "queueing"
  /\ queue' = queue \cup {p}
  /\ Answer(p, "failure")
  /\ UNCHANGED <<money, transaction, row, order, refunds, failures, faults>>

(* failTransaction, whose error the circuit counts and                     *)
(* handlePaymentProcessingError answers, again with no payment to queue.   *)
FailTransaction(p) ==
  /\ pc[p] = "failing"
  /\ transaction' = [transaction EXCEPT ![p] = "failed"]
  /\ CountFailure("service")
  /\ Answer(p, "failure")
  /\ UNCHANGED <<money, row, queue, order, refunds, faults>>

-----------------------------------------------------------------------------
(* refundPayment.                                                          *)

EndRefund(r) ==
  /\ at' = [at EXCEPT ![r] = "idle"]
  /\ payment' = [payment EXCEPT ![r] = NoPayment]
  /\ amount' = [amount EXCEPT ![r] = 0]
  /\ refund' = [refund EXCEPT ![r] = "none"]

(* Mutant: an authorized payment may be refunded as well.                  *)
BugRefundPayment(r, p, a) ==
  /\ at[r] = "idle"
  /\ status[p] \in {"authorized", "captured"}
  /\ at' = [at EXCEPT ![r] = "calling"]
  /\ payment' = [payment EXCEPT ![r] = p]
  /\ amount' = [amount EXCEPT ![r] = a]
  /\ UNCHANGED <<money, tables, calls, refund, failures, faults>>

(* The row is read and must be CAPTURED; anything else throws and changes  *)
(* nothing.                                                                *)
RefundPayment(r, p, a) ==
  /\ at[r] = "idle"
  /\ status[p] = "captured"
  /\ at' = [at EXCEPT ![r] = "calling"]
  /\ payment' = [payment EXCEPT ![r] = p]
  /\ amount' = [amount EXCEPT ![r] = a]
  /\ UNCHANGED <<money, tables, calls, refund, failures, faults>>

(* amount || payment.amount                                                *)
Asked(r) == IF amount[r] = 0 THEN Amount ELSE amount[r]

(* Mutant: the gateway's own status is not checked.                        *)
BugGatewayRefunds(r, p) ==
  /\ Asked(r) <= Amount
  /\ gateway' = [gateway EXCEPT ![p] = "refunded"]
  /\ refund' = [refund EXCEPT ![r] = "refunded"]
  /\ refunded' = [refunded EXCEPT ![p] = @ + Asked(r)]
  /\ UNCHANGED failures

(* The gateway refunds a payment that it knows to be captured, once.       *)
GatewayRefunds(r, p) ==
  /\ gateway[p] = "captured"
  /\ Asked(r) <= Amount
  /\ LET now == IF Asked(r) = Amount THEN "refunded" ELSE "partially_refunded"
     IN  /\ gateway' = [gateway EXCEPT ![p] = now]
         /\ refund' = [refund EXCEPT ![r] = now]
  /\ refunded' = [refunded EXCEPT ![p] = @ + Asked(r)]
  /\ UNCHANGED failures

(* It is not reached, refuses, or does not know the payment: FAILED.       *)
GatewayRefundFails(r, p) ==
  /\ refund' = [refund EXCEPT ![r] = "failed"]
  /\ UNCHANGED failures \/ CountFailure(p)
  /\ UNCHANGED <<gateway, refunded>>

(* The call through both circuits.  When the service's own turns it away,  *)
(* or either answers null, the refund ends in the catch.                   *)
CallRefund(r) ==
  /\ at[r] = "calling"
  /\ \/ /\ GatewayRefunds(r, payment[r]) \/ GatewayRefundFails(r, payment[r])
        /\ at' = [at EXCEPT ![r] = "writing"]
        /\ UNCHANGED <<payment, amount>>
     \/ /\ MayTurnAway("service") \/ MayTurnAway(payment[r])
        /\ EndRefund(r)
        /\ UNCHANGED <<gateway, refunded, failures>>
  /\ UNCHANGED <<charged, tables, calls, faults>>

(* updatePaymentRecord, whatever the result and whatever the row has       *)
(* become.                                                                 *)
RecordRefund(r) ==
  /\ at[r] = "writing"
  /\ status' = [status EXCEPT ![payment[r]] = refund[r]]
  /\ refundedAmount' = [refundedAmount EXCEPT ![payment[r]] = Asked(r)]
  /\ EndRefund(r)
  /\ UNCHANGED <<money, transaction, gatewayId, queue, calls, failures, faults>>

-----------------------------------------------------------------------------
(* Faults.                                                                 *)

(* A statement of processPayment fails: inside executeWithIdempotency's    *)
(* try that leads to failTransaction; elsewhere the catch answers.         *)
PaymentError(p) ==
  /\ faults < MaxFaults
  /\ faults' = faults + 1
  /\ \/ /\ pc[p] \in {"saving", "updating", "completing"}
        /\ Goto(p, "failing")
        /\ UNCHANGED <<outcome, answer>>
        /\ UNCHANGED failures
     \/ /\ pc[p] \in {"recording", "failing"}
        /\ CountFailure("service")
        /\ Answer(p, "failure")
     \/ /\ pc[p] = "queueing"
        /\ Answer(p, "failure")
        /\ UNCHANGED failures
  /\ UNCHANGED <<money, tables, order, refunds>>

(* The statement that would record a refund fails.                         *)
RefundError(r) ==
  /\ faults < MaxFaults
  /\ faults' = faults + 1
  /\ at[r] = "writing"
  /\ EndRefund(r)
  /\ UNCHANGED <<money, tables, calls, failures>>

(* The process stops and starts again.                                     *)
Restart ==
  /\ faults < MaxFaults
  /\ faults' = faults + 1
  /\ gateway' = [p \in Payments |-> "unknown"]
  /\ pc' = [p \in Payments |-> IF pc[p] = "new" THEN "new" ELSE "done"]
  /\ outcome' = [p \in Payments |-> "none"]
  /\ at' = [r \in Refunds |-> "idle"]
  /\ payment' = [r \in Refunds |-> NoPayment]
  /\ amount' = [r \in Refunds |-> 0]
  /\ refund' = [r \in Refunds |-> "none"]
  /\ failures' = [c \in Circuits |-> 0]
  /\ UNCHANGED <<charged, refunded, tables, order, answer>>

PaymentStep(p) ==
  \/ RecordTransaction(p)
  \/ AuthorizePayment(p)
  \/ CreatePaymentRecord(p)
  \/ CapturePayment(p)
  \/ UpdatePaymentRecord(p)
  \/ CompleteTransaction(p)
  \/ HandleFailedPayment(p)
  \/ FailTransaction(p)

RefundStep(r) ==
  \/ CallRefund(r)
  \/ RecordRefund(r)

Next ==
  \/ \E p \in Payments :
       \/ \E o \in Orders : ProcessPayment(p, o)
       \/ PaymentStep(p)
       \/ PaymentError(p)
  \/ \E r \in Refunds :
       \/ \E p \in Payments, a \in Amounts : RefundPayment(r, p, a)
       \/ RefundStep(r)
       \/ RefundError(r)
  \/ Restart

Spec == Init /\ [][Next]_vars
-----------------------------------------------------------------------------
(* Properties.                                                             *)

(* Money is never taken without a row of payments to find it by, whose     *)
(* gatewayPaymentId is the gateway's, through errors and restarts between  *)
(* the capture and any later step.                                         *)
EveryChargeIsRecorded ==
  \A p \in Payments :
    charged[p] => status[p] # "absent" /\ gatewayId[p] = p

(* A row's good news is true of the gateway, whichever refunds raced and   *)
(* whichever of their blind updates came last: CAPTURED was captured, and  *)
(* a refund that a row records gave back exactly what the row says.        *)
RecordsTellTheTruth ==
  \A p \in Payments :
    /\ status[p] = "captured" => charged[p]
    /\ status[p] \in {"partially_refunded", "refunded"} =>
         charged[p] /\ refunded[p] = refundedAmount[p]
    /\ status[p] = "refunded" => refunded[p] = Amount

(* A caller is told of success only when its payment was captured and its  *)
(* transaction is completed, and what waits for a retry was never charged, *)
(* so retrying it cannot charge the customer again for it.                 *)
AnswersTellTheTruth ==
  /\ \A p \in Payments :
       answer[p] = "success" => charged[p] /\ transaction[p] = "completed"
  /\ \A p \in queue : ~ charged[p]

(* A row reaches CAPTURED only from AUTHORIZED: no late update of          *)
(* processPayment or of a refund makes a row refundable again.             *)
NeverRecaptured ==
  [][\A p \in Payments :
       status'[p] = "captured" => status[p] \in {"authorized", "captured"}]_vars

(* Concurrent refunds of one payment give money back once at most, and     *)
(* never more than was taken.                                              *)
RefundedOnce ==
  [][\A p \in Payments :
       refunded'[p] # refunded[p] =>
         charged[p] /\ refunded[p] = 0 /\ refunded'[p] <= Amount]_vars
=============================================================================
