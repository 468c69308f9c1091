--------------------------- MODULE Payments_proofs ---------------------------
(***************************************************************************)
(* What Payments guarantees for any number of payments, orders and         *)
(* concurrent refunds, any amounts, circuit threshold and number of faults.*)
(*                                                                         *)
(* The invariants about money and rows are not inductive: a capture, an    *)
(* update or a refund in progress carries a result from the gateway to the *)
(* row, and what it will write must be true when it is written.  IInv says *)
(* what each place of processPayment (PaymentSound) and each refund in     *)
(* progress (RefundSound) holds on to.                                     *)
(***************************************************************************)
EXTENDS Payments, TLAPS

(* What holds of a payment at each place of its processPayment call, and   *)
(* what the gateway's status tells of the money.                           *)
PaymentSound(p) ==
  /\ pc[p] \in {"new", "recording", "authorizing", "saving"} =>
       status[p] = "absent" /\ ~ charged[p]
  /\ pc[p] = "saving" => outcome[p] \in {"authorized", "declined", "unreachable"}
  /\ pc[p] \in {"capturing", "updating"} => status[p] = "authorized" /\ gatewayId[p] = p
  /\ pc[p] = "capturing" => ~ charged[p]
  /\ pc[p] = "updating" => outcome[p] \in {"captured", "failed"}
  /\ pc[p] = "completing" => status[p] # "absent"
  /\ pc[p] \in {"updating", "completing"} => (outcome[p] = "captured" <=> charged[p])
  /\ pc[p] = "queueing" => ~ charged[p]
  /\ p \in queue => pc[p] = "done"
  /\ answer[p] # "none" => pc[p] = "done"
  /\ status[p] = "captured" => pc[p] \in {"completing", "failing", "done"}
  /\ gateway[p] = "captured" => charged[p] /\ refunded[p] = 0
  /\ refunded[p] # 0 => charged[p]
  /\ status[p] \in {"partially_refunded", "refunded"} => refunded[p] # 0

(* A refund in progress is of a charged payment whose processPayment call  *)
(* has written its last; the result it will write is the gateway's.        *)
RefundSound(r) ==
  /\ at[r] # "idle" =>
       /\ payment[r] \in Payments
       /\ charged[payment[r]]
       /\ pc[payment[r]] \in {"completing", "failing", "done"}
  /\ at[r] = "writing" =>
       /\ refund[r] # "none"
       /\ refund[r] # "failed" => refunded[payment[r]] = Asked(r)
       /\ refund[r] = "refunded" => Asked(r) = Amount

IInv ==
  /\ TypeOK
  /\ \A p \in Payments : PaymentSound(p)
  /\ \A r \in Refunds : RefundSound(r)
  /\ EveryChargeIsRecorded
  /\ RecordsTellTheTruth
  /\ AnswersTellTheTruth

(* A refund asks for a positive amount.                                    *)
LEMMA AskedPositive ==
  ASSUME TypeOK, NEW r \in Refunds
  PROVE  Asked(r) \in Nat \ {0}
BY PaymentsAssumption DEF TypeOK, Asked

(* Counting a failure keeps the counters' type.                            *)
LEMMA CountFailureType ==
  ASSUME TypeOK, NEW c, CountFailure(c)
  PROVE  failures' \in [Circuits -> 0 .. Threshold]
<1>1. \A n \in 0 .. Threshold : (IF n < Threshold THEN n + 1 ELSE Threshold) \in 0 .. Threshold
  BY PaymentsAssumption
<1>2. failures \in [Circuits -> 0 .. Threshold]
  BY DEF TypeOK
<1>3. failures' = [failures EXCEPT ![c] =
                     IF failures[c] < Threshold THEN failures[c] + 1 ELSE Threshold]
  BY DEF CountFailure
<1> QED
  BY <1>1, <1>2, <1>3

(* Before any call, the invariant holds.                                   *)
LEMMA InitInv == Init => IInv
<1> SUFFICES ASSUME Init PROVE IInv
  OBVIOUS
<1>1. TypeOK
  <2>1. 0 \in 0 .. MaxFaults /\ 0 \in 0 .. Threshold
    BY PaymentsAssumption
  <2> QED
    BY <2>1 DEF Init, TypeOK, Places, Outcomes, GatewayStatuses, Statuses, GatewayIds
<1>2. ASSUME NEW p \in Payments PROVE PaymentSound(p)
  BY DEF Init, PaymentSound
<1>3. ASSUME NEW r \in Refunds PROVE RefundSound(r)
  BY DEF Init, RefundSound
<1>4. EveryChargeIsRecorded /\ RecordsTellTheTruth /\ AnswersTellTheTruth
  BY DEF Init, EveryChargeIsRecorded, RecordsTellTheTruth, AnswersTellTheTruth
<1> QED
  BY <1>1, <1>2, <1>3, <1>4 DEF IInv

(* A step of a processPayment call leaves the gateway's charges and        *)
(* refunds alone unless it captures: what the other payments, and the      *)
(* refunds in progress, rest on does not move.                             *)
LEMMA PaymentStepInv ==
  ASSUME IInv, NEW p \in Payments,
         (\E o \in Orders : ProcessPayment(p, o)) \/ PaymentStep(p) \/ PaymentError(p)
  PROVE  IInv'
<1> USE DEF PaymentStep
<1>1. TypeOK /\ PaymentSound(p) /\ faults \in 0 .. MaxFaults
  BY DEF IInv, TypeOK
<1>2. UNCHANGED <<refunded, refundedAmount, at, payment, amount, refund>>
  BY DEF ProcessPayment, RecordTransaction, AuthorizePayment, CreatePaymentRecord,
         CapturePayment, UpdatePaymentRecord, CompleteTransaction, HandleFailedPayment,
         FailTransaction, PaymentError, money, tables, row, refunds
<1>3. TypeOK'
  <2>1. failures' \in [Circuits -> 0 .. Threshold]
    <3>1. UNCHANGED failures \/ (\E c : CountFailure(c))
      BY DEF ProcessPayment, RecordTransaction, AuthorizePayment, CreatePaymentRecord,
             CapturePayment, UpdatePaymentRecord, CompleteTransaction, HandleFailedPayment,
             FailTransaction, PaymentError
    <3> QED
      BY <1>1, <3>1, CountFailureType DEF TypeOK
  <2>2. faults' \in 0 .. MaxFaults
    <3>1. \/ UNCHANGED faults
          \/ faults < MaxFaults /\ faults' = faults + 1
      BY DEF ProcessPayment, RecordTransaction, AuthorizePayment, CreatePaymentRecord,
             CapturePayment, UpdatePaymentRecord, CompleteTransaction, HandleFailedPayment,
             FailTransaction, PaymentError
    <3> QED
      BY <1>1, <3>1, PaymentsAssumption
  <2>3. /\ gateway' \in [Payments -> GatewayStatuses]
        /\ charged' \in [Payments -> BOOLEAN]
        /\ transaction' \in [Payments -> {"absent", "pending", "completed", "failed"}]
        /\ queue' \subseteq Payments
    BY <1>1 DEF TypeOK, ProcessPayment, RecordTransaction, AuthorizePayment, CreatePaymentRecord,
           CapturePayment, UpdatePaymentRecord, CompleteTransaction, HandleFailedPayment,
           FailTransaction, PaymentError, money, tables, row, GatewayStatuses
  <2>4. /\ status' \in [Payments -> Statuses]
        /\ gatewayId' \in [Payments -> GatewayIds]
    BY <1>1 DEF TypeOK, ProcessPayment, RecordTransaction, AuthorizePayment, CreatePaymentRecord,
           CapturePayment, UpdatePaymentRecord, CompleteTransaction, HandleFailedPayment,
           FailTransaction, PaymentError, money, tables, row, Statuses, GatewayIds, ResultId,
           PaymentSound
  <2>5. /\ pc' \in [Payments -> Places]
        /\ order' \in [Payments -> Orders \cup {NoPayment}]
        /\ outcome' \in [Payments -> Outcomes]
        /\ answer' \in [Payments -> {"none", "success", "failure"}]
    BY <1>1 DEF TypeOK, ProcessPayment, RecordTransaction, AuthorizePayment, CreatePaymentRecord,
           CapturePayment, UpdatePaymentRecord, CompleteTransaction, HandleFailedPayment,
           FailTransaction, PaymentError, calls, Goto, Answer, Places, Outcomes
  <2> QED
    BY <1>1, <1>2, <2>1, <2>2, <2>3, <2>4, <2>5 DEF TypeOK
<1>4. PaymentSound(p)'
  <2>1. CASE \E o \in Orders : ProcessPayment(p, o)
    BY <1>1, <1>2, <2>1 DEF TypeOK, PaymentSound, ProcessPayment, Goto, Answer, money, tables, row, calls
  <2>2. CASE RecordTransaction(p)
    BY <1>1, <1>2, <2>2 DEF TypeOK, PaymentSound, RecordTransaction, Goto, Answer, money, row
  <2>3. CASE AuthorizePayment(p)
    BY <1>1, <1>2, <2>3 DEF TypeOK, PaymentSound, AuthorizePayment, Goto, Answer, tables, row
  <2>4. CASE CreatePaymentRecord(p)
    BY <1>1, <1>2, <2>4 DEF TypeOK, PaymentSound, CreatePaymentRecord, Goto, Answer, money, ResultId
  <2>5. CASE CapturePayment(p)
    BY <1>1, <1>2, <2>5 DEF TypeOK, PaymentSound, CapturePayment, Goto, Answer, tables, row
  <2>6. CASE UpdatePaymentRecord(p)
    <3>1. /\ pc[p] = "updating" /\ pc'[p] = "completing"
          /\ status'[p] = outcome[p] /\ outcome[p] \in {"captured", "failed"}
          /\ UNCHANGED <<gateway, charged, refunded, outcome, answer, queue>>
      BY <1>1, <2>6 DEF TypeOK, PaymentSound, UpdatePaymentRecord, Goto, money
    <3> QED
      BY <1>1, <3>1 DEF PaymentSound
  <2>7. CASE CompleteTransaction(p)
    <3>1. /\ pc[p] = "completing"
          /\ UNCHANGED <<gateway, charged, refunded, status, gatewayId, queue>>
      BY <2>7 DEF CompleteTransaction, money, row
    <3>2. CASE outcome[p] = "captured" /\ Answer(p, "success")
      BY <1>1, <3>1, <3>2 DEF TypeOK, PaymentSound, Goto, Answer
    <3>3. CASE outcome[p] # "captured" /\ Goto(p, "queueing") /\ UNCHANGED <<outcome, answer>>
      <4>1. status[p] # "captured"
        BY <1>1, <3>1, <3>3 DEF IInv, PaymentSound, RecordsTellTheTruth
      <4> QED
        BY <1>1, <3>1, <3>3, <4>1 DEF TypeOK, PaymentSound, Goto
    <3> QED
      BY <2>7, <3>2, <3>3 DEF CompleteTransaction
  <2>8. CASE HandleFailedPayment(p)
    BY <1>1, <1>2, <2>8 DEF TypeOK, PaymentSound, HandleFailedPayment, Goto, Answer, money, row
  <2>9. CASE FailTransaction(p)
    BY <1>1, <1>2, <2>9 DEF TypeOK, PaymentSound, FailTransaction, Goto, Answer, money, row
  <2>10. CASE PaymentError(p)
    BY <1>1, <1>2, <2>10 DEF TypeOK, PaymentSound, PaymentError, Goto, Answer, money, tables, row
  <2> QED
    BY <2>1, <2>2, <2>3, <2>4, <2>5, <2>6, <2>7, <2>8, <2>9, <2>10
<1>5. ASSUME NEW q \in Payments, q # p
      PROVE  /\ UNCHANGED <<pc[q], outcome[q], answer[q], status[q], gatewayId[q],
                            gateway[q], charged[q], refunded[q], transaction[q], refundedAmount[q]>>
             /\ q \in queue' <=> q \in queue
  BY <1>1, <1>2, <1>5 DEF TypeOK, ProcessPayment, RecordTransaction, AuthorizePayment,
     CreatePaymentRecord, CapturePayment, UpdatePaymentRecord, CompleteTransaction,
     HandleFailedPayment, FailTransaction, PaymentError, money, tables, row, calls, Goto, Answer
<1>6. ASSUME NEW q \in Payments PROVE PaymentSound(q)'
  <2>1. CASE q = p
    BY <1>4, <2>1
  <2>2. CASE q # p
    BY <1>5, <2>2 DEF IInv, PaymentSound
  <2> QED
    BY <2>1, <2>2
<1>7. /\ charged[p] => charged'[p]
      /\ charged[p] /\ pc[p] \in {"completing", "failing", "done"} =>
           pc'[p] \in {"completing", "failing", "done"}
  BY <1>1 DEF TypeOK, PaymentSound, ProcessPayment, RecordTransaction, AuthorizePayment,
     CreatePaymentRecord, CapturePayment, UpdatePaymentRecord, CompleteTransaction,
     HandleFailedPayment, FailTransaction, PaymentError, money, tables, row, calls, Goto, Answer
<1>8. ASSUME NEW r \in Refunds PROVE RefundSound(r)'
  <2>1. RefundSound(r) /\ Asked(r)' = Asked(r)
    BY <1>2 DEF IInv, Asked
  <2>2. CASE at[r] = "idle"
    BY <1>2, <2>2 DEF RefundSound
  <2>3. CASE at[r] # "idle" /\ payment[r] = p
    BY <1>2, <1>7, <2>1, <2>3 DEF RefundSound
  <2>4. CASE at[r] # "idle" /\ payment[r] # p
    BY <1>2, <1>5, <2>1, <2>4 DEF RefundSound
  <2> QED
    BY <2>2, <2>3, <2>4
<1>9. /\ charged'[p] => status'[p] # "absent" /\ gatewayId'[p] = p
      /\ status'[p] = "captured" => charged'[p]
      /\ status'[p] \in {"partially_refunded", "refunded"} =>
           status[p] = status'[p] /\ charged'[p]
      /\ p \in queue' => ~ charged'[p]
      /\ answer'[p] = "success" => charged'[p] /\ transaction'[p] = "completed"
  BY <1>1 DEF IInv, TypeOK, PaymentSound, EveryChargeIsRecorded, RecordsTellTheTruth,
     AnswersTellTheTruth, ProcessPayment, RecordTransaction, AuthorizePayment,
     CreatePaymentRecord, CapturePayment, UpdatePaymentRecord, CompleteTransaction,
     HandleFailedPayment, FailTransaction, PaymentError, money, tables, row, calls,
     Goto, Answer, ResultId
<1>10. EveryChargeIsRecorded' /\ AnswersTellTheTruth'
  BY <1>3, <1>5, <1>9 DEF IInv, TypeOK, EveryChargeIsRecorded, AnswersTellTheTruth
<1>11. RecordsTellTheTruth'
  BY <1>2, <1>5, <1>9 DEF IInv, RecordsTellTheTruth
<1> QED
  BY <1>3, <1>6, <1>8, <1>10, <1>11 DEF IInv

(* A step of a refund: the gateway gives money back once, and only what    *)
(* it gave back is recorded as such.                                       *)
LEMMA RefundStepInv ==
  ASSUME IInv, NEW r \in Refunds,
         \/ \E p \in Payments, a \in Amounts : RefundPayment(r, p, a)
         \/ RefundStep(r)
         \/ RefundError(r)
  PROVE  IInv'
<1>1. TypeOK /\ RefundSound(r) /\ faults \in 0 .. MaxFaults
  BY DEF IInv, TypeOK
<1>2. ASSUME NEW p \in Payments, NEW a \in Amounts, RefundPayment(r, p, a)
      PROVE  IInv'
  <2>1. UNCHANGED <<money, tables, calls, failures, faults, refund>>
    BY <1>2 DEF RefundPayment
  <2>2. TypeOK'
    BY <1>1, <1>2, <2>1 DEF TypeOK, RefundPayment, money, tables, row, calls
  <2>3. ASSUME NEW q \in Payments PROVE PaymentSound(q)'
    BY <2>1 DEF IInv, PaymentSound, money, tables, row, calls
  <2>4. RefundSound(r)'
    BY <1>1, <1>2, <2>1 DEF IInv, TypeOK, RefundSound, RefundPayment, RecordsTellTheTruth,
       PaymentSound, money, tables, row, calls
  <2>5. ASSUME NEW s \in Refunds, s # r PROVE RefundSound(s)'
    BY <1>1, <1>2, <2>1, <2>5 DEF IInv, TypeOK, RefundSound, RefundPayment, Asked,
       money, tables, row, calls
  <2>6. EveryChargeIsRecorded' /\ RecordsTellTheTruth' /\ AnswersTellTheTruth'
    BY <2>1 DEF IInv, EveryChargeIsRecorded, RecordsTellTheTruth, AnswersTellTheTruth, money, tables, row, calls
  <2> QED
    BY <2>2, <2>3, <2>4, <2>5, <2>6 DEF IInv
<1>3. ASSUME CallRefund(r) PROVE IInv'
  <2> DEFINE p == payment[r]
  <2>1. at[r] = "calling" /\ p \in Payments /\ charged[p]
        /\ pc[p] \in {"completing", "failing", "done"}
    BY <1>1, <1>3 DEF CallRefund, RefundSound
  <2>2. UNCHANGED <<charged, tables, calls, faults>>
    BY <1>3 DEF CallRefund
  <2>3. Asked(r) \in Nat \ {0}
    BY <1>1, AskedPositive
  <2>4. CASE GatewayRefunds(r, p) /\ at' = [at EXCEPT ![r] = "writing"]
             /\ UNCHANGED <<payment, amount>>
    <3> DEFINE now == IF Asked(r) = Amount THEN "refunded" ELSE "partially_refunded"
    <3>1. /\ gateway[p] = "captured" /\ refunded[p] = 0
          /\ gateway' = [gateway EXCEPT ![p] = now]
          /\ refund' = [refund EXCEPT ![r] = now]
          /\ refunded' = [refunded EXCEPT ![p] = refunded[p] + Asked(r)]
          /\ UNCHANGED failures
      BY <2>1, <2>4 DEF GatewayRefunds, IInv, PaymentSound
    <3>2. refunded' = [refunded EXCEPT ![p] = Asked(r)]
      <4>1. refunded[p] + Asked(r) = Asked(r)
        BY <2>3, <3>1
      <4> QED
        BY <3>1, <4>1
    <3>3. TypeOK'
      BY <1>1, <2>1, <2>2, <2>3, <2>4, <3>1, <3>2 DEF TypeOK, tables, row, calls, GatewayStatuses
    <3>4. status[p] \notin {"partially_refunded", "refunded"}
      BY <2>1, <3>1 DEF IInv, PaymentSound
    <3>5. ASSUME NEW q \in Payments PROVE PaymentSound(q)'
      BY <1>1, <2>1, <2>2, <2>3, <3>1, <3>2 DEF IInv, TypeOK, PaymentSound, tables, row, calls
    <3>6. RefundSound(r)'
      BY <1>1, <2>1, <2>2, <2>4, <3>1, <3>2 DEF TypeOK, RefundSound, Asked, calls
    <3>7. ASSUME NEW s \in Refunds, s # r PROVE RefundSound(s)'
      <4>1. RefundSound(s) /\ Asked(s) \in Nat \ {0} /\ Asked(s)' = Asked(s)
        BY <1>1, <2>4, AskedPositive DEF IInv, Asked
      <4>2. at'[s] = at[s] /\ refund'[s] = refund[s] /\ payment'[s] = payment[s]
        BY <1>1, <2>4, <3>1, <3>7 DEF TypeOK
      <4>3. at[s] = "writing" /\ refund[s] # "failed" => payment[s] # p
        BY <4>1, <3>1 DEF RefundSound
      <4> QED
        BY <1>1, <2>2, <3>2, <4>1, <4>2, <4>3 DEF TypeOK, RefundSound, calls
    <3>8. RecordsTellTheTruth'
      BY <1>1, <2>1, <2>2, <3>2, <3>4 DEF IInv, TypeOK, RecordsTellTheTruth, tables, row
    <3>9. EveryChargeIsRecorded' /\ AnswersTellTheTruth'
      BY <2>2 DEF IInv, EveryChargeIsRecorded, AnswersTellTheTruth,
         tables, row, calls
    <3> QED
      BY <3>3, <3>5, <3>6, <3>7, <3>8, <3>9 DEF IInv
  <2>5. CASE GatewayRefundFails(r, p) /\ at' = [at EXCEPT ![r] = "writing"]
             /\ UNCHANGED <<payment, amount>>
    <3>1. /\ refund' = [refund EXCEPT ![r] = "failed"]
          /\ UNCHANGED <<gateway, refunded>>
          /\ UNCHANGED failures \/ CountFailure(p)
      BY <2>5 DEF GatewayRefundFails
    <3>2. TypeOK'
      BY <1>1, <2>2, <2>5, <3>1, CountFailureType DEF TypeOK, tables, row, calls
    <3>3. ASSUME NEW q \in Payments PROVE PaymentSound(q)'
      BY <2>2, <3>1 DEF IInv, PaymentSound, tables, row, calls
    <3>4. ASSUME NEW s \in Refunds PROVE RefundSound(s)'
      BY <1>1, <2>1, <2>2, <2>5, <3>1 DEF IInv, TypeOK, RefundSound, Asked, calls
    <3>5. EveryChargeIsRecorded' /\ RecordsTellTheTruth' /\ AnswersTellTheTruth'
      BY <2>2, <3>1 DEF IInv, EveryChargeIsRecorded, RecordsTellTheTruth, AnswersTellTheTruth, tables, row, calls
    <3> QED
      BY <3>2, <3>3, <3>4, <3>5 DEF IInv
  <2>6. CASE EndRefund(r) /\ UNCHANGED <<gateway, refunded, failures>>
    <3>1. TypeOK'
      BY <1>1, <2>2, <2>6 DEF TypeOK, EndRefund, tables, row, calls
    <3>2. ASSUME NEW q \in Payments PROVE PaymentSound(q)'
      BY <2>2, <2>6 DEF IInv, PaymentSound, tables, row, calls
    <3>3. ASSUME NEW s \in Refunds PROVE RefundSound(s)'
      BY <1>1, <2>2, <2>6 DEF IInv, TypeOK, RefundSound, EndRefund, Asked, calls
    <3>4. EveryChargeIsRecorded' /\ RecordsTellTheTruth' /\ AnswersTellTheTruth'
      BY <2>2, <2>6 DEF IInv, EveryChargeIsRecorded, RecordsTellTheTruth, AnswersTellTheTruth, tables, row, calls
    <3> QED
      BY <3>1, <3>2, <3>3, <3>4 DEF IInv
  <2> QED
    BY <1>3, <2>4, <2>5, <2>6 DEF CallRefund
<1>4. ASSUME RecordRefund(r) PROVE IInv'
  <2> DEFINE p == payment[r]
  <2>1. /\ at[r] = "writing" /\ p \in Payments /\ charged[p]
        /\ pc[p] \in {"completing", "failing", "done"}
        /\ refund[r] \in {"failed", "partially_refunded", "refunded"}
        /\ refund[r] # "failed" => refunded[p] = Asked(r)
        /\ refund[r] = "refunded" => Asked(r) = Amount
    BY <1>1, <1>4 DEF RecordRefund, RefundSound, TypeOK
  <2>2. /\ status' = [status EXCEPT ![p] = refund[r]]
        /\ refundedAmount' = [refundedAmount EXCEPT ![p] = Asked(r)]
        /\ EndRefund(r)
        /\ UNCHANGED <<money, transaction, gatewayId, queue, calls, failures, faults>>
    BY <1>4 DEF RecordRefund
  <2>3. Asked(r) \in Nat \ {0}
    BY <1>1, AskedPositive
  <2>4. TypeOK'
    BY <1>1, <2>1, <2>2, <2>3 DEF TypeOK, EndRefund, money, calls, Statuses
  <2>5. ASSUME NEW q \in Payments PROVE PaymentSound(q)'
    BY <1>1, <2>1, <2>2, <2>3 DEF IInv, TypeOK, PaymentSound, money, calls
  <2>6. ASSUME NEW s \in Refunds PROVE RefundSound(s)'
    BY <1>1, <2>2 DEF IInv, TypeOK, RefundSound, EndRefund, Asked, money, calls
  <2>7. EveryChargeIsRecorded' /\ AnswersTellTheTruth'
    BY <1>1, <2>1, <2>2 DEF IInv, TypeOK, EveryChargeIsRecorded, AnswersTellTheTruth, money, calls
  <2>8. RecordsTellTheTruth'
    BY <1>1, <2>1, <2>2 DEF IInv, TypeOK, RecordsTellTheTruth, money
  <2> QED
    BY <2>4, <2>5, <2>6, <2>7, <2>8 DEF IInv
<1>5. ASSUME RefundError(r) PROVE IInv'
  <2>1. EndRefund(r) /\ UNCHANGED <<money, tables, calls, failures>> /\ faults' \in 0 .. MaxFaults
    BY <1>1, <1>5, PaymentsAssumption DEF RefundError
  <2>2. TypeOK'
    BY <1>1, <2>1 DEF TypeOK, EndRefund, money, tables, row, calls
  <2>3. ASSUME NEW q \in Payments PROVE PaymentSound(q)'
    BY <2>1 DEF IInv, PaymentSound, money, tables, row, calls
  <2>4. ASSUME NEW s \in Refunds PROVE RefundSound(s)'
    BY <1>1, <2>1 DEF IInv, TypeOK, RefundSound, EndRefund, Asked, money, calls
  <2>5. EveryChargeIsRecorded' /\ RecordsTellTheTruth' /\ AnswersTellTheTruth'
    BY <2>1 DEF IInv, EveryChargeIsRecorded, RecordsTellTheTruth, AnswersTellTheTruth, money, tables, row, calls
  <2> QED
    BY <2>2, <2>3, <2>4, <2>5 DEF IInv
<1> QED
  BY <1>2, <1>3, <1>4, <1>5 DEF RefundStep

(* A restart forgets calls and gateway entries, never rows or money.       *)
LEMMA RestartInv == ASSUME IInv, Restart PROVE IInv'
<1>1. TypeOK'
  <2>1. faults' \in 0 .. MaxFaults /\ 0 \in 0 .. Threshold
    BY PaymentsAssumption DEF IInv, TypeOK, Restart
  <2> QED
    BY <2>1 DEF IInv, TypeOK, Restart, tables, row, Places, Outcomes, GatewayStatuses
<1>2. ASSUME NEW p \in Payments PROVE PaymentSound(p)'
  BY DEF IInv, TypeOK, PaymentSound, Restart, tables, row
<1>3. ASSUME NEW r \in Refunds PROVE RefundSound(r)'
  BY DEF RefundSound, Restart
<1>4. EveryChargeIsRecorded' /\ RecordsTellTheTruth' /\ AnswersTellTheTruth'
  BY DEF IInv, EveryChargeIsRecorded, RecordsTellTheTruth, AnswersTellTheTruth, Restart, tables, row
<1> QED
  BY <1>1, <1>2, <1>3, <1>4 DEF IInv

(* Every step keeps the invariant.                                         *)
LEMMA NextInv == IInv /\ [Next]_vars => IInv'
<1>1. ASSUME IInv, Next PROVE IInv'
  BY <1>1, PaymentStepInv, RefundStepInv, RestartInv DEF Next
<1>2. ASSUME IInv, UNCHANGED vars PROVE IInv'
  BY <1>2 DEF IInv, TypeOK, PaymentSound, RefundSound, Asked, EveryChargeIsRecorded,
     RecordsTellTheTruth, AnswersTellTheTruth, vars, money, tables, row,
     calls, refunds
<1> QED
  BY <1>1, <1>2

(* The invariant holds throughout.                                         *)
LEMMA Invariance == Spec => []IInv
BY InitInv, NextInv, PTL DEF Spec

(* The gateway's entries, the tables and the calls in progress keep their  *)
(* types.                                                                  *)
THEOREM TypeCorrect == Spec => []TypeOK
<1>1. IInv => TypeOK
  BY DEF IInv
<1> QED
  BY <1>1, Invariance, PTL

(* No money is taken without a row that names the gateway's payment.       *)
THEOREM ChargesAreRecorded == Spec => []EveryChargeIsRecorded
<1>1. IInv => EveryChargeIsRecorded
  BY DEF IInv
<1> QED
  BY <1>1, Invariance, PTL

(* A row that says CAPTURED or refunded says what the gateway did, however *)
(* many refunds raced to write it.                                         *)
THEOREM RowsTellTheTruth == Spec => []RecordsTellTheTruth
<1>1. IInv => RecordsTellTheTruth
  BY DEF IInv
<1> QED
  BY <1>1, Invariance, PTL

(* Nothing in the failure queue was charged, and success is answered only  *)
(* for what was.                                                           *)
THEOREM AnswersAndQueueAreHonest == Spec => [](AnswersTellTheTruth)
<1>1. IInv => AnswersTellTheTruth
  BY DEF IInv
<1> QED
  BY <1>1, Invariance, PTL

(* A row becomes CAPTURED only from AUTHORIZED.                            *)
THEOREM CapturedOnlyOnce == Spec => NeverRecaptured
<1>1. ASSUME IInv, [Next]_vars, NEW p \in Payments, status'[p] = "captured"
      PROVE  status[p] \in {"authorized", "captured"}
  <2>1. TypeOK
    BY <1>1 DEF IInv
  <2>2. CASE UNCHANGED status
    BY <1>1, <2>2
  <2>3. ASSUME NEW q \in Payments, CreatePaymentRecord(q)
        PROVE  status[p] \in {"authorized", "captured"}
    BY <1>1, <2>1, <2>3 DEF TypeOK, CreatePaymentRecord
  <2>4. ASSUME NEW q \in Payments, UpdatePaymentRecord(q)
        PROVE  status[p] \in {"authorized", "captured"}
    BY <1>1, <2>1, <2>4 DEF IInv, TypeOK, PaymentSound, UpdatePaymentRecord
  <2>5. ASSUME NEW r \in Refunds, RecordRefund(r)
        PROVE  status[p] \in {"authorized", "captured"}
    BY <1>1, <2>1, <2>5 DEF TypeOK, RecordRefund
  <2> QED
    BY <1>1, <2>2, <2>3, <2>4, <2>5 DEF Next, PaymentStep, RefundStep, ProcessPayment,
       RecordTransaction, AuthorizePayment, CapturePayment, CompleteTransaction,
       HandleFailedPayment, FailTransaction, PaymentError, RefundPayment, CallRefund,
       RefundError, Restart, vars, tables, row
<1>2. IInv /\ [Next]_vars =>
        [\A p \in Payments : status'[p] = "captured" => status[p] \in {"authorized", "captured"}]_vars
  BY <1>1
<1> QED
  BY <1>2, Invariance, PTL DEF Spec, NeverRecaptured

(* A payment is refunded at most once, and by no more than it took.        *)
THEOREM RefundsHappenOnce == Spec => RefundedOnce
<1>1. ASSUME IInv, [Next]_vars, NEW p \in Payments, refunded'[p] # refunded[p]
      PROVE  charged[p] /\ refunded[p] = 0 /\ refunded'[p] <= Amount
  <2>1. TypeOK
    BY <1>1 DEF IInv
  <2>2. ~ UNCHANGED refunded
    BY <1>1
  <2>3. PICK r \in Refunds : CallRefund(r)
    BY <1>1, <2>2 DEF Next, PaymentStep, RefundStep, ProcessPayment, RecordTransaction,
       AuthorizePayment, CreatePaymentRecord, CapturePayment, UpdatePaymentRecord,
       CompleteTransaction, HandleFailedPayment, FailTransaction, PaymentError,
       RefundPayment, RecordRefund, RefundError, Restart, vars, money
  <2>4. GatewayRefunds(r, payment[r]) /\ payment[r] \in Payments
    BY <1>1, <2>2, <2>3 DEF CallRefund, GatewayRefundFails, IInv, RefundSound
  <2>5. /\ p = payment[r] /\ gateway[p] = "captured"
        /\ Asked(r) <= Amount /\ refunded'[p] = refunded[p] + Asked(r)
    BY <1>1, <2>1, <2>4 DEF GatewayRefunds, TypeOK
  <2>6. charged[p] /\ refunded[p] = 0
    BY <1>1, <2>5 DEF IInv, PaymentSound
  <2>7. Asked(r) \in Nat
    BY <2>1, AskedPositive
  <2> QED
    BY <2>5, <2>6, <2>7
<1>2. IInv /\ [Next]_vars =>
        [\A p \in Payments :
           refunded'[p] # refunded[p] =>
             charged[p] /\ refunded[p] = 0 /\ refunded'[p] <= Amount]_vars
  BY <1>1
<1> QED
  BY <1>2, Invariance, PTL DEF Spec, RefundedOnce
=============================================================================
