------------------------- MODULE OrderCreation_proofs -------------------------
(***************************************************************************)
(* Theorems about OrderCreation, for any number of requests, transaction   *)
(* ids and retries, any number of faults, and either way of wiring the     *)
(* data sources.                                                           *)
(***************************************************************************)
EXTENDS OrderCreation, TLAPS

USE CreationAssumption DEF Places, rows, locals

-----------------------------------------------------------------------------
(* The inductive invariant.                                                *)

(* An id that may still be inserted belongs to one request and to no order *)
(* yet: generateOrderId's ids never repeat and retries keep them.          *)
FreshIds ==
  /\ \A r \in Requests :
       pc[r] \in {"starting", "inserting"} =>
         id[r] \in OrderIds /\ \A k \in Keys : <<k, id[r]>> \notin orders
  /\ \A r, q \in Requests : r # q /\ id[r] # NoOrder => id[r] # id[q]

(* What an operation returned is the committed order of its key.           *)
ResultsPlaced ==
  \A r \in Requests :
    pc[r] \in {"executed", "completed"} =>
      result[r] \in OrderIds /\ <<key[r], result[r]>> \in orders

IInv == TypeOK /\ FreshIds /\ ResultsPlaced /\ RowNamesTheOrder

(* Before any request, the invariant holds.                                *)
LEMMA InitInv == Init => IInv
<1> SUFFICES ASSUME Init PROVE IInv
  OBVIOUS
<1>1. 0 \in 0 .. MaxRetries /\ 0 \in 0 .. MaxFaults
  OBVIOUS
<1>2. retries \in [Requests -> 0 .. MaxRetries]
  BY <1>1 DEF Init
<1>3. TypeOK
  BY <1>1, <1>2 DEF Init, TypeOK
<1>4. FreshIds /\ ResultsPlaced /\ RowNamesTheOrder
  BY DEF Init, FreshIds, ResultsPlaced, RowNamesTheOrder
<1> QED
  BY <1>3, <1>4 DEF IInv

(* A request that ends leaves a sound state behind, whatever it did to the *)
(* rows, as long as a row names an order that exists.                      *)
LEMMA FinishInv ==
  ASSUME IInv, NEW r \in Requests, Finish(r), UNCHANGED orders,
         row' \in [Keys -> {"absent", "pending", "completed", "failed"}],
         rowOrder' \in [Keys -> OrderIds \cup {NoOrder}],
         answered' \subseteq Keys \X OrderIds,
         faults' \in 0 .. MaxFaults,
         RowNamesTheOrder'
  PROVE  IInv'
<1>1. /\ pc' = [pc EXCEPT ![r] = "idle"]
      /\ id' = [id EXCEPT ![r] = NoOrder]
      /\ result' = [result EXCEPT ![r] = NoOrder]
      /\ retries' = [retries EXCEPT ![r] = 0]
      /\ key' = key
  BY DEF Finish, Goto
<1>2. TypeOK'
  BY <1>1 DEF IInv, TypeOK
<1>3. FreshIds' /\ ResultsPlaced'
  BY <1>1 DEF IInv, TypeOK, FreshIds, ResultsPlaced
<1> QED
  BY <1>2, <1>3 DEF IInv

(* A request that moves on without touching orders or rows, keeping its    *)
(* id, keeps the invariant, if it did not enter a place that promises      *)
(* more than the place it came from.                                       *)
LEMMA GotoInv ==
  ASSUME IInv, NEW r \in Requests, NEW place \in Places, Goto(r, place),
         UNCHANGED <<rows, orders, id, result, answered>>,
         key' \in [Requests -> Keys], retries' \in [Requests -> 0 .. MaxRetries],
         faults' \in 0 .. MaxFaults,
         \A q \in Requests : q # r => key'[q] = key[q],
         place \notin {"executed", "completed"},
         place \in {"starting", "inserting"} => pc[r] \in {"starting", "inserting"}
  PROVE  IInv'
<1>1. pc' = [pc EXCEPT ![r] = place]
  BY DEF Goto
<1>2. TypeOK'
  BY <1>1 DEF IInv, TypeOK
<1>3. FreshIds' /\ ResultsPlaced' /\ RowNamesTheOrder'
  BY <1>1 DEF IInv, TypeOK, FreshIds, ResultsPlaced, RowNamesTheOrder
<1> QED
  BY <1>2, <1>3 DEF IInv

(* Every step keeps the invariant.                                         *)
LEMMA NextInv == IInv /\ [Next]_vars => IInv'
<1> SUFFICES ASSUME IInv, [Next]_vars
             PROVE  IInv'
  OBVIOUS
<1>1. TypeOK
  BY DEF IInv
<1>2. ASSUME NEW r \in Requests, NEW k \in Keys, CreateOrder(r, k)
      PROVE  IInv'
  <2>1. Goto(r, "checking")
    BY <1>2 DEF CreateOrder
  <2>2. /\ key' \in [Requests -> Keys] /\ \A q \in Requests : q # r => key'[q] = key[q]
        /\ key'[r] \in Keys
    BY <1>1, <1>2 DEF CreateOrder, TypeOK
  <2> QED
    BY <1>1, <1>2, <2>1, <2>2, GotoInv DEF CreateOrder, TypeOK
<1>3. ASSUME NEW r \in Requests, CheckTransactionExists(r)
      PROVE  IInv'
  <2>1. CASE row[key[r]] = "completed"
    <3>1. /\ rowOrder[key[r]] \in OrderIds /\ key[r] \in Keys
          /\ Finish(r)
          /\ answered' = answered \cup {<<key[r], rowOrder[key[r]]>>}
      BY <1>1, <1>3, <2>1 DEF CheckTransactionExists, Succeed, TypeOK
    <3>2. RowNamesTheOrder'
      BY <1>3 DEF CheckTransactionExists, IInv, RowNamesTheOrder
    <3>3. answered' \subseteq Keys \X OrderIds
      BY <1>1, <3>1 DEF TypeOK
    <3> QED
      BY <1>1, <1>3, <3>1, <3>2, <3>3, FinishInv DEF CheckTransactionExists, TypeOK
  <2>2. CASE row[key[r]] # "completed"
    <3>1. PICK place \in {"recording", "counting", "ready"} : Goto(r, place)
      BY <1>3, <2>2 DEF CheckTransactionExists
    <3> QED
      BY <1>1, <1>3, <2>2, <3>1, GotoInv DEF CheckTransactionExists, TypeOK
  <2> QED
    BY <2>1, <2>2
<1>4. ASSUME NEW r \in Requests, RecordTransaction(r)
      PROVE  IInv'
  <2>1. CASE Finish(r) /\ UNCHANGED row
    <3>1. RowNamesTheOrder'
      BY <1>4, <2>1 DEF RecordTransaction, IInv, RowNamesTheOrder
    <3> QED
      BY <1>1, <1>4, <2>1, <3>1, FinishInv DEF RecordTransaction, TypeOK
  <2>2. CASE /\ row' = [row EXCEPT ![key[r]] = "pending"]
             /\ Goto(r, "ready") /\ UNCHANGED locals
    <3>1. pc' = [pc EXCEPT ![r] = "ready"]
      BY <2>2 DEF Goto
    <3>2. TypeOK'
      BY <1>1, <1>4, <2>2, <3>1 DEF RecordTransaction, TypeOK
    <3>3. RowNamesTheOrder'
      BY <1>1, <1>4, <2>2 DEF RecordTransaction, IInv, RowNamesTheOrder, TypeOK
    <3>4. FreshIds' /\ ResultsPlaced'
      BY <1>1, <1>4, <2>2, <3>1 DEF RecordTransaction, IInv, FreshIds, ResultsPlaced, TypeOK
    <3> QED
      BY <3>2, <3>3, <3>4 DEF IInv
  <2> QED
    BY <1>4, <2>1, <2>2 DEF RecordTransaction
<1>5. ASSUME NEW r \in Requests, IncrementAttempt(r)
      PROVE  IInv'
  BY <1>1, <1>5, GotoInv DEF IncrementAttempt, TypeOK
<1>6. ASSUME NEW r \in Requests, NEW i \in OrderIds, GenerateOrderId(r, i)
      PROVE  IInv'
  <2>1. pc' = [pc EXCEPT ![r] = "starting"] /\ id' = [id EXCEPT ![r] = i]
    BY <1>6 DEF GenerateOrderId, Goto
  <2>2. TypeOK'
    BY <1>1, <1>6, <2>1 DEF GenerateOrderId, TypeOK
  <2>3. ResultsPlaced' /\ RowNamesTheOrder'
    BY <1>1, <1>6, <2>1 DEF GenerateOrderId, IInv, ResultsPlaced, RowNamesTheOrder, TypeOK
  <2>4. FreshIds'
    BY <1>1, <1>6, <2>1 DEF GenerateOrderId, IInv, FreshIds, TypeOK
  <2> QED
    BY <2>2, <2>3, <2>4 DEF IInv
<1>7. ASSUME NEW r \in Requests, CheckTransactionIdempotency(r)
      PROVE  IInv'
  <2>1. CASE Goto(r, "inserting") /\ UNCHANGED result
    BY <1>1, <1>7, <2>1, GotoInv DEF CheckTransactionIdempotency, TypeOK
  <2>2. ASSUME NEW i \in OrderIds, <<key[r], i>> \in orders,
               result' = [result EXCEPT ![r] = i], Goto(r, "executed")
        PROVE  IInv'
    <3>1. pc' = [pc EXCEPT ![r] = "executed"]
      BY <2>2 DEF Goto
    <3>2. TypeOK'
      BY <1>1, <1>7, <2>2, <3>1 DEF CheckTransactionIdempotency, TypeOK
    <3>3. FreshIds' /\ ResultsPlaced' /\ RowNamesTheOrder'
      BY <1>1, <1>7, <2>2, <3>1
      DEF CheckTransactionIdempotency, IInv, FreshIds, ResultsPlaced, RowNamesTheOrder, TypeOK
    <3> QED
      BY <3>2, <3>3 DEF IInv
  <2> QED
    BY <1>7, <2>1, <2>2 DEF CheckTransactionIdempotency
<1>8. ASSUME NEW r \in Requests, InsertOrder(r)
      PROVE  IInv'
  <2>1. CASE ReadBackSeesInsert
    <3>1. /\ pc' = [pc EXCEPT ![r] = "executed"]
          /\ orders' = orders \cup {<<key[r], id[r]>>}
          /\ result' = [result EXCEPT ![r] = id[r]]
          /\ UNCHANGED <<rows, key, id, retries, answered, faults>>
          /\ pc[r] = "inserting"
      BY <1>8, <2>1 DEF InsertOrder, Goto
    <3>2. id[r] \in OrderIds /\ key[r] \in Keys
      BY <1>1, <3>1 DEF IInv, FreshIds, TypeOK
    <3>3. TypeOK'
      BY <1>1, <3>1, <3>2 DEF TypeOK
    <3>4. ResultsPlaced' /\ RowNamesTheOrder'
      BY <1>1, <3>1, <3>2 DEF IInv, ResultsPlaced, RowNamesTheOrder, TypeOK
    <3>5. FreshIds'
      BY <1>1, <3>1, <3>2 DEF IInv, FreshIds, TypeOK
    <3> QED
      BY <3>3, <3>4, <3>5 DEF IInv
  <2>2. CASE ~ ReadBackSeesInsert
    <3>1. Goto(r, "failing") /\ UNCHANGED <<orders, result>>
      BY <1>8, <2>2 DEF InsertOrder
    <3> QED
      BY <1>1, <1>8, <3>1, GotoInv DEF InsertOrder, TypeOK
  <2> QED
    BY <2>1, <2>2
<1>9. ASSUME NEW r \in Requests, InsertConflict(r)
      PROVE  IInv'
  <2>1. CASE /\ retries[r] < MaxRetries
             /\ retries' = [retries EXCEPT ![r] = @ + 1]
             /\ Goto(r, "starting")
    <3>1. retries[r] + 1 \in 0 .. MaxRetries
      BY <1>1, <2>1 DEF TypeOK
    <3>2. retries' \in [Requests -> 0 .. MaxRetries]
      BY <1>1, <2>1, <3>1 DEF TypeOK
    <3> QED
      BY <1>1, <1>9, <2>1, <3>2, GotoInv DEF InsertConflict, TypeOK
  <2>2. CASE Goto(r, "failing") /\ UNCHANGED retries
    BY <1>1, <1>9, <2>2, GotoInv DEF InsertConflict, TypeOK
  <2> QED
    BY <1>9, <2>1, <2>2 DEF InsertConflict
<1>10. ASSUME NEW r \in Requests, CompleteTransaction(r)
       PROVE  IInv'
  <2>1. /\ result[r] \in OrderIds /\ <<key[r], result[r]>> \in orders
        /\ key[r] \in Keys
    BY <1>1, <1>10 DEF CompleteTransaction, IInv, ResultsPlaced, TypeOK
  <2>2. /\ row' = [row EXCEPT ![key[r]] = "completed"]
        /\ rowOrder' = [rowOrder EXCEPT ![key[r]] = result[r]]
        /\ pc[r] = "executed" /\ pc' = [pc EXCEPT ![r] = "completed"]
        /\ UNCHANGED <<orders, key, id, result, retries, answered, faults>>
    BY <1>10 DEF CompleteTransaction, Goto
  <2>3. RowNamesTheOrder'
    BY <1>1, <2>1, <2>2 DEF IInv, RowNamesTheOrder, TypeOK
  <2>4. TypeOK'
    BY <1>1, <2>1, <2>2 DEF TypeOK
  <2>5. FreshIds' /\ ResultsPlaced'
    BY <1>1, <2>1, <2>2 DEF IInv, FreshIds, ResultsPlaced, TypeOK
  <2> QED
    BY <2>3, <2>4, <2>5 DEF IInv
<1>11. ASSUME NEW r \in Requests, FailTransaction(r)
       PROVE  IInv'
  <2>1. /\ row' = [row EXCEPT ![key[r]] = "failed"]
        /\ pc[r] = "failing" /\ pc' = [pc EXCEPT ![r] = "failed"]
        /\ UNCHANGED <<rowOrder, orders, key, id, result, retries, answered, faults>>
    BY <1>11 DEF FailTransaction, Goto
  <2>2. RowNamesTheOrder'
    BY <1>1, <2>1 DEF IInv, RowNamesTheOrder, TypeOK
  <2>3. TypeOK'
    BY <1>1, <2>1 DEF TypeOK
  <2>4. FreshIds' /\ ResultsPlaced'
    BY <1>1, <2>1 DEF IInv, FreshIds, ResultsPlaced, TypeOK
  <2> QED
    BY <2>2, <2>3, <2>4 DEF IInv
<1>14. ASSUME NEW r \in Requests, ReadRowBack(r)
       PROVE  IInv'
  <2>1. UNCHANGED <<rows, orders, faults>> /\ RowNamesTheOrder'
    BY <1>14 DEF ReadRowBack, IInv, RowNamesTheOrder
  <2>2. CASE pc[r] = "completed"
    <3>1. Finish(r) /\ answered' = answered \cup {<<key[r], result[r]>>}
      BY <1>14, <2>2 DEF ReadRowBack, Succeed
    <3>2. answered' \subseteq Keys \X OrderIds
      BY <1>1, <2>2, <3>1 DEF IInv, ResultsPlaced, TypeOK
    <3> QED
      BY <1>1, <2>1, <3>1, <3>2, FinishInv DEF TypeOK
  <2>3. CASE pc[r] = "failed"
    BY <1>1, <1>14, <2>1, <2>3, FinishInv DEF ReadRowBack, TypeOK
  <2>4. CASE pc[r] \notin {"completed", "failed"}
    BY <1>1, <1>14, <2>1, <2>4, GotoInv DEF ReadRowBack, TypeOK
  <2> QED
    BY <2>2, <2>3, <2>4
<1>12. ASSUME NEW r \in Requests, DatabaseError(r) \/ Crash(r)
       PROVE  IInv'
  <2>1. /\ faults' \in 0 .. MaxFaults
        /\ UNCHANGED <<rows, orders, answered>>
    BY <1>1, <1>12 DEF DatabaseError, Crash, TypeOK
  <2>2. RowNamesTheOrder'
    BY <2>1 DEF IInv, RowNamesTheOrder
  <2>3. CASE Finish(r)
    BY <1>1, <2>1, <2>2, <2>3, FinishInv DEF TypeOK
  <2>4. CASE Goto(r, "failing") /\ UNCHANGED locals
    BY <1>1, <2>1, <2>4, GotoInv DEF TypeOK
  <2> QED
    BY <1>12, <2>3, <2>4 DEF DatabaseError, Crash
<1>13. CASE UNCHANGED vars
  BY <1>13 DEF vars, IInv, TypeOK, FreshIds, ResultsPlaced, RowNamesTheOrder
<1> QED
  BY <1>2, <1>3, <1>4, <1>5, <1>6, <1>7, <1>8, <1>9, <1>10, <1>11, <1>12, <1>13,
     <1>14
  DEF Next, Step

(* The invariant holds throughout.                                         *)
LEMMA Invariance == Spec => []IInv
<1> QED
  BY InitInv, NextInv, PTL DEF Spec

(* Rows, orders and requests keep their types.                             *)
THEOREM TypeCorrect == Spec => []TypeOK
<1> QED
  BY Invariance, PTL DEF IInv

(* The order a row names exists, whichever of completeTransaction,         *)
(* failTransaction and recordTransaction wrote the row last.               *)
THEOREM RowsNameOrders == Spec => []RowNamesTheOrder
<1> QED
  BY Invariance, PTL DEF IInv

(* No order exists and no client was told of one.                          *)
NothingPlaced == orders = {} /\ answered = {}

(* With the two data sources as the modules wire them up, the read-back    *)
(* before the commit finds nothing: no request, repetition or interleaving *)
(* ever places an order, so what the other theorems say is said of a       *)
(* deployment in which the read-back works.                                *)
THEOREM NothingWithoutReadBack ==
  ASSUME ~ ReadBackSeesInsert
  PROVE  Spec => []NothingPlaced
<1>1. Init => NothingPlaced
  BY DEF Init, NothingPlaced
<1>2. IInv /\ NothingPlaced /\ [Next]_vars => NothingPlaced'
  <2> SUFFICES ASSUME IInv, NothingPlaced, [Next]_vars
               PROVE  NothingPlaced'
    OBVIOUS
  <2> USE DEF NothingPlaced
  <2>1. ASSUME NEW r \in Requests, InsertOrder(r)
        PROVE  NothingPlaced'
    BY <2>1 DEF InsertOrder
  <2>2. ASSUME NEW r \in Requests, CheckTransactionExists(r)
        PROVE  NothingPlaced'
    <3>1. rowOrder[key[r]] = NoOrder
      BY DEF IInv, TypeOK, RowNamesTheOrder
    <3> QED
      BY <2>2, <3>1 DEF CheckTransactionExists
  <2>3. ASSUME NEW r \in Requests, ReadRowBack(r)
        PROVE  NothingPlaced'
    BY <2>3 DEF ReadRowBack, IInv, ResultsPlaced
  <2>4. ASSUME NEW r \in Requests,
               \/ \E k \in Keys : CreateOrder(r, k)
               \/ RecordTransaction(r) \/ IncrementAttempt(r)
               \/ \E i \in OrderIds : GenerateOrderId(r, i)
               \/ CheckTransactionIdempotency(r)
               \/ InsertConflict(r) \/ CompleteTransaction(r) \/ FailTransaction(r)
               \/ DatabaseError(r) \/ Crash(r)
        PROVE  NothingPlaced'
    BY <2>4 DEF CreateOrder, RecordTransaction, IncrementAttempt, GenerateOrderId,
                CheckTransactionIdempotency, InsertConflict, CompleteTransaction,
                FailTransaction, DatabaseError, Crash
  <2>5. CASE UNCHANGED vars
    BY <2>5 DEF vars
  <2> QED
    BY <2>1, <2>2, <2>3, <2>4, <2>5 DEF Next, Step
<1> QED
  BY <1>1, <1>2, Invariance, PTL DEF Spec

-----------------------------------------------------------------------------
(* Refinement.                                                             *)

(* The insertion is the contract's Place; a replay, and the return of the  *)
(* order once its row is completed, are its Answer; every other step       *)
(* changes neither orders nor answers.                                     *)
THEOREM CreationImplementsContract == Spec => ImplementsContract
<1>1. Init => Contract!ContractInit
  BY DEF Init, Contract!ContractInit
<1>2. IInv /\ [Next]_vars => [Contract!ContractNext]_<<orders, answered>>
  <2> SUFFICES ASSUME IInv, [Next]_vars, ~ UNCHANGED <<orders, answered>>
               PROVE  Contract!ContractNext
    OBVIOUS
  <2>1. PICK r \in Requests :
          CheckTransactionExists(r) \/ InsertOrder(r) \/ ReadRowBack(r)
    BY DEF Next, Step, vars, CreateOrder, RecordTransaction, IncrementAttempt,
           GenerateOrderId, CheckTransactionIdempotency, InsertConflict,
           CompleteTransaction, FailTransaction, DatabaseError, Crash
  <2>2. key[r] \in Keys
    BY DEF IInv, TypeOK
  <2>3. CASE CheckTransactionExists(r)
    <3>1. /\ answered' = answered \cup {<<key[r], rowOrder[key[r]]>>}
          /\ rowOrder[key[r]] # NoOrder
          /\ UNCHANGED orders
      BY <2>3 DEF CheckTransactionExists, Succeed
    <3>2. rowOrder[key[r]] \in OrderIds /\ <<key[r], rowOrder[key[r]]>> \in orders
      BY <2>2, <3>1 DEF IInv, TypeOK, RowNamesTheOrder
    <3>3. Contract!Answer(key[r], rowOrder[key[r]])
      BY <3>1, <3>2 DEF Contract!Answer
    <3> QED
      BY <2>2, <3>2, <3>3 DEF Contract!ContractNext
  <2>4. CASE InsertOrder(r)
    <3>1. /\ orders' = orders \cup {<<key[r], id[r]>>}
          /\ ~ Placed(key[r]) /\ pc[r] = "inserting"
          /\ UNCHANGED answered
      BY <2>4 DEF InsertOrder
    <3>2. id[r] \in OrderIds /\ \A k \in Keys : <<k, id[r]>> \notin orders
      BY <3>1 DEF IInv, FreshIds
    <3>3. Contract!Place(key[r], id[r])
      BY <3>1, <3>2 DEF Contract!Place, Placed
    <3> QED
      BY <2>2, <3>2, <3>3 DEF Contract!ContractNext
  <2>5. CASE ReadRowBack(r)
    <3>1. /\ answered' = answered \cup {<<key[r], result[r]>>}
          /\ pc[r] = "completed" /\ UNCHANGED orders
      BY <2>5 DEF ReadRowBack, Succeed
    <3>2. result[r] \in OrderIds /\ <<key[r], result[r]>> \in orders
      BY <3>1 DEF IInv, ResultsPlaced
    <3>3. Contract!Answer(key[r], result[r])
      BY <3>1, <3>2 DEF Contract!Answer
    <3> QED
      BY <2>2, <3>2, <3>3 DEF Contract!ContractNext
  <2> QED
    BY <2>1, <2>3, <2>4, <2>5
<1> QED
  BY <1>1, <1>2, Invariance, PTL
  DEF Spec, ImplementsContract, Contract!ContractSpec, Contract!contractVars

-----------------------------------------------------------------------------
(* What the contract is worth.                                             *)

(* Orders are one to one with the transaction ids that have one, and       *)
(* answers are drawn from them.                                            *)
OneToOne ==
  /\ orders \subseteq Keys \X OrderIds
  /\ answered \subseteq orders
  /\ \A k, l \in Keys, i, j \in OrderIds :
       <<k, i>> \in orders /\ <<l, j>> \in orders => (k = l <=> i = j)

(* The contract gives what it is for: one transaction id, one answer.      *)
LEMMA ContractGivesOneAnswer == Contract!ContractSpec => []Contract!OneAnswer
<1>1. Contract!ContractInit => OneToOne
  BY DEF Contract!ContractInit, OneToOne
<1>2. OneToOne /\ [Contract!ContractNext]_<<orders, answered>> => OneToOne'
  <2> SUFFICES ASSUME OneToOne, [Contract!ContractNext]_<<orders, answered>>
               PROVE  OneToOne'
    OBVIOUS
  <2>1. ASSUME NEW k \in Keys, NEW i \in OrderIds, Contract!Place(k, i)
        PROVE  OneToOne'
    BY <2>1 DEF Contract!Place, OneToOne
  <2>2. ASSUME NEW k \in Keys, NEW i \in OrderIds, Contract!Answer(k, i)
        PROVE  OneToOne'
    BY <2>2 DEF Contract!Answer, OneToOne
  <2>3. CASE UNCHANGED <<orders, answered>>
    BY <2>3 DEF OneToOne
  <2> QED
    BY <2>1, <2>2, <2>3 DEF Contract!ContractNext
<1>3. OneToOne => Contract!OneAnswer
  <2> SUFFICES ASSUME OneToOne, NEW a \in answered, NEW b \in answered
               PROVE  a[1] = b[1] <=> a[2] = b[2]
    BY DEF Contract!OneAnswer
  <2>1. PICK k \in Keys, i \in OrderIds : a = <<k, i>>
    BY DEF OneToOne
  <2>2. PICK l \in Keys, j \in OrderIds : b = <<l, j>>
    BY DEF OneToOne
  <2> QED
    BY <2>1, <2>2 DEF OneToOne
<1> QED
  BY <1>1, <1>2, <1>3, PTL DEF Contract!ContractSpec, Contract!contractVars

(* However requests repeat, race, fail and crash, no client is told of two *)
(* orders under one transaction id.                                        *)
THEOREM OneOrderPerTransaction == Spec => []Contract!OneAnswer
<1> QED
  BY CreationImplementsContract, ContractGivesOneAnswer, PTL DEF ImplementsContract
=============================================================================
