------------------------ MODULE OrderLifecycle_proofs ------------------------
(***************************************************************************)
(* Theorems about OrderLifecycle, for any number of callers, any retry     *)
(* limit and histories of any length.                                      *)
(***************************************************************************)
EXTENDS OrderLifecycle, TLAPS

USE LifecycleAssumption DEF Places, locals

(* The two statuses the code writes of its own accord are statuses.        *)
LEMMA TransitionsTyped == "CREATED" \in Statuses /\ "CONFIRMED" \in Statuses
  BY DEF Statuses

-----------------------------------------------------------------------------
(* Type correctness.                                                       *)

(* The order as it is created is well typed.                               *)
LEMMA InitType == Init => TypeOK
<1>1. 0 \in 0 .. MaxRetries /\ 0 \in Nat
  OBVIOUS
<1>2. <<"CREATED">> \in Seq(Statuses)
  BY TransitionsTyped
<1>3. ASSUME Init
      PROVE  /\ snapshot \in [Callers -> Nat]
             /\ retries \in [Callers -> 0 .. MaxRetries]
             /\ writes \in [Callers -> Nat]
  BY <1>1, <1>3 DEF Init
<1>4. ASSUME Init
      PROVE  /\ target \in [Callers -> Statuses]
             /\ seen \in [Callers -> Statuses]
  BY <1>4, TransitionsTyped DEF Init
<1>5. ASSUME Init
      PROVE  /\ pc \in [Callers -> Places]
             /\ outcome \in [Callers -> {"none", "ok", "rejected", "error"}]
             /\ status \in Statuses /\ processed \in BOOLEAN
  BY <1>5, TransitionsTyped DEF Init
<1>6. Init => history \in Seq(Statuses)
  BY <1>2 DEF Init
<1> QED
  BY <1>3, <1>4, <1>5, <1>6 DEF TypeOK

(* Every step of every caller keeps the types.                             *)
LEMMA NextType == TypeOK /\ [Next]_vars => TypeOK'
<1> SUFFICES ASSUME TypeOK, [Next]_vars
             PROVE  TypeOK'
  OBVIOUS
<1> USE TransitionsTyped
<1>1. ASSUME NEW u \in Callers, NEW s \in Statuses, UpdateOrderStatus(u, s),
             processed' \in BOOLEAN
      PROVE  TypeOK'
  BY <1>1 DEF UpdateOrderStatus, Goto, TypeOK
<1>2. ASSUME NEW u \in Callers, NEW how \in {"ok", "rejected", "error"},
             End(u, how), UNCHANGED <<status, history, writes, processed>>
      PROVE  TypeOK'
  BY <1>2 DEF End, Goto, TypeOK
<1>3. ASSUME NEW u \in Callers, ValidateStatusTransition(u)
      PROVE  TypeOK'
  <2>1. CASE target[u] \in ValidTransitions[status]
    BY <1>3, <2>1 DEF ValidateStatusTransition, Goto, TypeOK
  <2>2. CASE target[u] \notin ValidTransitions[status]
    BY <1>2, <1>3, <2>2 DEF ValidateStatusTransition
  <2> QED
    BY <2>1, <2>2
<1>4. ASSUME NEW u \in Callers, BeginTransaction(u)
      PROVE  TypeOK'
  BY <1>4 DEF BeginTransaction, Goto, TypeOK
<1>5. ASSUME NEW u \in Callers, CommitTransaction(u)
      PROVE  TypeOK'
  BY <1>5 DEF CommitTransaction, WriteStatus, Goto, TypeOK
<1>6. ASSUME NEW u \in Callers, SerializationFailure(u)
      PROVE  TypeOK'
  <2>1. CASE retries[u] < MaxRetries
    <3>1. retries' = [retries EXCEPT ![u] = retries[u] + 1]
      BY <1>6, <2>1 DEF SerializationFailure, Retry, TypeOK
    <3>2. retries[u] + 1 \in 0 .. MaxRetries
      BY <2>1 DEF TypeOK
    <3>3. retries' \in [Callers -> 0 .. MaxRetries]
      BY <3>1, <3>2 DEF TypeOK
    <3>4. Goto(u, "validated") /\ UNCHANGED <<target, seen, snapshot, outcome>>
      BY <1>6, <2>1 DEF SerializationFailure, Retry, TypeOK
    <3> QED
      BY <1>6, <3>3, <3>4 DEF SerializationFailure, Goto, TypeOK
  <2>2. CASE retries[u] >= MaxRetries
    <3>1. End(u, "error")
      BY <1>6, <2>2 DEF SerializationFailure, Retry, TypeOK
    <3> QED
      BY <1>2, <1>6, <3>1 DEF SerializationFailure
  <2> QED
    BY <2>1, <2>2 DEF TypeOK
<1>7. ASSUME NEW u \in Callers, Complete(u) \/ Break(u)
      PROVE  TypeOK'
  BY <1>2, <1>7 DEF Complete, Break
<1>8. CASE UNCHANGED vars
  BY <1>8 DEF vars, TypeOK
<1> QED
  BY <1>1, <1>3, <1>4, <1>5, <1>6, <1>7, <1>8
  DEF Next, Request, ProcessNewOrder, Step, Callers, TypeOK

(* The order, its history and every caller's frame keep their types.       *)
THEOREM TypeCorrect == Spec => []TypeOK
<1> QED
  BY InitType, NextType, PTL DEF Spec

-----------------------------------------------------------------------------
(* The history.                                                            *)

(* What a step may do to the order: nothing, or the two writes of a        *)
(* transaction that follows a validated transition.                        *)
LEMMA OnlyCommitsWrite ==
  ASSUME [Next]_vars
  PROVE  \/ UNCHANGED <<status, history>>
         \/ \E u \in Callers : CommitTransaction(u)
  BY DEF Next, vars, Request, ProcessNewOrder, UpdateOrderStatus, Step,
         ValidateStatusTransition, BeginTransaction, SerializationFailure,
         Complete, Break

(* The history is never empty and ends with the order's status.            *)
HistoryInv ==
  /\ Len(history) > 0
  /\ HistoryIsCurrent

(* The status and its history row are written by one transaction, so the   *)
(* latest row is always the status, whoever wrote it.                      *)
THEOREM HistoryStaysCurrent == Spec => []HistoryIsCurrent
<1>1. Init => HistoryInv
  BY DEF Init, HistoryInv, HistoryIsCurrent
<1>2. TypeOK /\ HistoryInv /\ [Next]_vars => HistoryInv'
  <2> SUFFICES ASSUME TypeOK, HistoryInv, [Next]_vars
               PROVE  HistoryInv'
    OBVIOUS
  <2>1. CASE UNCHANGED <<status, history>>
    BY <2>1 DEF HistoryInv, HistoryIsCurrent
  <2>2. ASSUME NEW u \in Callers, CommitTransaction(u)
        PROVE  HistoryInv'
    BY <2>2 DEF CommitTransaction, WriteStatus, HistoryInv, HistoryIsCurrent, TypeOK
  <2> QED
    BY <2>1, <2>2, OnlyCommitsWrite
<1> QED
  BY <1>1, <1>2, TypeCorrect, PTL DEF Spec, HistoryInv

-----------------------------------------------------------------------------
(* Every status is earned.                                                 *)

(* A caller past its validation holds a status that was current once, and  *)
(* asks for one of its successors.  The order may have moved on since.     *)
Validated(u) ==
  pc[u] \in {"validated", "inTransaction"} =>
    /\ target[u] \in ValidTransitions[seen[u]]
    /\ \E j \in 1 .. Len(history) : history[j] = seen[u]

EarnedInv ==
  /\ HistoryInv
  /\ \A u \in Callers : Validated(u)
  /\ EveryStatusEarned

(* What was recorded once stays recorded.                                  *)
LEMMA HistoryOnlyGrows ==
  ASSUME TypeOK, [Next]_vars
  PROVE  /\ Len(history') >= Len(history)
         /\ \A j \in 1 .. Len(history) : history'[j] = history[j]
<1>1. CASE UNCHANGED <<status, history>>
  BY <1>1 DEF TypeOK
<1>2. ASSUME NEW u \in Callers, CommitTransaction(u)
      PROVE  /\ Len(history') >= Len(history)
             /\ \A j \in 1 .. Len(history) : history'[j] = history[j]
  BY <1>2 DEF CommitTransaction, WriteStatus, TypeOK
<1> QED
  BY <1>1, <1>2, OnlyCommitsWrite

(* Validation is never undone, by the caller's own retries or by others.   *)
LEMMA ValidatedStays ==
  ASSUME TypeOK, EarnedInv, [Next]_vars, NEW v \in Callers
  PROVE  Validated(v)'
<1>0. ASSUME NEW j \in 1 .. Len(history)
      PROVE  j \in 1 .. Len(history') /\ history'[j] = history[j]
  <2>1. Len(history) \in Nat /\ Len(history') \in Nat
    BY NextType DEF TypeOK
  <2> QED
    BY <2>1, HistoryOnlyGrows
<1>1. CASE UNCHANGED <<pc[v], target[v], seen[v]>>
  BY <1>0, <1>1 DEF EarnedInv, Validated
<1>2. CASE pc'[v] \notin {"validated", "inTransaction"}
  BY <1>2 DEF Validated
<1>3. CASE pc[v] \in {"validated", "inTransaction"} /\ UNCHANGED <<target[v], seen[v]>>
  BY <1>0, <1>3 DEF EarnedInv, Validated
<1>4. CASE ValidateStatusTransition(v) /\ target[v] \in ValidTransitions[status]
  <2>1. UNCHANGED <<target, history>> /\ seen'[v] = status
    BY <1>4 DEF ValidateStatusTransition, TypeOK
  <2>2. history[Len(history)] = status /\ Len(history) \in 1 .. Len(history)
    BY DEF EarnedInv, HistoryInv, HistoryIsCurrent, TypeOK
  <2> QED
    BY <1>4, <2>1, <2>2 DEF Validated
<1>5. ASSUME NEW u \in Callers, Step(u)
      PROVE  \/ UNCHANGED <<pc[v], target[v], seen[v]>>
             \/ pc'[v] \notin {"validated", "inTransaction"}
             \/ pc[v] \in {"validated", "inTransaction"} /\ UNCHANGED <<target[v], seen[v]>>
             \/ ValidateStatusTransition(v) /\ target[v] \in ValidTransitions[status]
  BY <1>5 DEF Step, ValidateStatusTransition, BeginTransaction, CommitTransaction,
              SerializationFailure, Retry, Complete, Break, End, Goto, TypeOK
<1>6. ASSUME NEW u \in Callers, NEW s \in Statuses, UpdateOrderStatus(u, s)
      PROVE  \/ UNCHANGED <<pc[v], target[v], seen[v]>>
             \/ pc'[v] \notin {"validated", "inTransaction"}
  BY <1>6 DEF UpdateOrderStatus, Goto, TypeOK
<1>7. CASE UNCHANGED vars
  BY <1>1, <1>7 DEF vars
<1> QED
  BY <1>1, <1>2, <1>3, <1>4, <1>5, <1>6, <1>7, TransitionsTyped
  DEF Next, Request, ProcessNewOrder, Callers

(* However stale the status a caller validated against, it was the order's *)
(* status once; so no recorded status lacks a legal predecessor.           *)
THEOREM StatusesAreEarned == Spec => []EveryStatusEarned
<1>1. Init => EarnedInv
  BY DEF Init, EarnedInv, HistoryInv, HistoryIsCurrent, Validated, EveryStatusEarned
<1>2. TypeOK /\ EarnedInv /\ [Next]_vars => EarnedInv'
  <2> SUFFICES ASSUME TypeOK, EarnedInv, [Next]_vars
               PROVE  EarnedInv'
    OBVIOUS
  <2>1. \A u \in Callers : Validated(u)'
    BY ValidatedStays
  <2>2. CASE UNCHANGED <<status, history>>
    BY <2>1, <2>2 DEF EarnedInv, HistoryInv, HistoryIsCurrent, EveryStatusEarned
  <2>3. ASSUME NEW u \in Callers, CommitTransaction(u)
        PROVE  EarnedInv'
    <3>1. /\ history' = Append(history, target[u])
          /\ status' = target[u]
          /\ history \in Seq(Statuses) /\ target[u] \in Statuses
      BY <2>3 DEF CommitTransaction, WriteStatus, TypeOK
    <3>2. HistoryInv'
      BY <3>1 DEF HistoryInv, HistoryIsCurrent
    <3>3. PICK j \in 1 .. Len(history) : target[u] \in ValidTransitions[history[j]]
      BY <2>3 DEF EarnedInv, Validated, CommitTransaction
    <3>4. /\ Len(history') = Len(history) + 1
          /\ history'[Len(history) + 1] = target[u]
          /\ \A i \in 1 .. Len(history) : history'[i] = history[i]
      BY <3>1
    <3>5. ASSUME NEW i \in 2 .. Len(history')
          PROVE  \E k \in 1 .. (i - 1) : history'[i] \in ValidTransitions[history'[k]]
      <4>1. CASE i = Len(history) + 1
        BY <3>3, <3>4, <4>1
      <4>2. CASE i \in 2 .. Len(history)
        <5>1. PICK k \in 1 .. (i - 1) : history[i] \in ValidTransitions[history[k]]
          BY <4>2 DEF EarnedInv, EveryStatusEarned
        <5> QED
          BY <3>1, <3>4, <4>2, <5>1
      <4> QED
        BY <3>4, <4>1, <4>2
    <3>6. EveryStatusEarned'
      BY <3>2, <3>5 DEF EveryStatusEarned, HistoryInv
    <3> QED
      BY <2>1, <3>2, <3>6 DEF EarnedInv
  <2> QED
    BY <2>2, <2>3, OnlyCommitsWrite
<1> QED
  BY <1>1, <1>2, TypeCorrect, PTL DEF Spec, EarnedInv

-----------------------------------------------------------------------------
(* Writes.                                                                 *)

(* A running call has written nothing before its commit and one row after. *)
WritesInv ==
  \A u \in Callers :
    /\ pc[u] \in {"reading", "validated", "inTransaction"} => writes[u] = 0
    /\ pc[u] = "committed" => writes[u] = 1
    /\ pc[u] # "idle" => outcome[u] = "none"

(* A call answered "ok" wrote exactly one row and a rejected one none,     *)
(* however often executeWithRetry ran the transaction.                     *)
THEOREM NoDoubleWrite == Spec => []WritesOnce
<1>1. Init => WritesInv /\ WritesOnce
  BY DEF Init, WritesInv, WritesOnce
<1>2. TypeOK /\ WritesInv /\ WritesOnce /\ [Next]_vars => WritesInv' /\ WritesOnce'
  <2> SUFFICES ASSUME TypeOK, WritesInv, WritesOnce, [Next]_vars
               PROVE  WritesInv' /\ WritesOnce'
    OBVIOUS
  <2>1. ASSUME NEW u \in Callers, NEW s \in Statuses, UpdateOrderStatus(u, s)
        PROVE  WritesInv' /\ WritesOnce'
    BY <2>1 DEF UpdateOrderStatus, Goto, WritesInv, WritesOnce, TypeOK
  <2>2. ASSUME NEW u \in Callers, NEW how, End(u, how), UNCHANGED writes,
               how = "ok" => writes[u] = 1, how = "rejected" => writes[u] = 0
        PROVE  WritesInv' /\ WritesOnce'
    BY <2>2 DEF End, Goto, WritesInv, WritesOnce, TypeOK
  <2>3. ASSUME NEW u \in Callers, Goto(u, "validated"), UNCHANGED <<outcome, writes>>,
               pc[u] \in {"reading", "inTransaction"}
        PROVE  WritesInv' /\ WritesOnce'
    BY <2>3 DEF Goto, WritesInv, WritesOnce, TypeOK
  <2>4. ASSUME NEW u \in Callers, ValidateStatusTransition(u)
        PROVE  WritesInv' /\ WritesOnce'
    BY <2>2, <2>3, <2>4 DEF ValidateStatusTransition, WritesInv
  <2>5. ASSUME NEW u \in Callers, BeginTransaction(u)
        PROVE  WritesInv' /\ WritesOnce'
    BY <2>5 DEF BeginTransaction, Goto, WritesInv, WritesOnce, TypeOK
  <2>6. ASSUME NEW u \in Callers, CommitTransaction(u)
        PROVE  WritesInv' /\ WritesOnce'
    BY <2>6 DEF CommitTransaction, WriteStatus, Goto, WritesInv, WritesOnce, TypeOK
  <2>7. ASSUME NEW u \in Callers, SerializationFailure(u)
        PROVE  WritesInv' /\ WritesOnce'
    BY <2>2, <2>3, <2>7 DEF SerializationFailure, Retry
  <2>8. ASSUME NEW u \in Callers, Complete(u) \/ Break(u)
        PROVE  WritesInv' /\ WritesOnce'
    BY <2>2, <2>8 DEF Complete, Break, WritesInv
  <2>9. CASE UNCHANGED vars
    BY <2>9 DEF vars, WritesInv, WritesOnce
  <2> QED
    BY <2>1, <2>4, <2>5, <2>6, <2>7, <2>8, <2>9, TransitionsTyped
    DEF Next, Request, ProcessNewOrder, Step, Callers
<1> QED
  BY <1>1, <1>2, TypeCorrect, PTL DEF Spec
=============================================================================
