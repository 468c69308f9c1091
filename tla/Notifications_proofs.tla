------------------------- MODULE Notifications_proofs -------------------------
(***************************************************************************)
(* What Notifications guarantees for any number of notifications and       *)
(* channels, any attempts, stalls, circuit threshold and faults.           *)
(*                                                                         *)
(* How often a message was sent is tied to how often its job stalled only  *)
(* through where the job is: a job that waits, or that the worker has not  *)
(* sent yet, has a stall for every message sent (Unsent).  What rows say   *)
(* of failures is safe against stale entities because a refusal is never   *)
(* forgotten: whatever is read of one stays true until it is saved.        *)
(***************************************************************************)
EXTENDS Notifications, TLAPS

(* A refusal that happened, or may have in a run that was cut short.       *)
Refusal(j) == answer[j] = "refused" \/ stalls[j] > 0

(* The failures of an entity of the notification happened.                 *)
Real(n, failures) == \A c \in failures : Refusal(<<n, c>>)

(* Whatever was sent for the job was in a run that was cut short.          *)
Unsent(j) ==
  /\ sent[j] <= stalls[j]
  /\ answer[j] = "none" \/ stalls[j] > 0

(* A job that has never been in the queue.                                 *)
Fresh(j) ==
  /\ j \notin waiting /\ j # job
  /\ attempts[j] = 0 /\ stalls[j] = 0 /\ sent[j] = 0 /\ answer[j] = "none"

JobSound(j) ==
  /\ j \in waiting => j # job /\ Unsent(j)
  /\ j \in waiting \/ j = job => attempts[j] < limit[j[1]] /\ stalls[j] <= MaxStalls
  /\ j = job /\ pc \in {"reading", "sending"} => Unsent(j)
  /\ j = job /\ pc \in {"fallback", "rereading", "saving"} => answer[j] = "refused"
  /\ j = job /\ pc = "delivered" => answer[j] # "refused"
  /\ sent[j] <= 1 + stalls[j]

CreationSound(n) ==
  /\ toQueue[n] # {} => n \in created
  /\ \A c \in Channels : n \notin created \/ c \in toQueue[n] => Fresh(<<n, c>>)

EntitiesSound(n) ==
  /\ row[n] # NoRow => Real(n, row[n].failures)
  /\ reading[n] # NoRow => Real(n, reading[n].failures)

WorkerSound ==
  /\ job # NoJob => Real(job[1], noted)
  /\ job = NoJob => noted = {}
  /\ pc = "saving" => entity # NoRow

IInv ==
  /\ TypeOK
  /\ \A j \in Jobs : JobSound(j)
  /\ \A n \in Notifications : CreationSound(n)
  /\ \A n \in Notifications : EntitiesSound(n)
  /\ WorkerSound

(* A job is a notification and a channel.                                  *)
LEMMA JobParts ==
  ASSUME NEW j \in Jobs
  PROVE  j[1] \in Notifications /\ j[2] \in Channels /\ j = <<j[1], j[2]>>
BY DEF Jobs

(* A notification and a channel make a job.                                *)
LEMMA JobOf ==
  ASSUME NEW n \in Notifications, NEW c \in Channels
  PROVE  /\ <<n, c>> \in Jobs
         /\ <<n, c>>[1] = n /\ <<n, c>>[2] = c
BY DEF Jobs

(* An idle worker has no job.                                              *)
LEMMA NoJobIsNoJob == NoJob \notin Jobs
BY NotificationsAssumption DEF Jobs

(* What is written into a row leaves it a row.                             *)
LEMMA RowsStayRows ==
  ASSUME NEW r \in Rows
  PROVE  /\ [r EXCEPT !.read = TRUE] \in Rows
         /\ [r EXCEPT !.read = TRUE].failures = r.failures
         /\ [r EXCEPT !.delivered = TRUE] \in Rows
         /\ [r EXCEPT !.delivered = TRUE].failures = r.failures
BY DEF Rows

(* Noting failures in a row leaves it a row.                               *)
LEMMA FailuresStayRows ==
  ASSUME NEW r \in Rows, NEW failures \in SUBSET Channels
  PROVE  /\ [r EXCEPT !.failures = failures] \in Rows
         /\ [r EXCEPT !.failures = failures].failures = failures
BY DEF Rows

(* Before any notification, the invariant holds.                           *)
LEMMA InitInv == Init => IInv
<1> SUFFICES ASSUME Init PROVE IInv
  OBVIOUS
<1>1. TypeOK
  <2>1. 0 \in 0 .. MaxFaults /\ 0 \in 0 .. Threshold /\ 0 \in 0 .. (MaxStalls + 1)
    BY NotificationsAssumption
  <2>2. \A j \in Jobs : 0 <= limit[j[1]]
    BY NotificationsAssumption, JobParts DEF Init
  <2> QED
    BY <2>1, <2>2, NoJobIsNoJob DEF Init, TypeOK, Places
<1>2. ASSUME NEW j \in Jobs PROVE JobSound(j)
  BY NoJobIsNoJob DEF Init, JobSound
<1>3. ASSUME NEW n \in Notifications PROVE CreationSound(n)
  BY NoJobIsNoJob, JobOf DEF Init, CreationSound, Fresh
<1>4. ASSUME NEW n \in Notifications PROVE EntitiesSound(n)
  BY DEF Init, EntitiesSound
<1>5. WorkerSound
  BY DEF Init, WorkerSound
<1> QED
  BY <1>1, <1>2, <1>3, <1>4, <1>5 DEF IInv

(* A step that touches neither jobs nor the worker keeps what is said of   *)
(* them.                                                                   *)
LEMMA QuietStep ==
  ASSUME IInv, UNCHANGED <<limit, queue, worker, sent, answer>>
  PROVE  /\ \A j \in Jobs : JobSound(j)'
         /\ \A j \in Jobs : Refusal(j) => Refusal(j)'
         /\ WorkerSound'
<1> USE DEF IInv, queue, worker, local
<1>1. ASSUME NEW j \in Jobs PROVE JobSound(j)'
  BY DEF JobSound, Unsent
<1>2. ASSUME NEW j \in Jobs, Refusal(j) PROVE Refusal(j)'
  BY <1>2 DEF Refusal
<1>3. WorkerSound'
  BY DEF WorkerSound, Real, Refusal
<1> QED
  BY <1>1, <1>2, <1>3

(* createNotification saves a row without failures.                        *)
LEMMA CreateInv ==
  ASSUME IInv, NEW n \in Notifications, NEW channels \in SUBSET Channels,
         CreateNotification(n, channels)
  PROVE  IInv'
<1> USE DEF CreateNotification, queue, worker, local, provider
<1>1. TypeOK'
  BY DEF IInv, TypeOK, Rows
<1>2. ASSUME NEW m \in Notifications PROVE CreationSound(m)'
  BY JobOf DEF IInv, TypeOK, CreationSound, Fresh
<1>3. ASSUME NEW m \in Notifications PROVE EntitiesSound(m)'
  BY DEF IInv, TypeOK, EntitiesSound, Real, Refusal
<1> QED
  BY <1>1, <1>2, <1>3, QuietStep DEF IInv

(* A job is added for a channel that had none.                             *)
LEMMA AddInv ==
  ASSUME IInv, NEW n \in Notifications, NEW c \in Channels, AddToQueue(n, c)
  PROVE  IInv'
<1> USE DEF AddToQueue, rowVars, worker, local, provider
<1>1. /\ <<n, c>> \in Jobs /\ <<n, c>>[1] = n /\ Fresh(<<n, c>>) /\ n \in created
      /\ limit[n] > 0 /\ limit[n] \in Nat /\ MaxStalls \in Nat
  BY JobOf, NotificationsAssumption DEF IInv, CreationSound, TypeOK
<1>2. TypeOK'
  BY <1>1 DEF IInv, TypeOK
<1>3. ASSUME NEW j \in Jobs PROVE JobSound(j)'
  <2>1. CASE j = <<n, c>>
    BY <1>1, <2>1 DEF IInv, JobSound, Fresh, Unsent, TypeOK
  <2>2. CASE j # <<n, c>>
    BY <2>2 DEF IInv, JobSound, Unsent
  <2> QED
    BY <2>1, <2>2
<1>4. ASSUME NEW m \in Notifications PROVE CreationSound(m)'
  BY <1>1, JobOf DEF IInv, TypeOK, CreationSound, Fresh
<1>5. ASSUME NEW m \in Notifications PROVE EntitiesSound(m)'
  BY DEF IInv, EntitiesSound, Real, Refusal
<1>6. WorkerSound'
  BY DEF IInv, WorkerSound, Real, Refusal
<1> QED
  BY <1>2, <1>3, <1>4, <1>5, <1>6 DEF IInv

(* The user, and a queue that fails, touch rows and channels only.         *)
LEMMA UserInv ==
  ASSUME IInv, UserActs \/ \E n \in Notifications : QueueError(n)
  PROVE  IInv'
<1>1. UNCHANGED <<limit, created, queue, worker, provider>>
  BY DEF UserActs, FindForRead, SaveAsRead, ReadError, MarkAllAsRead, DeleteNotification,
         QueueError, creation
<1>2. TypeOK'
  <2>1. row' \in [Notifications -> Rows \cup {NoRow}]
    <3>1. CASE \E n \in Notifications : SaveAsRead(n)
      <4> PICK n \in Notifications : SaveAsRead(n)
        BY <3>1
      <4>1. [reading[n] EXCEPT !.read = TRUE] \in Rows
        BY RowsStayRows DEF IInv, TypeOK, SaveAsRead
      <4> QED
        BY <4>1 DEF IInv, TypeOK, SaveAsRead
    <3>2. CASE MarkAllAsRead
      <4>1. \A r \in Rows : [r EXCEPT !.read = TRUE] \in Rows
        BY RowsStayRows
      <4> QED
        BY <3>2, <4>1 DEF IInv, TypeOK, MarkAllAsRead
    <3> QED
      BY <3>1, <3>2 DEF IInv, TypeOK, UserActs, FindForRead, ReadError, DeleteNotification,
                        QueueError, rowVars
  <2>2. reading' \in [Notifications -> Rows \cup {NoRow}]
    BY DEF IInv, TypeOK, UserActs, FindForRead, SaveAsRead, ReadError, MarkAllAsRead,
           DeleteNotification, QueueError, rowVars
  <2>3. toQueue' \in [Notifications -> SUBSET Channels]
    BY DEF IInv, TypeOK, UserActs, FindForRead, SaveAsRead, ReadError, MarkAllAsRead,
           DeleteNotification, QueueError, creation
  <2>4. faults' \in 0 .. MaxFaults
    <3>1. \/ UNCHANGED faults
          \/ faults < MaxFaults /\ faults' = faults + 1
      BY DEF UserActs, FindForRead, SaveAsRead, ReadError, MarkAllAsRead, DeleteNotification,
             QueueError, Fault
    <3> QED
      BY <3>1, NotificationsAssumption DEF IInv, TypeOK
  <2> QED
    BY <1>1, <2>1, <2>2, <2>3, <2>4 DEF IInv, TypeOK, queue, worker, local, provider
<1>3. ASSUME NEW m \in Notifications PROVE CreationSound(m)'
  <2>1. toQueue'[m] \subseteq toQueue[m]
    BY DEF IInv, TypeOK, UserActs, FindForRead, SaveAsRead, ReadError, MarkAllAsRead,
           DeleteNotification, QueueError, creation
  <2> QED
    BY <1>1, <2>1 DEF IInv, CreationSound, Fresh, queue, worker, provider
<1>4. ASSUME NEW m \in Notifications PROVE EntitiesSound(m)'
  <2>1. \A S : Real(m, S) => Real(m, S)'
    BY <1>1 DEF Real, Refusal, queue, provider
  <2>2. CASE UNCHANGED rowVars
    BY <2>1, <2>2 DEF IInv, EntitiesSound, rowVars
  <2>3. CASE \E n \in Notifications : FindForRead(n)
    BY <2>1, <2>3 DEF IInv, TypeOK, EntitiesSound, FindForRead
  <2>4. CASE \E n \in Notifications : SaveAsRead(n)
    <3> PICK n \in Notifications : SaveAsRead(n)
      BY <2>4
    <3>1. row'[m] = row[m] \/ (m = n /\ row'[m].failures = reading[m].failures)
      BY DEF IInv, TypeOK, Rows, SaveAsRead
    <3>2. reading'[m] = reading[m] \/ reading'[m] = NoRow
      BY DEF IInv, TypeOK, SaveAsRead
    <3>3. reading[n] # NoRow
      BY DEF SaveAsRead
    <3> QED
      BY <2>1, <3>1, <3>2, <3>3 DEF IInv, EntitiesSound
  <2>5. CASE \E n \in Notifications : ReadError(n)
    BY <2>1, <2>5 DEF IInv, TypeOK, EntitiesSound, ReadError
  <2>6. CASE MarkAllAsRead
    <3>1. row[m] # NoRow => row'[m].failures = row[m].failures
      BY <2>6 DEF IInv, TypeOK, Rows, MarkAllAsRead
    <3> QED
      BY <2>1, <2>6, <3>1 DEF IInv, EntitiesSound, MarkAllAsRead
  <2>7. CASE \E n \in Notifications : DeleteNotification(n)
    BY <2>1, <2>7 DEF IInv, TypeOK, EntitiesSound, DeleteNotification
  <2> QED
    BY <2>2, <2>3, <2>4, <2>5, <2>6, <2>7 DEF UserActs, QueueError
<1> QED
  BY <1>1, <1>2, <1>3, <1>4, QuietStep DEF IInv, provider

-----------------------------------------------------------------------------
(* The worker.  What the type invariant says of it and of the queue:       *)

WorkerTyped ==
  /\ waiting \subseteq Jobs
  /\ ended \in [Jobs -> {"no", "completed", "failed"}]
  /\ attempts \in [Jobs -> Nat]
  /\ \A j \in Jobs : attempts[j] <= limit[j[1]]
  /\ job \in Jobs \cup {NoJob}
  /\ pc \in Places
  /\ (job = NoJob) <=> (pc = "idle")
  /\ entity \in Rows \cup {NoRow}
  /\ noted \in SUBSET Channels

(* The three ways a step of the worker ends.                               *)
LEMMA CompleteTyped ==
  ASSUME TypeOK, job \in Jobs, Complete, UNCHANGED limit
  PROVE  WorkerTyped'
BY DEF TypeOK, WorkerTyped, Complete, Release, Goto, Places

(* An attempt that fails is counted, and the worker keeps its type.        *)
LEMMA AttemptFailsTyped ==
  ASSUME IInv, job \in Jobs, AttemptFails, UNCHANGED limit
  PROVE  /\ WorkerTyped'
         /\ \A j \in Jobs : j # job => attempts'[j] = attempts[j]
         /\ attempts'[job] = attempts[job] + 1
<1>1. /\ attempts \in [Jobs -> Nat] /\ attempts[job] < limit[job[1]]
      /\ attempts[job] \in Nat /\ limit[job[1]] \in Nat
  BY JobParts, NotificationsAssumption DEF IInv, JobSound, TypeOK
<1>2. /\ attempts' \in [Jobs -> Nat]
      /\ \A j \in Jobs : j # job => attempts'[j] = attempts[j]
      /\ attempts'[job] = attempts[job] + 1
  <2>1. attempts' = [attempts EXCEPT ![job] = attempts[job] + 1]
    BY DEF AttemptFails
  <2>2. attempts[job] + 1 \in Nat
    BY <1>1
  <2> QED
    BY <1>1, <2>1, <2>2
<1>3. \A j \in Jobs : attempts'[j] <= limit'[j[1]]
  <2>1. attempts'[job] <= limit[job[1]]
    BY <1>1, <1>2
  <2> QED
    BY <1>2, <2>1 DEF IInv, TypeOK
<1>4. /\ waiting' \subseteq Jobs
      /\ ended' \in [Jobs -> {"no", "completed", "failed"}]
      /\ job' = NoJob /\ pc' = "idle" /\ entity' = NoRow /\ noted' = {}
  BY DEF IInv, TypeOK, AttemptFails, Release, Goto
<1> QED
  BY <1>2, <1>3, <1>4 DEF WorkerTyped, Places

(* A worker that goes on with its job keeps its type.                      *)
LEMMA GoesOnTyped ==
  ASSUME TypeOK, job \in Jobs, NEW place \in Places \ {"idle"}, Goto(place),
         entity' \in Rows \cup {NoRow}, noted' \in SUBSET Channels,
         UNCHANGED <<limit, queue, job>>
  PROVE  WorkerTyped'
BY NoJobIsNoJob DEF TypeOK, WorkerTyped, Goto, queue

(* Counting a failure keeps the counters' type.                            *)
LEMMA CountFailureTyped ==
  ASSUME TypeOK, NEW c, CountFailure(c)
  PROVE  failing' \in [Channels -> 0 .. Threshold]
<1>1. \A n \in 0 .. Threshold : (IF n < Threshold THEN n + 1 ELSE n) \in 0 .. Threshold
  BY NotificationsAssumption
<1>2. failing' = [failing EXCEPT ![c] = IF failing[c] < Threshold THEN failing[c] + 1
                                                                  ELSE failing[c]]
  BY DEF CountFailure
<1> QED
  BY <1>1, <1>2 DEF TypeOK

(* The worker's steps keep the types.                                      *)
LEMMA WorkTypeOK ==
  ASSUME IInv, Work
  PROVE  TypeOK'
<1>1. UNCHANGED <<limit, created, toQueue, stalls, reading>>
  BY DEF Work, Fetch, GetNotification, GetError, SendWithoutProvider, SendAccepted, SendFails,
         SendTurnedAway, UpdateDeliveryStatus, UpdateError, GetForMetadata, SaveMetadata,
         MetadataError, AfterUpdate, Complete, AttemptFails, Delivered, Refused, creation,
         queue, rowVars
<1>2. pc # "idle" => job \in Jobs
  BY DEF IInv, TypeOK
<1>3. WorkerTyped'
  <2> USE DEF creation
  <2>1. CASE \E j \in Jobs : Fetch(j)
    BY <2>1, NoJobIsNoJob DEF IInv, TypeOK, WorkerTyped, Fetch, Goto, Places, local
  <2>2. CASE GetNotification
    BY <1>1, <1>2, <2>2, CompleteTyped, GoesOnTyped, JobParts
       DEF IInv, TypeOK, Rows, GetNotification, Places
  <2>3. CASE GetError
    BY <1>1, <1>2, <2>3, AttemptFailsTyped DEF GetError
  <2>4. CASE SendWithoutProvider \/ SendAccepted \/ SendFails \/ SendTurnedAway
    <3>1. job \in Jobs
      BY <1>2, <2>4 DEF SendWithoutProvider, SendAccepted, SendFails, SendTurnedAway
    <3>2. (\E a : Delivered(a)) \/ Refused
      BY <2>4 DEF SendWithoutProvider, SendAccepted, SendFails, SendTurnedAway
    <3> QED
      BY <1>1, <3>1, <3>2, CompleteTyped, GoesOnTyped
         DEF IInv, TypeOK, Delivered, Refused, Places, local
  <2>5. CASE UpdateDeliveryStatus \/ UpdateError
    <3>1. job \in Jobs
      BY <1>2, <2>5 DEF UpdateDeliveryStatus, UpdateError
    <3>2. AfterUpdate
      BY <2>5 DEF UpdateDeliveryStatus, UpdateError
    <3> QED
      BY <1>1, <3>1, <3>2, CompleteTyped, GoesOnTyped
         DEF IInv, TypeOK, AfterUpdate, Places, local
  <2>6. CASE GetForMetadata
    <3>1. job \in Jobs
      BY <1>2, <2>6 DEF GetForMetadata
    <3>2. CASE Complete
      BY <1>1, <3>1, <3>2, CompleteTyped DEF IInv
    <3>3. CASE entity' = row[job[1]] /\ Goto("saving") /\ UNCHANGED <<queue, job, noted>>
      <4>1. entity' \in Rows \cup {NoRow} /\ noted' \in SUBSET Channels
        BY <3>1, <3>3, JobParts DEF IInv, TypeOK
      <4> QED
        BY <1>1, <3>1, <3>3, <4>1, GoesOnTyped DEF IInv, Places
    <3> QED
      BY <2>6, <3>2, <3>3 DEF GetForMetadata
  <2>7. CASE SaveMetadata \/ MetadataError
    BY <1>1, <1>2, <2>7, CompleteTyped DEF IInv, SaveMetadata, MetadataError
  <2> QED
    BY <2>1, <2>2, <2>3, <2>4, <2>5, <2>6, <2>7 DEF Work
<1>4. row' \in [Notifications -> Rows \cup {NoRow}]
  <2>1. CASE UpdateDeliveryStatus
    <3>1. \A r \in Rows : [r EXCEPT !.delivered = TRUE] \in Rows
      BY RowsStayRows
    <3> QED
      BY <2>1, <3>1 DEF IInv, TypeOK, UpdateDeliveryStatus
  <2>2. CASE SaveMetadata
    <3>1. job \in Jobs /\ entity \in Rows /\ noted \cup {job[2]} \in SUBSET Channels
      BY <1>2, <2>2, JobParts DEF IInv, TypeOK, WorkerSound, SaveMetadata
    <3> QED
      BY <2>2, <3>1, FailuresStayRows DEF IInv, TypeOK, SaveMetadata
  <2>3. CASE UNCHANGED row
    BY <2>3 DEF IInv, TypeOK
  <2> QED
    BY <2>1, <2>2, <2>3
       DEF Work, Fetch, GetNotification, GetError, SendWithoutProvider, SendAccepted,
           SendFails, SendTurnedAway, UpdateError, GetForMetadata, MetadataError, rowVars
<1>5. /\ failing' \in [Channels -> 0 .. Threshold]
      /\ sent' \in [Jobs -> Nat]
      /\ answer' \in [Jobs -> {"none", "sent", "fallback", "refused"}]
  <2>1. CASE SendWithoutProvider \/ SendTurnedAway
    BY <2>1 DEF IInv, TypeOK, SendWithoutProvider, SendTurnedAway, Delivered, Refused, Answer
  <2>2. CASE SendAccepted
    <3>1. \A n \in Nat : n + 1 \in Nat
      OBVIOUS
    <3>2. sent' = [sent EXCEPT ![job] = sent[job] + 1]
      BY <2>2 DEF SendAccepted
    <3>3. sent' \in [Jobs -> Nat]
      BY <3>1, <3>2 DEF IInv, TypeOK
    <3> QED
      BY <2>2, <3>3 DEF IInv, TypeOK, SendAccepted, Delivered, Answer
  <2>3. CASE SendFails
    <3>1. failing' \in [Channels -> 0 .. Threshold]
      BY <2>3, CountFailureTyped DEF IInv, SendFails
    <3> QED
      BY <2>3, <3>1 DEF IInv, TypeOK, SendFails, Delivered, Answer
  <2>4. CASE UNCHANGED provider
    BY <2>4 DEF IInv, TypeOK, provider
  <2> QED
    BY <2>1, <2>2, <2>3, <2>4
       DEF Work, Fetch, GetNotification, GetError, UpdateDeliveryStatus, UpdateError,
           GetForMetadata, SaveMetadata, MetadataError
<1>6. faults' \in 0 .. MaxFaults
  <2>1. \/ UNCHANGED faults
        \/ faults < MaxFaults /\ faults' = faults + 1
    BY DEF Work, Fetch, GetNotification, GetError, SendWithoutProvider, SendAccepted,
           SendFails, SendTurnedAway, UpdateDeliveryStatus, UpdateError, GetForMetadata,
           SaveMetadata, MetadataError, Fault
  <2> QED
    BY <2>1, NotificationsAssumption DEF IInv, TypeOK
<1> QED
  BY <1>1, <1>3, <1>4, <1>5, <1>6 DEF IInv, TypeOK, WorkerTyped

(* A job is sent once per run: before its run sends, whatever was sent is  *)
(* paid for by a stall, and after the send no error puts it back.          *)
LEMMA WorkJobs ==
  ASSUME IInv, Work, NEW j \in Jobs
  PROVE  JobSound(j)'
<1>1. /\ JobSound(j) /\ UNCHANGED <<limit, stalls>>
      /\ sent[j] \in Nat /\ stalls[j] \in Nat /\ attempts[j] \in Nat
      /\ pc # "idle" => job \in Jobs
      /\ (job = NoJob) <=> (pc = "idle")
  BY NotificationsAssumption
     DEF IInv, TypeOK, Work, Fetch, GetNotification, GetError, SendWithoutProvider,
         SendAccepted, SendFails, SendTurnedAway, UpdateDeliveryStatus, UpdateError,
         GetForMetadata, SaveMetadata, MetadataError, AfterUpdate, Complete, AttemptFails,
         Delivered, Refused, creation, queue
<1>2. CASE \E i \in Jobs : Fetch(i)
  BY <1>1, <1>2, NoJobIsNoJob DEF JobSound, Unsent, Fetch, Goto, provider
<1>3. CASE GetNotification
  BY <1>1, <1>3, NoJobIsNoJob
     DEF JobSound, Unsent, GetNotification, Complete, Release, Goto, provider, queue
<1>4. CASE GetError
  <2>1. /\ attempts' = [attempts EXCEPT ![job] = attempts[job] + 1]
        /\ attempts[job] + 1 < limit[job[1]] \/ UNCHANGED waiting
        /\ waiting' \subseteq waiting \cup {job}
        /\ job' = NoJob /\ pc' = "idle" /\ job \in Jobs /\ pc = "reading"
        /\ UNCHANGED <<sent, answer>>
    BY <1>1, <1>4 DEF GetError, AttemptFails, Release, Goto, provider
  <2>2. attempts \in [Jobs -> Nat]
    BY DEF IInv, TypeOK
  <2>3. attempts'[j] = IF j = job THEN attempts[j] + 1 ELSE attempts[j]
    BY <2>1, <2>2
  <2> QED
    BY <1>1, <2>1, <2>3, NoJobIsNoJob DEF JobSound, Unsent
<1>5. CASE SendWithoutProvider \/ SendAccepted \/ SendFails \/ SendTurnedAway
  <2>1. /\ pc = "sending" /\ job \in Jobs
        /\ UNCHANGED <<waiting, attempts>>
    BY <1>1, <1>5 DEF SendWithoutProvider, SendAccepted, SendFails, SendTurnedAway, Delivered,
                      Refused, Complete, queue
  <2>2. /\ sent'[j] = IF j = job /\ SendAccepted THEN sent[j] + 1 ELSE sent[j]
        /\ j # job => answer'[j] = answer[j]
    BY <2>1, <1>5 DEF IInv, TypeOK, SendWithoutProvider, SendAccepted, SendFails,
                      SendTurnedAway, Delivered, Refused, Answer
  <2>3. \/ job' = NoJob /\ pc' = "idle"
        \/ job' = job /\ pc' = "delivered" /\ answer'[job] # "refused"
        \/ job' = job /\ pc' = "fallback" /\ answer'[job] = "refused"
    BY <2>1, <1>5 DEF IInv, TypeOK, SendWithoutProvider, SendAccepted, SendFails,
                      SendTurnedAway, Delivered, Refused, Complete, Release, Goto, Answer
  <2> QED
    BY <1>1, <2>1, <2>2, <2>3, NoJobIsNoJob DEF JobSound, Unsent
<1>6. CASE UpdateDeliveryStatus \/ UpdateError
  BY <1>1, <1>6, NoJobIsNoJob
     DEF JobSound, Unsent, UpdateDeliveryStatus, UpdateError, AfterUpdate, Complete, Release,
         Goto, provider, queue
<1>7. CASE GetForMetadata
  BY <1>1, <1>7, NoJobIsNoJob
     DEF JobSound, Unsent, GetForMetadata, Complete, Release, Goto, provider, queue
<1>8. CASE SaveMetadata \/ MetadataError
  BY <1>1, <1>8, NoJobIsNoJob
     DEF JobSound, Unsent, SaveMetadata, MetadataError, Complete, Release, Goto, provider
<1> QED
  BY <1>2, <1>3, <1>4, <1>5, <1>6, <1>7, <1>8 DEF Work

(* The worker leaves jobs that are still to be added alone.                *)
LEMMA WorkCreation ==
  ASSUME IInv, Work, NEW n \in Notifications
  PROVE  CreationSound(n)'
<1>1. /\ UNCHANGED <<created, toQueue, stalls>>
      /\ job' = job \/ job' = NoJob \/ job' \in waiting
      /\ waiting' \subseteq waiting \cup {job}
  BY DEF Work, Fetch, GetNotification, GetError, SendWithoutProvider, SendAccepted,
         SendFails, SendTurnedAway, UpdateDeliveryStatus, UpdateError, GetForMetadata,
         SaveMetadata, MetadataError, AfterUpdate, Complete, AttemptFails, Release,
         Delivered, Refused, creation, queue
<1>2. ASSUME NEW j \in Jobs, j # job
      PROVE  attempts'[j] = attempts[j] /\ sent'[j] = sent[j] /\ answer'[j] = answer[j]
  BY <1>2
     DEF IInv, TypeOK, Work, Fetch, GetNotification, GetError, SendWithoutProvider,
         SendAccepted, SendFails, SendTurnedAway, UpdateDeliveryStatus, UpdateError,
         GetForMetadata, SaveMetadata, MetadataError, AfterUpdate, Complete, AttemptFails,
         Delivered, Refused, Answer, queue, provider
<1> QED
  BY <1>1, <1>2, NoJobIsNoJob, JobOf DEF IInv, CreationSound, Fresh

(* No step of the worker forgets a refusal: only a run that follows one    *)
(* that was cut short sends a refused job again.                           *)
LEMMA WorkRefusals ==
  ASSUME IInv, Work, NEW j \in Jobs, Refusal(j)
  PROVE  Refusal(j)'
<1>1. UNCHANGED stalls
  BY DEF Work, Fetch, GetNotification, GetError, SendWithoutProvider, SendAccepted,
         SendFails, SendTurnedAway, UpdateDeliveryStatus, UpdateError, GetForMetadata,
         SaveMetadata, MetadataError, AfterUpdate, Complete, AttemptFails, Delivered,
         Refused, queue
<1>2. answer'[j] = answer[j] \/ (j = job /\ pc = "sending")
  BY DEF IInv, TypeOK, Work, Fetch, GetNotification, GetError, SendWithoutProvider,
         SendAccepted, SendFails, SendTurnedAway, UpdateDeliveryStatus, UpdateError,
         GetForMetadata, SaveMetadata, MetadataError, Delivered, Refused, Answer, provider
<1> QED
  BY <1>1, <1>2 DEF IInv, JobSound, Unsent, Refusal

(* What the worker writes into rows, and holds, is real.                   *)
LEMMA WorkEntities ==
  ASSUME IInv, Work
  PROVE  /\ \A n \in Notifications : EntitiesSound(n)'
         /\ WorkerSound'
<1>1. ASSUME NEW n \in Notifications, NEW S \in SUBSET Channels, Real(n, S)
      PROVE  Real(n, S)'
  BY <1>1, WorkRefusals, JobOf DEF Real
<1>2. \A n \in Notifications :
        /\ row[n] # NoRow => row[n].failures \in SUBSET Channels
        /\ reading[n] # NoRow => reading[n].failures \in SUBSET Channels
  BY DEF IInv, TypeOK, Rows
<1>3. /\ UNCHANGED reading /\ noted \in SUBSET Channels
      /\ pc # "idle" => job \in Jobs
  BY DEF IInv, TypeOK, Work, Fetch, GetNotification, GetError, SendWithoutProvider,
         SendAccepted, SendFails, SendTurnedAway, UpdateDeliveryStatus, UpdateError,
         GetForMetadata, SaveMetadata, MetadataError, rowVars
<1>4. ASSUME NEW n \in Notifications, row'[n] # NoRow PROVE Real(n, row[n].failures)'
  <2>1. CASE SaveMetadata /\ n = job[1]
    <3>1. /\ job \in Jobs /\ entity \in Rows /\ noted \cup {job[2]} \in SUBSET Channels
          /\ job = <<n, job[2]>>
      BY <1>3, <2>1, JobParts DEF IInv, TypeOK, WorkerSound, SaveMetadata
    <3>2. row'[n].failures = noted \cup {job[2]}
      <4>1. row'[n] = [entity EXCEPT !.failures = noted \cup {job[2]}]
        BY <2>1, <3>1 DEF IInv, TypeOK, SaveMetadata
      <4> QED
        BY <3>1, <4>1, FailuresStayRows
    <3>3. Refusal(job) /\ Real(n, noted)
      BY <2>1, <3>1, NoJobIsNoJob DEF IInv, JobSound, WorkerSound, Refusal, SaveMetadata
    <3>4. Real(n, noted \cup {job[2]})
      BY <3>1, <3>3 DEF Real
    <3> QED
      BY <1>1, <3>1, <3>2, <3>4 DEF Real, Refusal
  <2>2. CASE ~ (SaveMetadata /\ n = job[1])
    <3>1. row[n] # NoRow /\ row'[n].failures = row[n].failures
      <4>1. CASE UpdateDeliveryStatus
        <5>1. \A r \in Rows : [r EXCEPT !.delivered = TRUE].failures = r.failures
          BY RowsStayRows
        <5>2. row'[n] = row[n] \/ (row[n] # NoRow /\ row'[n] = [row[n] EXCEPT !.delivered = TRUE])
          BY <1>4, <4>1 DEF IInv, TypeOK, UpdateDeliveryStatus
        <5>3. row[n] # NoRow => row[n] \in Rows
          BY DEF IInv, TypeOK
        <5> QED
          BY <1>4, <5>1, <5>2, <5>3
      <4>2. CASE SaveMetadata
        BY <1>4, <2>2, <4>2 DEF IInv, TypeOK, SaveMetadata
      <4>3. CASE UNCHANGED row
        BY <1>4, <4>3
      <4> QED
        BY <4>1, <4>2, <4>3
           DEF Work, Fetch, GetNotification, GetError, SendWithoutProvider, SendAccepted,
               SendFails, SendTurnedAway, UpdateError, GetForMetadata, MetadataError, rowVars
    <3> QED
      BY <1>1, <1>2, <3>1 DEF IInv, EntitiesSound, Real, Refusal
  <2> QED
    BY <2>1, <2>2
<1>5. ASSUME NEW n \in Notifications, reading'[n] # NoRow
      PROVE  Real(n, reading[n].failures)'
  BY <1>1, <1>2, <1>3, <1>5 DEF IInv, EntitiesSound, Real, Refusal
<1>6. WorkerSound'
  <2>1. Release => WorkerSound'
    BY NoJobIsNoJob DEF Release, Goto, WorkerSound, Real
  <2>2. ASSUME UNCHANGED <<job, noted>>, pc' = "saving" => entity' # NoRow
        PROVE  WorkerSound'
    BY <1>1, <1>3, <2>2, JobParts DEF IInv, TypeOK, WorkerSound
  <2>3. CASE \E j \in Jobs : Fetch(j)
    BY <2>3, NoJobIsNoJob DEF IInv, WorkerSound, Fetch, Goto, Real, local
  <2>4. CASE GetNotification
    <3>1. CASE Complete
      BY <2>1, <3>1 DEF Complete
    <3>2. CASE row[job[1]] # NoRow /\ noted' = row[job[1]].failures /\ pc' = "sending"
               /\ UNCHANGED job
      <4>1. job \in Jobs /\ job[1] \in Notifications /\ job # NoJob
        BY <1>3, <2>4, JobParts, NoJobIsNoJob DEF GetNotification
      <4>2. \A c \in row[job[1]].failures : Refusal(<<job[1], c>>)'
        BY <1>1, <1>2, <3>2, <4>1 DEF IInv, EntitiesSound, Real, Refusal
      <4>3. Real(job[1], noted)'
        BY <3>2, <4>2 DEF Real, Refusal
      <4> QED
        BY <3>2, <4>1, <4>3 DEF WorkerSound
    <3> QED
      BY <2>4, <3>1, <3>2 DEF GetNotification, Goto
  <2>5. CASE GetError \/ SaveMetadata \/ MetadataError
    BY <2>1, <2>5 DEF GetError, SaveMetadata, MetadataError, AttemptFails, Complete
  <2>6. CASE SendWithoutProvider \/ SendAccepted \/ SendFails \/ SendTurnedAway
    BY <2>1, <2>2, <2>6 DEF SendWithoutProvider, SendAccepted, SendFails, SendTurnedAway,
                            Delivered, Refused, Complete, Goto, local
  <2>7. CASE UpdateDeliveryStatus \/ UpdateError
    BY <2>1, <2>2, <2>7 DEF UpdateDeliveryStatus, UpdateError, AfterUpdate, Complete, Goto, local
  <2>8. CASE GetForMetadata
    BY <2>1, <2>2, <2>8 DEF GetForMetadata, Complete, Goto
  <2> QED
    BY <2>3, <2>4, <2>5, <2>6, <2>7, <2>8 DEF Work
<1> QED
  BY <1>4, <1>5, <1>6 DEF EntitiesSound

-----------------------------------------------------------------------------
(* What others send touches the circuits only.                             *)
LEMMA OthersInv ==
  ASSUME IInv, NEW c \in Channels, OtherSendFails(c)
  PROVE  IInv'
<1> USE DEF OtherSendFails, queue, worker, local, creation, rowVars
<1>1. TypeOK'
  <2>1. faults' \in 0 .. MaxFaults
    BY NotificationsAssumption DEF IInv, TypeOK, Fault
  <2>2. failing' \in [Channels -> 0 .. Threshold]
    BY CountFailureTyped DEF IInv
  <2> QED
    BY <2>1, <2>2 DEF IInv, TypeOK
<1>2. ASSUME NEW n \in Notifications PROVE CreationSound(n)'
  BY DEF IInv, CreationSound, Fresh
<1>3. ASSUME NEW n \in Notifications PROVE EntitiesSound(n)'
  BY DEF IInv, EntitiesSound, Real, Refusal
<1> QED
  BY <1>1, <1>2, <1>3, QuietStep DEF IInv

(* A restart gives the worker's job a stall for what it may have sent.     *)
LEMMA RestartInv ==
  ASSUME IInv, Restart
  PROVE  IInv'
<1>1. /\ UNCHANGED <<row, limit, created, attempts, sent, answer>>
      /\ job' = NoJob /\ pc' = "idle" /\ entity' = NoRow /\ noted' = {}
      /\ \A n \in Notifications : toQueue'[n] = {} /\ reading'[n] = NoRow
  BY DEF Restart, Release, Goto
<1>2. /\ UNCHANGED stalls \/ (job \in Jobs /\ stalls' = [stalls EXCEPT ![job] = stalls[job] + 1])
      /\ waiting' \subseteq waiting \cup {job}
      /\ job \in waiting' => stalls[job] < MaxStalls \/ job \in waiting
      /\ NoJob \notin waiting'
  BY NoJobIsNoJob DEF IInv, TypeOK, Restart
<1>3. /\ stalls \in [Jobs -> 0 .. (MaxStalls + 1)]
      /\ \A j \in Jobs : stalls'[j] = IF stalls' # stalls /\ j = job THEN stalls[j] + 1
                                                                   ELSE stalls[j]
      /\ job \in Jobs => stalls[job] <= MaxStalls /\ stalls' # stalls
  <2>1. stalls \in [Jobs -> 0 .. (MaxStalls + 1)]
    BY DEF IInv, TypeOK
  <2>2. job \in Jobs => stalls[job] <= MaxStalls
    BY DEF IInv, JobSound
  <2>3. job \in Jobs => stalls'[job] = stalls[job] + 1 /\ stalls[job] \in Nat
    BY <2>1, NoJobIsNoJob, NotificationsAssumption DEF Restart
  <2> QED
    BY <1>2, <2>1, <2>2, <2>3
<1>4. TypeOK'
  <2>1. stalls' \in [Jobs -> 0 .. (MaxStalls + 1)]
    <3>1. job \in Jobs => stalls[job] + 1 \in 0 .. (MaxStalls + 1)
      BY <1>3, NotificationsAssumption
    <3> QED
      BY <1>2, <1>3, <3>1
  <2>2. faults' \in 0 .. MaxFaults
    BY NotificationsAssumption DEF IInv, TypeOK, Restart, Fault
  <2>3. /\ waiting' \subseteq Jobs
        /\ ended' \in [Jobs -> {"no", "completed", "failed"}]
    BY DEF IInv, TypeOK, Restart
  <2>4. failing' \in [Channels -> 0 .. Threshold]
    BY NotificationsAssumption DEF Restart
  <2>5. /\ toQueue' \in [Notifications -> SUBSET Channels]
        /\ reading' \in [Notifications -> Rows \cup {NoRow}]
    BY DEF Restart
  <2> QED
    BY <1>1, <2>1, <2>2, <2>3, <2>4, <2>5 DEF IInv, TypeOK, Places
<1>5. ASSUME NEW j \in Jobs PROVE JobSound(j)'
  <2>1. /\ JobSound(j) /\ sent[j] \in Nat /\ stalls[j] \in Nat
        /\ MaxStalls \in Nat
    BY <1>3, NotificationsAssumption DEF IInv, TypeOK
  <2> QED
    BY <1>1, <1>2, <1>3, <2>1, NoJobIsNoJob DEF JobSound, Unsent
<1>6. ASSUME NEW n \in Notifications PROVE CreationSound(n)'
  BY <1>1, <1>2, <1>3, JobOf, NoJobIsNoJob DEF IInv, CreationSound, Fresh
<1>7. ASSUME NEW n \in Notifications PROVE EntitiesSound(n)'
  <2>1. \A j \in Jobs : Refusal(j) => Refusal(j)'
    BY <1>1, <1>3, NotificationsAssumption DEF Refusal
  <2>2. row[n] # NoRow => row[n].failures \subseteq Channels
    BY DEF IInv, TypeOK, Rows
  <2> QED
    BY <1>1, <2>1, <2>2, JobOf DEF IInv, EntitiesSound, Real
<1>8. WorkerSound'
  BY <1>1 DEF WorkerSound
<1> QED
  BY <1>4, <1>5, <1>6, <1>7, <1>8 DEF IInv

(* Every step keeps the invariant.                                         *)
LEMMA NextInv == IInv /\ [Next]_vars => IInv'
<1> SUFFICES ASSUME IInv, [Next]_vars PROVE IInv'
  OBVIOUS
<1>1. ASSUME NEW n \in Notifications, NEW channels \in SUBSET Channels,
             CreateNotification(n, channels)
      PROVE  IInv'
  BY <1>1, CreateInv
<1>2. ASSUME NEW n \in Notifications, NEW c \in Channels, AddToQueue(n, c) PROVE IInv'
  BY <1>2, AddInv
<1>3. CASE UserActs \/ \E n \in Notifications : QueueError(n)
  BY <1>3, UserInv
<1>4. CASE Work
  BY <1>4, WorkTypeOK, WorkJobs, WorkCreation, WorkEntities DEF IInv
<1>5. CASE Restart
  BY <1>5, RestartInv
<1>6. ASSUME NEW c \in Channels, OtherSendFails(c) PROVE IInv'
  BY <1>6, OthersInv
<1>7. CASE UNCHANGED vars
  BY <1>7 DEF IInv, TypeOK, JobSound, CreationSound, EntitiesSound, WorkerSound, Unsent,
              Fresh, Real, Refusal, vars, rowVars, creation, queue, worker, local, provider
<1> QED
  BY <1>1, <1>2, <1>3, <1>4, <1>5, <1>6, <1>7 DEF Next

(* The invariant holds of every reachable state.                           *)
LEMMA Invariance == Spec => []IInv
BY InitInv, NextInv, PTL DEF Spec

(* TypeOK for any instance: no job is tried more often than its priority   *)
(* allows, or handed out again after more than MaxStalls stalls.           *)
THEOREM TypeCorrect == Spec => []TypeOK
<1>1. IInv => TypeOK
  BY DEF IInv
<1> QED
  BY <1>1, Invariance, PTL

(* Neither retries nor errors after a send make the user get a message     *)
(* twice; only a process that dies with the job in hand does.              *)
THEOREM MessagesSentOncePerRun == Spec => []SentOncePerRun
<1>1. IInv => SentOncePerRun
  BY DEF IInv, JobSound, SentOncePerRun
<1> QED
  BY <1>1, Invariance, PTL

(* Every failure a row names happened, whoever saved over the row.         *)
THEOREM NamedFailuresHappened == Spec => []FailuresHappened
<1>1. IInv => FailuresHappened
  BY DEF IInv, EntitiesSound, Real, Refusal, FailuresHappened
<1> QED
  BY <1>1, Invariance, PTL

(* A job refused on its last attempt ends with its failure recorded, or    *)
(* its notification gone, unless a database error keeps it from that.      *)
LEMMA LastRefusal ==
  ASSUME IInv, [Next]_vars, NEW j \in Jobs,
         ended'[j] = "completed", ended[j] # "completed",
         answer'[j] = "refused", attempts[j] = limit[j[1]] - 1, faults' = faults
  PROVE  row'[j[1]] = NoRow \/ j[2] \in row'[j[1]].failures
<1> USE DEF creation, queue, worker, provider
<1>1. /\ faults \in Nat
      /\ pc # "idle" => job \in Jobs
      /\ j[1] \in Notifications /\ limit[j[1]] \in Nat
  BY NotificationsAssumption, JobParts DEF IInv, TypeOK
<1>2. Complete /\ j = job /\ Work
  BY <1>1
     DEF IInv, TypeOK, Next, CreateNotification, AddToQueue, QueueError, UserActs,
         FindForRead, SaveAsRead, ReadError, MarkAllAsRead, DeleteNotification, Restart,
         OtherSendFails, Work, Fetch, GetNotification, GetError, SendWithoutProvider, SendAccepted,
         SendFails, SendTurnedAway, UpdateDeliveryStatus, UpdateError, GetForMetadata,
         SaveMetadata, MetadataError, AfterUpdate, Complete, Delivered, Refused, Fault, vars
<1>3. CASE SaveMetadata
  <2>1. entity \in Rows /\ noted \cup {job[2]} \in SUBSET Channels
    BY <1>1, <1>2, <1>3, JobParts DEF IInv, TypeOK, WorkerSound, SaveMetadata
  <2>2. row'[j[1]] = [entity EXCEPT !.failures = noted \cup {job[2]}]
    BY <1>1, <1>2, <1>3 DEF IInv, TypeOK, SaveMetadata
  <2> QED
    BY <1>2, <2>1, <2>2, FailuresStayRows
<1>4. CASE GetNotification \/ GetForMetadata
  BY <1>1, <1>2, <1>4, NoJobIsNoJob
     DEF GetNotification, GetForMetadata, Complete, Release, Goto, rowVars
<1>5. CASE SendWithoutProvider \/ SendTurnedAway
  <2>1. Refused
    BY <1>1, <1>2, <1>5, NoJobIsNoJob
       DEF SendWithoutProvider, SendTurnedAway, Delivered, Complete, Release
  <2>2. LastAttempt
    BY <1>1, <1>2 DEF LastAttempt
  <2>3. Goto("fallback")
    BY <2>1, <2>2 DEF Refused
  <2> QED
    BY <1>2, <2>3 DEF Complete, Release, Goto
<1>6. CASE UpdateDeliveryStatus
  <2>1. pc = "delivered"
    BY <1>2, <1>6 DEF UpdateDeliveryStatus, AfterUpdate, Complete, Release, Goto
  <2> QED
    BY <1>2, <1>6, <2>1 DEF IInv, JobSound, UpdateDeliveryStatus
<1>7. ~ SendAccepted
  BY <1>1, <1>2 DEF SendAccepted, Delivered, Complete, Release, Goto
<1>8. ~ (SendFails \/ GetError \/ UpdateError \/ MetadataError)
  <2>1. ~ Fault
    BY <1>1 DEF Fault
  <2> QED
    BY <2>1 DEF SendFails, GetError, UpdateError, MetadataError
<1>9. ~ \E i \in Jobs : Fetch(i)
  BY <1>2, NoJobIsNoJob DEF Fetch, Complete, Release
<1> QED
  BY <1>2, <1>3, <1>4, <1>5, <1>6, <1>7, <1>8, <1>9 DEF Work

(* The last attempt's refusal is always recorded, so a failure is seen if  *)
(* neither the database nor the process fails and the row is there.        *)
THEOREM LastRefusalIsRecorded == Spec => FallbackOnLastAttempt
<1>1. ASSUME IInv, [Next]_vars
      PROVE  [\A j \in Jobs :
                (/\ ended'[j] = "completed" /\ ended[j] # "completed"
                 /\ answer'[j] = "refused"
                 /\ attempts[j] = limit[j[1]] - 1
                 /\ faults' = faults)
                  => row'[j[1]] = NoRow \/ j[2] \in row'[j[1]].failures]_vars
  BY <1>1, LastRefusal
<1> QED
  BY <1>1, Invariance, PTL DEF Spec, FallbackOnLastAttempt
=============================================================================
