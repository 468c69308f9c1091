---------------------------- MODULE Notifications ----------------------------
(***************************************************************************)
(* NotificationService and NotificationQueueService: a notification is     *)
(* saved, gets one Bull job per channel, and a worker delivers the jobs    *)
(* while its user reads and deletes it.  A row is always written back as   *)
(* a whole entity, so whoever saves one read earlier undoes what others    *)
(* wrote since, and inserts it again when they deleted it.                 *)
(*                                                                         *)
(* One process runs one worker, which has one job at a time.  Bull (when a *)
(* job is fetched, retried, given up as stalled) and the providers are     *)
(* external.                                                               *)
(***************************************************************************)
EXTENDS Naturals

CONSTANTS
  Notifications,   \* the notifications of one user
  Channels,        \* NotificationChannel
  InApp,           \* the channel that needs no provider
  Enabled,         \* NOTIFICATIONS_<channel>_ENABLED
  Limits,          \* getJobOptionsForPriority: attempts of the priorities
  MaxStalls,       \* Bull's maxStalledCount
  Threshold,       \* failureThreshold of the channels' circuits
  MaxFaults,       \* bound: database errors, provider failures and crashes
  NoRow, NoJob     \* a row that is not there, a worker without a job

ASSUME NotificationsAssumption ==
  /\ InApp \in Channels
  /\ Enabled \subseteq Channels \ {InApp}
  /\ Limits \subseteq Nat \ {0}
  /\ MaxStalls \in Nat
  /\ Threshold \in Nat \ {0}
  /\ MaxFaults \in Nat
  /\ NoJob \notin Notifications \X Channels

Jobs == Notifications \X Channels

(* NotificationEntity: status, isDelivered, and the channels in its        *)
(* metadata.deliveryFailures.                                              *)
Rows == [read : BOOLEAN, delivered : BOOLEAN, failures : SUBSET Channels]

ASSUME NoRowIsNoRow == NoRow \notin Rows

VARIABLES
  row,          \* the table
  limit,        \* attempts of the notification's jobs, by its priority
  created,      \* the notifications createNotification has saved
  toQueue,      \* the channels it has still to add jobs for
  waiting,      \* Bull: jobs waiting or delayed
  ended,        \* Bull: how a job ended
  attempts,     \* Bull: attemptsMade
  stalls,       \* Bull: stalledCounter
  job,          \* the worker's job
  pc,           \* where processNotification is
  entity,       \* the entity it holds
  noted,        \* the failures in the entity it read first
  reading,      \* the entity a markAsRead call holds
  failing,      \* failures its circuit has counted, by channel
  sent,         \* history: how often a provider accepted the job's message
  answer,       \* history: what the job's latest send was answered
  faults

rowVars == <<row, reading>>
creation == <<limit, created, toQueue>>
queue == <<waiting, ended, attempts, stalls>>
local == <<entity, noted>>
worker == <<job, pc, local>>
provider == <<failing, sent, answer>>
vars == <<rowVars, creation, queue, worker, provider, faults>>

Places == {"idle", "reading", "sending", "delivered", "fallback",
           "rereading", "saving"}

TypeOK ==
  /\ row \in [Notifications -> Rows \cup {NoRow}]
  /\ limit \in [Notifications -> Limits]
  /\ created \subseteq Notifications
  /\ toQueue \in [Notifications -> SUBSET Channels]
  /\ waiting \subseteq Jobs
  /\ ended \in [Jobs -> {"no", "completed", "failed"}]
  /\ attempts \in [Jobs -> Nat]
  /\ \A j \in Jobs : attempts[j] <= limit[j[1]]
  /\ stalls \in [Jobs -> 0 .. (MaxStalls + 1)]
  /\ job \in Jobs \cup {NoJob}
  /\ pc \in Places
  /\ (job = NoJob) <=> (pc = "idle")
  /\ entity \in Rows \cup {NoRow}
  /\ noted \in SUBSET Channels
  /\ reading \in [Notifications -> Rows \cup {NoRow}]
  /\ failing \in [Channels -> 0 .. Threshold]
  /\ sent \in [Jobs -> Nat]
  /\ answer \in [Jobs -> {"none", "sent", "fallback", "refused"}]
  /\ faults \in 0 .. MaxFaults

Init ==
  /\ row = [n \in Notifications |-> NoRow]
  /\ limit \in [Notifications -> Limits]
  /\ created = {}
  /\ toQueue = [n \in Notifications |-> {}]
  /\ waiting = {}
  /\ ended = [j \in Jobs |-> "no"]
  /\ attempts = [j \in Jobs |-> 0]
  /\ stalls = [j \in Jobs |-> 0]
  /\ job = NoJob
  /\ pc = "idle"
  /\ entity = NoRow
  /\ noted = {}
  /\ reading = [n \in Notifications |-> NoRow]
  /\ failing = [c \in Channels |-> 0]
  /\ sent = [j \in Jobs |-> 0]
  /\ answer = [j \in Jobs |-> "none"]
  /\ faults = 0

(* One more error, within the bound.                                       *)
Fault == faults < MaxFaults /\ faults' = faults + 1

-----------------------------------------------------------------------------
(* createNotification.                                                     *)

(* The entity is saved for the channels of the user's preferences, of the  *)
(* request, or in-app.                                                     *)
CreateNotification(n, channels) ==
  /\ n \notin created
  /\ created' = created \cup {n}
  /\ row' = [row EXCEPT ![n] =
               [read |-> FALSE, delivered |-> FALSE, failures |-> {}]]
  /\ toQueue' = [toQueue EXCEPT ![n] = channels]
  /\ UNCHANGED <<limit, reading, queue, worker, provider, faults>>

(* addToQueue: one job per channel, one after the other.                   *)
AddToQueue(n, c) ==
  /\ c \in toQueue[n]
  /\ toQueue' = [toQueue EXCEPT ![n] = @ \ {c}]
  /\ waiting' = waiting \cup {<<n, c>>}
  /\ UNCHANGED <<limit, created, ended, attempts, stalls, rowVars, worker,
                 provider, faults>>

(* Adding a job fails: queueNotificationDelivery swallows the error and    *)
(* the remaining channels get no job.                                      *)
QueueError(n) ==
  /\ toQueue[n] # {}
  /\ Fault
  /\ toQueue' = [toQueue EXCEPT ![n] = {}]
  /\ UNCHANGED <<limit, created, rowVars, queue, worker, provider>>

-----------------------------------------------------------------------------
(* The worker: Bull fetches a job and runs processNotification.            *)

Goto(place) == pc' = place

(* The worker has no job any more; what it held is gone.                   *)
Release ==
  /\ job' = NoJob
  /\ Goto("idle")
  /\ entity' = NoRow
  /\ noted' = {}

(* processNotification returns: the job is completed, and removed.         *)
Complete ==
  /\ ended' = [ended EXCEPT ![job] = "completed"]
  /\ Release
  /\ UNCHANGED <<waiting, attempts, stalls>>

(* Whichever waiting job is due and comes first by its priority.           *)
Fetch(j) ==
  /\ job = NoJob
  /\ j \in waiting
  /\ waiting' = waiting \ {j}
  /\ job' = j
  /\ Goto("reading")
  /\ UNCHANGED <<ended, attempts, stalls, local, rowVars, creation, provider,
                 faults>>

(* getNotificationById; a notification that is gone has no delivery.       *)
GetNotification ==
  /\ pc = "reading"
  /\ \/ /\ row[job[1]] = NoRow
        /\ Complete
     \/ /\ row[job[1]] # NoRow
        /\ noted' = row[job[1]].failures
        /\ Goto("sending")
        /\ UNCHANGED <<queue, job, entity>>
  /\ UNCHANGED <<rowVars, creation, provider, faults>>

(* processNotification throws: Bull tries again after a backoff, or fails  *)
(* the job after its last attempt.                                         *)
AttemptFails ==
  /\ attempts' = [attempts EXCEPT ![job] = @ + 1]
  /\ IF attempts[job] + 1 < limit[job[1]]
       THEN waiting' = waiting \cup {job} /\ UNCHANGED ended
       ELSE ended' = [ended EXCEPT ![job] = "failed"] /\ UNCHANGED waiting
  /\ Release
  /\ UNCHANGED stalls

(* The read fails, the only error processNotification does not swallow.    *)
GetError ==
  /\ pc = "reading"
  /\ Fault
  /\ AttemptFails
  /\ UNCHANGED <<rowVars, creation, provider>>

-----------------------------------------------------------------------------
(* sendThroughChannel.                                                     *)

Answer(a) == answer' = [answer EXCEPT ![job] = a]

(* The send counts as a success: updateDeliveryStatus is next.             *)
Delivered(a) ==
  /\ Answer(a)
  /\ Goto("delivered")
  /\ UNCHANGED <<queue, job, local>>

LastAttempt == attempts[job] >= limit[job[1]] - 1

(* Mutant: attemptsMade is taken to count the present attempt.             *)
BugRefused ==
  /\ Answer("refused")
  /\ IF attempts[job] >= limit[job[1]]
       THEN Goto("fallback") /\ UNCHANGED <<queue, job, local>>
       ELSE Complete

(* Mutant: on an earlier attempt the job is put back by hand.              *)
BugRefusedPutBack ==
  /\ Answer("refused")
  /\ IF LastAttempt
       THEN Goto("fallback") /\ UNCHANGED <<queue, job, local>>
       ELSE /\ waiting' = waiting \cup {job}
            /\ Release
            /\ UNCHANGED <<ended, attempts, stalls>>

(* The send is no success.  On the last attempt handleDeliveryFailure      *)
(* follows; on an earlier one the job ends, completed and not tried again. *)
Refused ==
  /\ Answer("refused")
  /\ IF LastAttempt
       THEN Goto("fallback") /\ UNCHANGED <<queue, job, local>>
       ELSE Complete

(* In-app notifications need no sending; a disabled channel refuses.       *)
SendWithoutProvider ==
  /\ pc = "sending"
  /\ \/ job[2] = InApp /\ Delivered("sent")
     \/ job[2] \notin Enabled \cup {InApp} /\ Refused
  /\ UNCHANGED <<rowVars, creation, failing, sent, faults>>

(* The provider accepts the message.                                       *)
SendAccepted ==
  /\ pc = "sending"
  /\ job[2] \in Enabled
  /\ sent' = [sent EXCEPT ![job] = @ + 1]
  /\ Delivered("sent")
  /\ UNCHANGED <<rowVars, creation, failing, faults>>

(* The circuit of the channel counts a failure.                            *)
CountFailure(c) ==
  failing' = [failing EXCEPT ![c] = IF @ < Threshold THEN @ + 1 ELSE @]

(* The provider fails: the circuit's fallback returns an object, which     *)
(* deliverNotification takes for a success.                                *)
SendFails ==
  /\ pc = "sending"
  /\ job[2] \in Enabled
  /\ Fault
  /\ CountFailure(job[2])
  /\ Delivered("fallback")
  /\ UNCHANGED <<rowVars, creation, sent>>

(* The circuit turns the call away: with the same object while it is OPEN, *)
(* with null when it becomes HALF_OPEN.  Once it has counted its failures  *)
(* it may be in any state: CircuitBreaker says when it is in which.        *)
SendTurnedAway ==
  /\ pc = "sending"
  /\ job[2] \in Enabled
  /\ failing[job[2]] = Threshold
  /\ Delivered("fallback") \/ Refused
  /\ UNCHANGED <<rowVars, creation, failing, sent, faults>>

(* A send for another user fails: the circuits are everybody's.            *)
OtherSendFails(c) ==
  /\ c \in Enabled
  /\ Fault
  /\ CountFailure(c)
  /\ UNCHANGED <<rowVars, creation, queue, worker, sent, answer>>

-----------------------------------------------------------------------------
(* What follows the send.                                                  *)

(* After updateDeliveryStatus the job is done, or the failure is noted.    *)
AfterUpdate ==
  \/ pc = "delivered" /\ Complete
  \/ pc = "fallback" /\ Goto("rereading") /\ UNCHANGED <<queue, job, local>>

(* updateDeliveryStatus, for the job's channel or for the in-app fallback: *)
(* the two columns of the row, if there is one.                            *)
UpdateDeliveryStatus ==
  /\ pc \in {"delivered", "fallback"}
  /\ row' = [row EXCEPT ![job[1]] =
               IF @ = NoRow THEN NoRow ELSE [@ EXCEPT !.delivered = TRUE]]
  /\ AfterUpdate
  /\ UNCHANGED <<reading, creation, provider, faults>>

(* Mutant: the error is thrown on and the job is tried again.              *)
BugUpdateError ==
  /\ pc \in {"delivered", "fallback"}
  /\ Fault
  /\ AttemptFails
  /\ UNCHANGED <<rowVars, creation, provider>>

(* The update fails; updateDeliveryStatus swallows the error.              *)
UpdateError ==
  /\ pc \in {"delivered", "fallback"}
  /\ Fault
  /\ AfterUpdate
  /\ UNCHANGED <<rowVars, creation, provider>>

(* updateNotificationMetadata reads the notification again; one that is    *)
(* gone makes it throw, which handleDeliveryFailure swallows.              *)
GetForMetadata ==
  /\ pc = "rereading"
  /\ \/ row[job[1]] = NoRow /\ Complete
     \/ /\ row[job[1]] # NoRow
        /\ entity' = row[job[1]]
        /\ Goto("saving")
        /\ UNCHANGED <<queue, job, noted>>
  /\ UNCHANGED <<rowVars, creation, provider, faults>>

(* Mutant: the failure is recorded under the channel fallen back to.       *)
BugSaveMetadata ==
  /\ pc = "saving"
  /\ row' = [row EXCEPT ![job[1]] =
               [entity EXCEPT !.failures = noted \cup {InApp}]]
  /\ Complete
  /\ UNCHANGED <<reading, creation, provider, faults>>

(* The entity is saved, inserted again if it was deleted; deliveryFailures *)
(* are those of the first read and the job's channel.                      *)
SaveMetadata ==
  /\ pc = "saving"
  /\ row' = [row EXCEPT ![job[1]] =
               [entity EXCEPT !.failures = noted \cup {job[2]}]]
  /\ Complete
  /\ UNCHANGED <<reading, creation, provider, faults>>

(* Either statement fails; handleDeliveryFailure swallows the error.       *)
MetadataError ==
  /\ pc \in {"rereading", "saving"}
  /\ Fault
  /\ Complete
  /\ UNCHANGED <<rowVars, creation, provider>>

-----------------------------------------------------------------------------
(* The user.                                                               *)

(* markAsRead reads the notification.                                      *)
FindForRead(n) ==
  /\ row[n] # NoRow
  /\ reading[n] = NoRow
  /\ reading' = [reading EXCEPT ![n] = row[n]]
  /\ UNCHANGED <<row, creation, queue, worker, provider, faults>>

(* ... and saves the entity, inserted again if it was deleted.             *)
SaveAsRead(n) ==
  /\ reading[n] # NoRow
  /\ row' = [row EXCEPT ![n] = [reading[n] EXCEPT !.read = TRUE]]
  /\ reading' = [reading EXCEPT ![n] = NoRow]
  /\ UNCHANGED <<creation, queue, worker, provider, faults>>

(* The save fails and the caller is told.                                  *)
ReadError(n) ==
  /\ reading[n] # NoRow
  /\ Fault
  /\ reading' = [reading EXCEPT ![n] = NoRow]
  /\ UNCHANGED <<row, creation, queue, worker, provider>>

(* markAllAsRead is one UPDATE.                                            *)
MarkAllAsRead ==
  /\ row' = [n \in Notifications |->
               IF row[n] = NoRow THEN NoRow ELSE [row[n] EXCEPT !.read = TRUE]]
  /\ UNCHANGED <<reading, creation, queue, worker, provider, faults>>

(* deleteNotification is one DELETE.                                       *)
DeleteNotification(n) ==
  /\ row[n] # NoRow
  /\ row' = [row EXCEPT ![n] = NoRow]
  /\ UNCHANGED <<reading, creation, queue, worker, provider, faults>>

-----------------------------------------------------------------------------
(* The process stops and starts again: calls in progress and the circuits  *)
(* are gone.  Bull finds the worker's job stalled and hands it out again,  *)
(* MaxStalls times.                                                        *)
Restart ==
  /\ Fault
  /\ toQueue' = [n \in Notifications |-> {}]
  /\ reading' = [n \in Notifications |-> NoRow]
  /\ failing' = [c \in Channels |-> 0]
  /\ Release
  /\ IF job = NoJob
       THEN UNCHANGED <<waiting, ended, stalls>>
       ELSE /\ stalls' = [stalls EXCEPT ![job] = @ + 1]
            /\ IF stalls[job] < MaxStalls
                 THEN waiting' = waiting \cup {job} /\ UNCHANGED ended
                 ELSE /\ ended' = [ended EXCEPT ![job] = "failed"]
                      /\ UNCHANGED waiting
  /\ UNCHANGED <<row, limit, created, attempts, sent, answer>>

Work ==
  \/ \E j \in Jobs : Fetch(j)
  \/ GetNotification
  \/ GetError
  \/ SendWithoutProvider
  \/ SendAccepted
  \/ SendFails
  \/ SendTurnedAway
  \/ UpdateDeliveryStatus
  \/ UpdateError
  \/ GetForMetadata
  \/ SaveMetadata
  \/ MetadataError

UserActs ==
  \/ \E n \in Notifications :
       \/ FindForRead(n)
       \/ SaveAsRead(n)
       \/ ReadError(n)
       \/ DeleteNotification(n)
  \/ MarkAllAsRead

Next ==
  \/ \E n \in Notifications, channels \in SUBSET Channels :
       CreateNotification(n, channels)
  \/ \E n \in Notifications, c \in Channels : AddToQueue(n, c)
  \/ \E n \in Notifications : QueueError(n)
  \/ Work
  \/ \E c \in Channels : OtherSendFails(c)
  \/ UserActs
  \/ Restart

Spec == Init /\ [][Next]_vars

(* A worker that has, or could fetch, a job goes on; Bull's retry delays   *)
(* and its search for stalled jobs end.                                    *)
FairSpec == Spec /\ WF_vars(Work)
-----------------------------------------------------------------------------
(* Properties.                                                             *)

(* A provider accepts a job's message once, and once more only for each    *)
(* time the process died with the job in hand: neither retries nor errors  *)
(* after the send make the user get it twice.                              *)
SentOncePerRun == \A j \in Jobs : sent[j] <= 1 + stalls[j]

(* What a row says of failures did happen, whichever stale entities were   *)
(* saved over it: a channel is named only if its send was refused, or was  *)
(* in a run the process did not survive.                                   *)
FailuresHappened ==
  \A n \in Notifications : row[n] # NoRow =>
    \A c \in row[n].failures :
      answer[<<n, c>>] = "refused" \/ stalls[<<n, c>>] > 0

(* A job whose send was refused on its last attempt does not end before    *)
(* the failure is recorded, unless its notification is gone or the         *)
(* database fails.                                                         *)
FallbackOnLastAttempt ==
  [][\A j \in Jobs :
       (/\ ended'[j] = "completed" /\ ended[j] # "completed"
        /\ answer'[j] = "refused"
        /\ attempts[j] = limit[j[1]] - 1
        /\ faults' = faults)
         => row'[j[1]] = NoRow \/ j[2] \in row'[j[1]].failures]_vars

(* Every job that is queued ends, whatever fails and whatever its user     *)
(* does to the notification meanwhile.                                     *)
JobsEnd == \A j \in Jobs : j \in waiting ~> ended[j] # "no"
=============================================================================
