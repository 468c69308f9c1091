------------------------------- MODULE Tracking -------------------------------
(***************************************************************************)
(* Driver locations (src/modules/tracking): reports arrive over the socket *)
(* or by HTTP, the newest of each driver is kept in memory, all are        *)
(* batched and each batch is added to a Bull queue; HTTP reports are also  *)
(* saved directly.  The queue's worker is not among the module's           *)
(* providers (tracking.module.ts:50), so nothing takes jobs from it.       *)
(*                                                                         *)
(* A report is its arrival number; a step is a stretch between two awaits. *)
(* findActiveOrderByDriverId only decides whom the report is sent on to    *)
(* and appears here as an await that may fail.                             *)
(***************************************************************************)
EXTENDS Naturals, Sequences, FiniteSets

CONSTANTS
    Drivers,
    BatchSize,   \* LOCATION_BATCH_SIZE (100)
    MaxReports,  \* bound: reports that arrive
    MaxFaults    \* bound: failures and restarts

ASSUME TrackingAssumption ==
    BatchSize \in Nat \ {0} /\ MaxReports \in Nat /\ MaxFaults \in Nat

Reports == 1..MaxReports

VARIABLES
    arrived,   \* sequence of the reports so far: their driver and their route
    place,     \* [Reports -> where its handler is]
    memory,    \* [Drivers -> report, or 0]: inMemoryLocations
    batch,     \* sequence of reports: locationBatch
    pushing,   \* set of batches on their way to the queue
    jobs,      \* set of batches in the queue
    rows,      \* sequence of reports: driver_locations by timestamp
    faults,    \* faults so far
    lost       \* history: reports that died with a process

vars == <<arrived, place, memory, batch, pushing, jobs, rows, faults, lost>>

Routes == {"socket", "http"}
Elements(s) == {s[i] : i \in 1..Len(s)}
In(batches) == UNION {Elements(b) : b \in batches}
DriverOf(r) == arrived[r].driver

Init ==
    /\ arrived = <<>>
    /\ place = [r \in Reports |-> "ahead"]
    /\ memory = [d \in Drivers |-> 0]
    /\ batch = <<>>
    /\ pushing = {}
    /\ jobs = {}
    /\ rows = <<>>
    /\ faults = 0
    /\ lost = {}

-----------------------------------------------------------------------------

\* processBatch empties the batch before it awaits the queue.
Flush(b) ==
    /\ batch' = <<>>
    /\ pushing' = pushing \cup {b}

Keep(b) ==
    /\ batch' = b
    /\ UNCHANGED pushing

\* Mutant: a location that is still valid is kept.
BugUpdateInMemoryLocation(d, r) ==
    memory' = [memory EXCEPT ![d] = IF @ = 0 THEN r ELSE @]

\* updateInMemoryLocation: the last report to arrive wins.
UpdateInMemoryLocation(d, r) == memory' = [memory EXCEPT ![d] = r]

\* addToBatch: a full batch is processed at once.
AddToBatch(r) ==
    LET b == Append(batch, r) IN
    IF Len(b) >= BatchSize THEN Flush(b) ELSE Keep(b)

\* processLocationUpdate up to its await.  A report that names its order is
\* sent on without one, and the socket's handler is then done.
ProcessLocationUpdate(d, route, named) ==
    LET r == Len(arrived) + 1 IN
    /\ r \in Reports
    /\ arrived' = Append(arrived, [driver |-> d, route |-> route])
    /\ UpdateInMemoryLocation(d, r)
    /\ AddToBatch(r)
    /\ place' = [place EXCEPT ![r] = CASE ~ named -> "lookup"
                                       [] route = "http" -> "save"
                                       [] OTHER -> "accepted"]
    /\ UNCHANGED <<jobs, rows, faults, lost>>

\* findActiveOrderByDriverId has answered.
Looked(r) ==
    /\ place[r] = "lookup"
    /\ place' = [place EXCEPT ![r] = IF arrived[r].route = "http" THEN "save" ELSE "accepted"]
    /\ UNCHANGED <<arrived, memory, batch, pushing, jobs, rows, faults, lost>>

\* saveLocation: a row with the database's time.
SaveLocation(r) ==
    /\ place[r] = "save"
    /\ rows' = Append(rows, r)
    /\ place' = [place EXCEPT ![r] = "accepted"]
    /\ UNCHANGED <<arrived, memory, batch, pushing, jobs, faults, lost>>

\* The lookup or the insert fails: the sender is told so.
HandlerFails(r) ==
    /\ faults < MaxFaults /\ faults' = faults + 1
    /\ place[r] \in {"lookup", "save"}
    /\ place' = [place EXCEPT ![r] = "refused"]
    /\ UNCHANGED <<arrived, memory, batch, pushing, jobs, rows, lost>>

\* Mutant: the timer processes only full batches.
BugProcessBatch ==
    /\ Len(batch) >= BatchSize
    /\ Flush(batch)
    /\ UNCHANGED <<arrived, place, memory, jobs, rows, faults, lost>>

\* The timer of startBatchProcessing.
ProcessBatch ==
    /\ batch # <<>>
    /\ Flush(batch)
    /\ UNCHANGED <<arrived, place, memory, jobs, rows, faults, lost>>

\* queueLocationBatch succeeds.
Queued(b) ==
    /\ b \in pushing
    /\ pushing' = pushing \ {b}
    /\ jobs' = jobs \cup {b}
    /\ UNCHANGED <<arrived, place, memory, batch, rows, faults, lost>>

\* Mutant: a batch that could not be queued is dropped.
BugQueueFails(b) ==
    /\ faults < MaxFaults /\ faults' = faults + 1
    /\ b \in pushing
    /\ pushing' = pushing \ {b}
    /\ UNCHANGED <<arrived, place, memory, batch, jobs, rows, lost>>

\* It fails, before or after Redis has stored the job: the batch is put back
\* in front.
QueueFails(b) ==
    /\ faults < MaxFaults /\ faults' = faults + 1
    /\ b \in pushing
    /\ pushing' = pushing \ {b}
    /\ batch' = b \o batch
    /\ jobs' = jobs \/ jobs' = jobs \cup {b}
    /\ UNCHANGED <<arrived, place, memory, rows, lost>>

\* getDriverLocation drops a location whose time has passed; the next answer
\* comes from the database.
Expire(d) ==
    /\ memory[d] # 0
    /\ memory' = [memory EXCEPT ![d] = 0]
    /\ UNCHANGED <<arrived, place, batch, pushing, jobs, rows, faults, lost>>

\* The process ends.  onModuleDestroy starts a last processBatch and waits for
\* nothing; a crash does not even do that.  Any part of what was on its way may
\* still reach the queue.
Restart ==
    /\ faults < MaxFaults /\ faults' = faults + 1
    /\ \E saved \in SUBSET (pushing \cup {batch}) :
          /\ jobs' = jobs \cup (saved \ {<<>>})
          /\ lost' = lost \cup ((In(pushing) \cup Elements(batch)) \ In(saved))
    /\ memory' = [d \in Drivers |-> 0]
    /\ batch' = <<>>
    /\ pushing' = {}
    /\ place' = [r \in Reports |-> IF place[r] \in {"lookup", "save"} THEN "refused"
                                   ELSE place[r]]
    /\ UNCHANGED <<arrived, rows>>

Next ==
    \/ \E d \in Drivers, route \in Routes, named \in BOOLEAN :
          ProcessLocationUpdate(d, route, named)
    \/ \E r \in Reports : Looked(r) \/ SaveLocation(r) \/ HandlerFails(r)
    \/ ProcessBatch
    \/ \E b \in pushing : Queued(b) \/ QueueFails(b)
    \/ \E d \in Drivers : Expire(d)
    \/ Restart

Spec == Init /\ [][Next]_vars

\* The timer fires, Redis answers, and handlers proceed.
FairSpec ==
    /\ Spec
    /\ WF_vars(ProcessBatch)
    /\ WF_vars(\E b \in pushing : Queued(b))
    /\ \A r \in Reports : WF_vars(Looked(r) \/ SaveLocation(r))

-----------------------------------------------------------------------------
(* Properties *)

\* Every variable has its type; reports wait only once they have arrived.
TypeOK ==
    /\ arrived \in Seq([driver : Drivers, route : Routes])
    /\ Len(arrived) <= MaxReports
    /\ place \in [Reports -> {"ahead", "lookup", "save", "accepted", "refused"}]
    /\ \A r \in Reports : place[r] = "ahead" <=> r > Len(arrived)
    /\ memory \in [Drivers -> 0..MaxReports]
    /\ batch \in Seq(Reports)
    /\ pushing \subseteq Seq(Reports)
    /\ jobs \subseteq Seq(Reports)
    /\ rows \in Seq(Reports)
    /\ faults \in 0..MaxFaults
    /\ lost \subseteq Reports

\* No report that has arrived is forgotten while the process lives, whichever
\* of the timer and the full batch takes it and however often the queue fails,
\* and also if its sender was told that it failed: it is in the batch, on its
\* way to the queue, in it, or was lost with a process.
NothingForgotten ==
    1..Len(arrived) \subseteq Elements(batch) \cup In(pushing) \cup In(jobs) \cup lost

\* A driver's location in memory, which getDriverLocation prefers, arrived no
\* earlier than any stored one: going to the database instead would not show
\* a newer position.
MemoryAheadOfRows ==
    \A r \in Elements(rows) :
        memory[DriverOf(r)] # 0 => r <= memory[DriverOf(r)]

\* What arrives ends up in the queue, unless the process dies with it.
EventuallyQueued ==
    \A r \in Reports : place[r] # "ahead" ~> r \in In(jobs) \cup lost

=============================================================================
