------------------------------- MODULE Failover -------------------------------
(***************************************************************************)
(* Disaster recovery (src/modules/backup/disaster-recovery.service.ts):    *)
(* the health check that runs every minute, and the failovers it or an     *)
(* operator begins.  Nothing keeps a health check or a failover from       *)
(* beginning while others run, and the service remembers only the failover *)
(* begun last.                                                             *)
(*                                                                         *)
(* All queries of the service go to its one data source, the primary that  *)
(* a failover is about to replace: a primary that is down answers none of  *)
(* them, and the lag it reports says nothing of the secondary, for which   *)
(* pg_last_xact_replay_timestamp() would have to be asked there: a server  *)
(* that replays nothing answers NULL, which the code takes for 0 (:454).   *)
(* So what the secondary holds is a state of its own (behind), which the   *)
(* failovers never see.  pg_promote() and pg_ctl may answer or fail, and   *)
(* the first stops no writes either way.  updateTrafficRouting is a        *)
(* placeholder that pauses and cannot fail, and the secondary always       *)
(* counts as healthy (:470).                                               *)
(***************************************************************************)
EXTENDS Naturals

CONSTANTS
    Failovers,   \* bound: the failovers that may begin
    Checks,      \* health checks that run at the same time
    Nobody,      \* no failover has begun
    MaxLooks     \* looks at the lag before waitForReplicationSync gives up

ASSUME FailoverAssumption == MaxLooks \in Nat \ {0} /\ Nobody \notin Failovers

VARIABLES
    status,   \* [Failovers -> FailoverStatus.status, or "none"]
    pc,       \* [Failovers -> the step it awaits]
    looks,    \* [Failovers -> looks at the lag so far]
    current,  \* currentFailover
    check,    \* [Checks -> "idle" or "metrics": awaits the metrics]
    primary,  \* "up" or "down"
    behind,   \* the secondary lacks a write of the primary
    promoted  \* [Failovers -> history: what it promoted: nothing ("no"), a
              \* secondary that had every write ("whole"), or one that had not]

servers == <<primary, behind>>
vars == <<status, pc, looks, current, check, servers, promoted>>

Init ==
    /\ status = [f \in Failovers |-> "none"]
    /\ pc = [f \in Failovers |-> "none"]
    /\ looks = [f \in Failovers |-> 0]
    /\ current = Nobody
    /\ check = [c \in Checks |-> "idle"]
    /\ primary = "up"
    /\ behind = FALSE
    /\ promoted = [f \in Failovers |-> "no"]

-----------------------------------------------------------------------------

\* getReplicationLag: less than a second, up to the threshold, or more; a
\* failing query counts as more.  It is no function of behind.
Lags == {"none", "some", "much"}
LagsNow == IF primary = "up" THEN Lags ELSE {"much"}

\* initiateFailover, up to its first await.
Begin(f) ==
    /\ status[f] = "none"
    /\ status' = [status EXCEPT ![f] = "pending"]
    /\ pc' = [pc EXCEPT ![f] = "validate"]
    /\ current' = f
    /\ UNCHANGED <<looks, servers, promoted>>

\* An operator asks for a failover.
Manual == \E f \in Failovers : Begin(f) /\ UNCHANGED check

Monitor(c) ==
    /\ check[c] = "idle"
    /\ check' = [check EXCEPT ![c] = "metrics"]
    /\ UNCHANGED <<status, pc, looks, current, servers, promoted>>

InFailover == current # Nobody /\ status[current] = "in_progress"

\* shouldTriggerFailover.
ShouldTrigger(primaryHealthy, lag) ==
    ~ InFailover /\ (~ primaryHealthy \/ lag = "much")

\* The metrics have come; a check whose metrics fail does nothing.  They were
\* read one by one while the servers went on, so any values may have met.
Decide(c) ==
    /\ check[c] = "metrics"
    /\ check' = [check EXCEPT ![c] = "idle"]
    /\ \E primaryHealthy \in BOOLEAN, lag \in Lags :
          IF ShouldTrigger(primaryHealthy, lag)
          THEN \E f \in Failovers : Begin(f)
          ELSE UNCHANGED <<status, pc, looks, current, servers, promoted>>

-----------------------------------------------------------------------------

Goto(f, where) == pc' = [pc EXCEPT ![f] = where]

\* A step throws: the status, and the traffic goes back.
Throw(f) ==
    /\ status' = [status EXCEPT ![f] = "failed"]
    /\ Goto(f, "rollback")
    /\ UNCHANGED <<looks, promoted>>

\* A step succeeds and the next one begins.
Pass(f, where) == Goto(f, where) /\ UNCHANGED <<status, looks, promoted>>

\* validateSecondarySystem: it asks the primary for the lag; the status changes
\* with the next step.
Validate(f) ==
    /\ pc[f] = "validate"
    /\ \E lag \in LagsNow :
          \/ /\ lag # "much"
             /\ status' = [status EXCEPT ![f] = "in_progress"]
             /\ Goto(f, "stop")
             /\ UNCHANGED <<looks, promoted>>
          \/ lag = "much" /\ Throw(f)

\* The query is SELECT pg_promote(): the primary goes on writing.
StopPrimaryWrites(f) ==
    /\ pc[f] = "stop"
    /\ \/ primary = "up" /\ Pass(f, "wait")
       \/ Throw(f)

TimedOut(f) == looks[f] = MaxLooks

\* Mutant: when the time is over the clock is started anew.
BugLookAtLag(f, lag) ==
    /\ IF lag = "none" THEN Goto(f, "promote") ELSE UNCHANGED pc
    /\ looks' = [looks EXCEPT ![f] = IF TimedOut(f) THEN 0 ELSE @ + 1]
    /\ UNCHANGED <<status, promoted>>

\* One round of waitForReplicationSync.
LookAtLag(f, lag) ==
    /\ ~ TimedOut(f)
    /\ IF lag = "none" THEN Goto(f, "promote") ELSE UNCHANGED pc
    /\ looks' = [looks EXCEPT ![f] = @ + 1]
    /\ UNCHANGED <<status, promoted>>

WaitForReplicationSync(f) ==
    /\ pc[f] = "wait"
    /\ \/ \E lag \in LagsNow : LookAtLag(f, lag)
       \/ TimedOut(f) /\ Throw(f)

PromoteSecondary(f) ==
    /\ pc[f] = "promote"
    /\ \/ /\ promoted' = [promoted EXCEPT ![f] = IF behind THEN "lacking" ELSE "whole"]
          /\ Goto(f, "route")
          /\ UNCHANGED <<status, looks>>
       \/ Throw(f)

UpdateTrafficRouting(f) == pc[f] = "route" /\ Pass(f, "verify")

\* The queries of the verification, too, go to the old primary.
VerifyNewPrimary(f) ==
    /\ pc[f] = "verify"
    /\ \/ /\ primary = "up"
          /\ status' = [status EXCEPT ![f] = "completed"]
          /\ Goto(f, "done")
          /\ UNCHANGED <<looks, promoted>>
       \/ Throw(f)

\* rollbackFailover only routes the traffic, and cannot fail.
Rollback(f) ==
    /\ pc[f] = "rollback"
    /\ status' = [status EXCEPT ![f] = "rolled_back"]
    /\ Goto(f, "done")
    /\ UNCHANGED <<looks, promoted>>

Proceed(f) ==
    /\ \/ Validate(f) \/ StopPrimaryWrites(f) \/ WaitForReplicationSync(f)
       \/ PromoteSecondary(f) \/ UpdateTrafficRouting(f) \/ VerifyNewPrimary(f)
       \/ Rollback(f)
    /\ UNCHANGED <<current, check, servers>>

-----------------------------------------------------------------------------
(* The servers *)

\* The primary takes a write, whatever failovers run; the secondary receives
\* what it lacks, until it is promoted; the primary goes down and comes back.
Write == primary = "up" /\ behind' = TRUE /\ UNCHANGED primary

Replicate ==
    /\ primary = "up" /\ \A f \in Failovers : promoted[f] = "no"
    /\ behind' = FALSE /\ UNCHANGED primary

PrimaryChanges ==
    /\ primary' = IF primary = "up" THEN "down" ELSE "up"
    /\ UNCHANGED behind

Servers ==
    /\ Write \/ Replicate \/ PrimaryChanges
    /\ UNCHANGED <<status, pc, looks, current, check, promoted>>

Next ==
    \/ Manual
    \/ \E c \in Checks : Monitor(c) \/ Decide(c)
    \/ \E f \in Failovers : Proceed(f)
    \/ Servers

Spec == Init /\ [][Next]_vars

\* A failover under way goes on: every query and command of it answers or
\* fails, and its pauses end.
FairSpec == Spec /\ \A f \in Failovers : WF_vars(Proceed(f))

-----------------------------------------------------------------------------
(* Properties *)

Under == {"stop", "wait", "promote", "route", "verify"}

\* Every variable has its type; a failover's status and what it has promoted
\* follow its steps.
TypeOK ==
    /\ status \in [Failovers -> {"none", "pending", "in_progress", "failed",
                                 "completed", "rolled_back"}]
    /\ pc \in [Failovers -> Under \cup {"none", "validate", "rollback", "done"}]
    /\ promoted \in [Failovers -> {"no", "whole", "lacking"}]
    /\ \A f \in Failovers :
          /\ status[f] = "none" <=> pc[f] = "none"
          /\ status[f] = "pending" <=> pc[f] = "validate"
          /\ status[f] = "in_progress" <=> pc[f] \in Under
          /\ status[f] = "failed" <=> pc[f] = "rollback"
          /\ pc[f] \in {"none", "validate", "stop", "wait", "promote"} => promoted[f] = "no"
          /\ pc[f] \in {"route", "verify"} \/ status[f] = "completed" => promoted[f] # "no"
    /\ looks \in [Failovers -> 0..MaxLooks]
    /\ current \in Failovers \cup {Nobody}
    /\ check \in [Checks -> {"idle", "metrics"}]
    /\ primary \in {"up", "down"}
    /\ behind \in BOOLEAN

\* Every failover ends, completed or rolled back, also when the secondary never
\* catches up.
FailoversEnd ==
    \A f \in Failovers :
        status[f] = "pending" ~> status[f] \in {"completed", "rolled_back"}

-----------------------------------------------------------------------------
(* What the comments of the code say of it, and it does not do *)

\* "Step 2: Stop writes to primary", "Step 3: Ensure replication is caught up":
\* no failover promotes a secondary that lacks a write of the primary.  The
\* writes go on, and the lag that was read is not the secondary's.
PromotedWhole == \A f \in Failovers : promoted[f] # "lacking"

\* "Don't trigger if already in failover": a health check begins no failover
\* while one that has begun has not ended.  The code looks only at the failover
\* begun last, and passes over it while it is pending.
OneAutomaticFailover ==
    [][\A c \in Checks :
          check[c] = "metrics" /\ check'[c] = "idle" /\ current' # current
          => \A f \in Failovers : status[f] \notin {"pending", "in_progress"}]_vars

\* "Reverse the failover steps": when a failover is rolled back the secondary is
\* no second primary.  The rollback only routes the traffic.
RolledBackIsReversed ==
    \A f \in Failovers : status[f] = "rolled_back" => promoted[f] = "no"

\* "Trigger if primary is unhealthy and secondary is healthy", "Validating
\* secondary system readiness": the validation refuses only a secondary that
\* lacks something.  It asks the primary for the lag, so a primary that is down
\* has every failover refused.
ValidationJudgesTheSecondary ==
    [][\A f \in Failovers : pc[f] = "validate" /\ pc'[f] = "rollback" => behind]_vars

=============================================================================
