------------------------------- MODULE Backups -------------------------------
(***************************************************************************)
(* Database backups (src/modules/backup/backup.service.ts): full,          *)
(* incremental and transaction log backups, their catalogue of metadata    *)
(* files, and the cleanup of old ones.  Cron jobs and the controller's     *)
(* endpoints start jobs that nothing keeps apart: they interleave at every *)
(* await on the directory they share.                                      *)
(*                                                                         *)
(* A backup is a dump file and an entry of the catalogue; backups are      *)
(* numbered in the order their jobs start.  Sizes, checksums, the rpo and  *)
(* rto estimates and the upload (a log line) are left out, and so is       *)
(* restoreFromBackup, whose plan is empty and does nothing.                *)
(***************************************************************************)
EXTENDS Naturals, Sequences, FiniteSets

CONSTANTS
    MaxBackups,  \* bound: backup jobs started
    Cleaners,    \* cleanups that may overlap: the cron job, the endpoint
    Daily,       \* the one of them the cron job starts
    Verifying,   \* verificationEnabled (TRUE by default)
    MaxFaults    \* bound: failing commands, failing writes, crashes

ASSUME BackupsAssumption ==
    /\ MaxBackups \in Nat /\ MaxFaults \in Nat
    /\ Daily \in Cleaners /\ Verifying \in BOOLEAN
    /\ Cleaners \cap Nat = {}

Backups == 1..MaxBackups
Readers == Backups \cup Cleaners

VARIABLES
    kind,    \* [Backups -> type of the backup]
    file,    \* [Backups -> what the dump file holds]
    entry,   \* [Backups -> what the metadata file holds]
    at,      \* [Readers -> where the job is]
    unread,  \* [Readers -> backups listed, entry not read yet]
    seen,    \* [Readers -> backups whose entry was read]
    cutoff,  \* [Cleaners -> the backups its cutoff date leaves behind, while it reads]
    stamps,  \* sequence of the recorded backups, by timestamp
    aged,    \* how many of them are past retentionDays
    faults   \* faults so far

backupsVars == <<kind, file, entry, at, unread, seen, cutoff, stamps, aged, faults>>
data == <<kind, file, entry, stamps>>
lists == <<unread, seen>>

Kinds == {"full", "incremental", "transaction_log"}
Readable(x) == entry[x] \in {"completed", "verified", "failed"}
Listed == {x \in Backups : entry[x] # "none"}
Past(n) == {stamps[i] : i \in 1..n}
Old == Past(aged)

BackupsInit ==
    /\ kind = [b \in Backups |-> "none"]
    /\ file = [b \in Backups |-> "none"]
    /\ entry = [b \in Backups |-> "none"]
    /\ at = [r \in Readers |-> "idle"]
    /\ unread = [r \in Readers |-> {}]
    /\ seen = [r \in Readers |-> {}]
    /\ cutoff = [c \in Cleaners |-> 0]
    /\ stamps = <<>>
    /\ aged = 0
    /\ faults = 0

-----------------------------------------------------------------------------
(* Reading the catalogue *)

\* readdir, then one entry after the other.
List(r) ==
    /\ unread' = [unread EXCEPT ![r] = Listed]
    /\ seen' = [seen EXCEPT ![r] = {}]

\* An entry that is gone or half written makes the whole listing fail, which
\* getLastBackup and getAllBackups answer with nothing.
ReadEntry(r, x) ==
    /\ at[r] \in {"looking", "listing"}
    /\ x \in unread[r]
    /\ IF Readable(x)
       THEN /\ unread' = [unread EXCEPT ![r] = @ \ {x}]
            /\ seen' = [seen EXCEPT ![r] = @ \cup {x}]
       ELSE /\ unread' = [unread EXCEPT ![r] = {}]
            /\ seen' = [seen EXCEPT ![r] = {}]
    /\ UNCHANGED <<data, at, cutoff, aged, faults>>

-----------------------------------------------------------------------------
(* Backup jobs *)

StartsNext(b) == at[b] = "idle" /\ \A a \in 1..(b - 1) : at[a] # "idle"

Dumping(b, k) ==
    /\ at' = [at EXCEPT ![b] = "dumping"]
    /\ kind' = [kind EXCEPT ![b] = k]
    /\ file' = [file EXCEPT ![b] = "partial"]

\* performFullBackup and performTransactionLogBackup start their command.
PerformBackup(b, k) ==
    /\ StartsNext(b)
    /\ k \in {"full", "transaction_log"}
    /\ Dumping(b, k)
    /\ UNCHANGED <<entry, stamps, lists, cutoff, aged, faults>>

\* performIncrementalBackup asks for the last full backup.
PerformIncrementalBackup(b) ==
    /\ StartsNext(b)
    /\ at' = [at EXCEPT ![b] = "looking"]
    /\ List(b)
    /\ UNCHANGED <<data, cutoff, aged, faults>>

\* Mutant: a missing full backup goes unnoticed.
BugLooked(b) ==
    /\ at[b] = "looking" /\ unread[b] = {}
    /\ Dumping(b, "incremental")
    /\ seen' = [seen EXCEPT ![b] = {}]
    /\ UNCHANGED <<entry, stamps, unread, cutoff, aged, faults>>

\* Without one it becomes a full backup, under an id of its own.
Looked(b) ==
    /\ at[b] = "looking" /\ unread[b] = {}
    /\ Dumping(b, IF \E x \in seen[b] : kind[x] = "full" THEN "incremental" ELSE "full")
    /\ seen' = [seen EXCEPT ![b] = {}]
    /\ UNCHANGED <<entry, stamps, unread, cutoff, aged, faults>>

\* The command is done: pg_dump has written its file.
Dumped(b) ==
    /\ at[b] = "dumping"
    /\ file' = [file EXCEPT ![b] = "whole"]
    /\ at' = [at EXCEPT ![b] = "measuring"]
    /\ UNCHANGED <<kind, entry, stamps, lists, cutoff, aged, faults>>

\* writeFile truncates the entry before it writes.
Writing(b, next) ==
    /\ entry' = [entry EXCEPT ![b] = "torn"]
    /\ at' = [at EXCEPT ![b] = next]

\* Mutant: the backup is recorded while its command still runs.
BugMeasured(b) ==
    /\ at[b] = "dumping"
    /\ stamps' = Append(stamps, b)
    /\ Writing(b, "saving")
    /\ UNCHANGED <<kind, file, lists, cutoff, aged, faults>>

\* stat and checksum are in; the metadata gets its timestamp and
\* saveBackupMetadata starts.
Measured(b) ==
    /\ at[b] = "measuring"
    /\ stamps' = Append(stamps, b)
    /\ Writing(b, "saving")
    /\ UNCHANGED <<kind, file, lists, cutoff, aged, faults>>

\* The entry is written; verifyBackup follows for SQL backups.
Saved(b) ==
    /\ at[b] = "saving"
    /\ entry' = [entry EXCEPT ![b] = "completed"]
    /\ at' = [at EXCEPT ![b] = IF Verifying /\ kind[b] # "transaction_log" THEN "verifying"
                               ELSE "over"]
    /\ UNCHANGED <<kind, file, stamps, lists, cutoff, aged, faults>>

\* verifyBackup: the file must be there, and its text must hold a statement,
\* which a compressed dump's does not.
VerifyBackup(b, plain) ==
    /\ at[b] = "verifying"
    /\ Writing(b, IF file[b] = "whole" /\ plain THEN "passing" ELSE "failing")
    /\ UNCHANGED <<kind, file, stamps, lists, cutoff, aged, faults>>

Judged(b) ==
    /\ at[b] \in {"passing", "failing"}
    /\ entry' = [entry EXCEPT ![b] = IF at[b] = "passing" THEN "verified" ELSE "failed"]
    /\ at' = [at EXCEPT ![b] = "over"]
    /\ UNCHANGED <<kind, file, stamps, lists, cutoff, aged, faults>>

\* A command or a write fails and the job gives up, leaving what there is of
\* its files; only an entry that should have said "verified" is tried again.
JobFails(b) ==
    /\ faults < MaxFaults /\ faults' = faults + 1
    /\ at[b] \in {"dumping", "measuring", "saving", "passing", "failing"}
    /\ at' = [at EXCEPT ![b] = IF at[b] = "passing" THEN "failing" ELSE "over"]
    /\ UNCHANGED <<data, lists, cutoff, aged>>

-----------------------------------------------------------------------------
(* Cleanup *)

\* cleanupOldBackups fixes its cutoff date and lists the catalogue.
CleanupOldBackups(c) ==
    /\ at[c] = "idle"
    /\ at' = [at EXCEPT ![c] = "listing"]
    /\ cutoff' = [cutoff EXCEPT ![c] = aged]
    /\ List(c)
    /\ UNCHANGED <<data, aged, faults>>

\* getBackupsOlderThan.
OldOnes(c) ==
    /\ at[c] = "listing" /\ unread[c] = {}
    /\ at' = [at EXCEPT ![c] = "deleting"]
    /\ seen' = [seen EXCEPT ![c] = @ \cap Past(cutoff[c])]
    /\ cutoff' = [cutoff EXCEPT ![c] = 0]
    /\ UNCHANGED <<data, unread, aged, faults>>

\* The newest of them is next: getAllBackups sorts by descending timestamp.
IsNext(c, x) ==
    /\ x \in seen[c]
    /\ \E i \in DOMAIN stamps :
          stamps[i] = x /\ \A j \in (i + 1)..Len(stamps) : stamps[j] \notin seen[c]

Done(c, x) ==
    /\ seen' = [seen EXCEPT ![c] = @ \ {x}]
    /\ at' = [at EXCEPT ![c] = "deleting"]

\* Mutant: an error ends the cleanup, not just this deletion.
BugUnlinkFile(c, x) ==
    /\ at[c] = "deleting" /\ IsNext(c, x)
    /\ IF file[x] = "gone"
       THEN /\ seen' = [seen EXCEPT ![c] = {}]
            /\ UNCHANGED <<file, at>>
       ELSE /\ file' = [file EXCEPT ![x] = "gone"]
            /\ at' = [at EXCEPT ![c] = "unlinking"]
            /\ UNCHANGED seen
    /\ UNCHANGED <<kind, entry, stamps, unread, cutoff, aged, faults>>

\* deleteBackup: the file first.  If it is gone already the error is logged,
\* the entry stays, and the next backup's turn comes.
UnlinkFile(c, x) ==
    /\ at[c] = "deleting" /\ IsNext(c, x)
    /\ IF file[x] = "gone"
       THEN Done(c, x) /\ UNCHANGED file
       ELSE /\ file' = [file EXCEPT ![x] = "gone"]
            /\ at' = [at EXCEPT ![c] = "unlinking"]
            /\ UNCHANGED seen
    /\ UNCHANGED <<kind, entry, stamps, unread, cutoff, aged, faults>>

\* Then the entry.
UnlinkEntry(c, x) ==
    /\ at[c] = "unlinking" /\ IsNext(c, x)
    /\ entry' = [entry EXCEPT ![x] = "none"]
    /\ Done(c, x)
    /\ UNCHANGED <<kind, file, stamps, unread, cutoff, aged, faults>>

\* Either fails for another reason.
UnlinkFails(c, x) ==
    /\ faults < MaxFaults /\ faults' = faults + 1
    /\ at[c] \in {"deleting", "unlinking"} /\ IsNext(c, x)
    /\ Done(c, x)
    /\ UNCHANGED <<data, unread, cutoff, aged>>

Cleaned(c) ==
    /\ at[c] = "deleting" /\ seen[c] = {}
    /\ at' = [at EXCEPT ![c] = "idle"]
    /\ UNCHANGED <<data, lists, cutoff, aged, faults>>

-----------------------------------------------------------------------------

\* retentionDays go by for the next backup; no job takes as long.
Age ==
    /\ aged < Len(stamps)
    /\ at[stamps[aged + 1]] = "over"
    /\ aged' = aged + 1
    /\ UNCHANGED <<data, at, lists, cutoff, faults>>

\* The process ends.  Nothing on disk is repaired when it starts again.
Crash ==
    /\ faults < MaxFaults /\ faults' = faults + 1
    /\ at' = [r \in Readers |-> IF r \in Cleaners \/ at[r] = "idle" THEN "idle" ELSE "over"]
    /\ unread' = [r \in Readers |-> {}]
    /\ seen' = [r \in Readers |-> {}]
    /\ cutoff' = [c \in Cleaners |-> 0]
    /\ UNCHANGED <<data, aged>>

JobStep(b) ==
    \/ \E x \in Backups : ReadEntry(b, x)
    \/ Looked(b) \/ Dumped(b) \/ Measured(b) \/ Saved(b) \/ Judged(b)
    \/ \E plain \in BOOLEAN : VerifyBackup(b, plain)

CleanerStep(c) ==
    \/ OldOnes(c) \/ Cleaned(c)
    \/ \E x \in Backups : ReadEntry(c, x) \/ UnlinkFile(c, x) \/ UnlinkEntry(c, x)

BackupsNext ==
    \/ \E b \in Backups :
          \/ \E k \in Kinds : PerformBackup(b, k)
          \/ PerformIncrementalBackup(b)
          \/ JobStep(b)
          \/ JobFails(b)
    \/ \E c \in Cleaners :
          \/ CleanupOldBackups(c)
          \/ CleanerStep(c)
          \/ \E x \in Backups : UnlinkFails(c, x)
    \/ Age
    \/ Crash

\* Jobs proceed while the process runs, and the cron job keeps cleaning up.
BackupsSpec ==
    /\ BackupsInit /\ [][BackupsNext]_backupsVars
    /\ \A b \in Backups : WF_backupsVars(JobStep(b))
    /\ \A c \in Cleaners : WF_backupsVars(CleanerStep(c))
    /\ WF_backupsVars(CleanupOldBackups(Daily))

-----------------------------------------------------------------------------
(* Properties *)

JobPlaces == {"idle", "looking", "dumping", "measuring", "saving", "verifying",
              "passing", "failing", "over"}
CleanerPlaces == {"idle", "listing", "deleting", "unlinking"}

\* Every variable has its type; a cutoff lies in the past.
BackupsTypeOK ==
    /\ kind \in [Backups -> Kinds \cup {"none"}]
    /\ file \in [Backups -> {"none", "partial", "whole", "gone"}]
    /\ entry \in [Backups -> {"none", "torn", "completed", "verified", "failed"}]
    /\ at \in [Readers -> JobPlaces \cup CleanerPlaces]
    /\ \A b \in Backups : at[b] \in JobPlaces
    /\ \A c \in Cleaners : at[c] \in CleanerPlaces
    /\ unread \in [Readers -> SUBSET Backups]
    /\ seen \in [Readers -> SUBSET Backups]
    /\ stamps \in Seq(Backups)
    /\ aged \in 0..Len(stamps)
    /\ cutoff \in [Cleaners -> 0..aged]
    /\ faults \in 0..MaxFaults

\* The catalogue can be relied upon: an entry that can be read belongs to a
\* dump that is complete, unless the backup is past its retention and the
\* cleanup has reached it.  Crashes, failing writes and overlapping cleanups
\* leave no other kind of entry without its dump.
CatalogueIsTrue ==
    \A x \in Backups : Readable(x) => file[x] = "whole" \/ x \in Old

\* Whatever is deleted, half written or read in the middle of an update while
\* an incremental backup looks for its base: each recorded one follows a full
\* backup that was recorded before it.
ChainsStartWithAFull ==
    \A i \in DOMAIN stamps :
        kind[stamps[i]] = "incremental" => \E j \in 1..(i - 1) : kind[stamps[j]] = "full"

\* An entry left half written by a job that is over; it stays that way.
Damaged == \E y \in Backups : entry[y] = "torn" /\ at[y] = "over"

\* A backup past its retention is deleted in the end, also when an earlier
\* cleanup was interrupted between a file and its entry, unless an entry is
\* damaged: one such entry stops every later cleanup.
OldBackupsGo ==
    \A x \in Backups : x \in Old /\ Readable(x) ~> file[x] = "gone" \/ Damaged

=============================================================================
