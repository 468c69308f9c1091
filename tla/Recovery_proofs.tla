-------------------------- MODULE Recovery_proofs ---------------------------
(***************************************************************************)
(* Theorems about Backups, for any number of jobs, cleanups and faults, and*)
(* Failover, for any number of failovers, health checks and looks at the   *)
(* lag.                                                                    *)
(***************************************************************************)
EXTENDS Failover, Backups, TLAPS

-----------------------------------------------------------------------------
(* Backups.                                                                *)

Recorded == {stamps[i] : i \in DOMAIN stamps}

\* Places of a job whose dump is complete and whose files are its own.
Holding == {"measuring", "saving", "verifying", "passing", "failing"}

\* What holds of a backup, whatever cleanups and other jobs do: its dump is whole
\* from the measuring on, it is recorded before it has an entry, nothing of it
\* changes any more once it is old, and there is a full backup on record before
\* an incremental one starts its dump.
BackupSound(b) ==
    /\ at[b] \in Holding => file[b] = "whole"
    /\ entry[b] # "none" => b \in Recorded
    /\ b \in Recorded => at[b] \in (Holding \ {"measuring"}) \cup {"over"}
    /\ at[b] \in Holding \ {"measuring"} => b \in Recorded
    /\ b \in Old => at[b] = "over"
    /\ Readable(b) => file[b] = "whole" \/ b \in Old
    /\ at[b] = "looking" => seen[b] \subseteq Recorded
    /\ kind[b] = "incremental" => \E x \in Recorded : kind[x] = "full"

\* A cleanup deletes only what is old.
CleanerSound(c) == at[c] \in {"deleting", "unlinking"} => seen[c] \subseteq Old

BackupsInv ==
    /\ BackupsTypeOK
    /\ \A b \in Backups : BackupSound(b)
    /\ \A c \in Cleaners : CleanerSound(c)
    /\ ChainsStartWithAFull

-----------------------------------------------------------------------------
\* Readers are jobs or cleanups, never both.
LEMMA ReadersApart == /\ \A c \in Cleaners : c \notin Backups /\ c \in Readers
                      /\ \A b \in Backups : b \notin Cleaners /\ b \in Readers
  BY BackupsAssumption DEF Backups, Readers

\* What has passed its retention has been recorded.
LEMMA OldIsRecorded == BackupsTypeOK => Old \subseteq Recorded
  BY DEF BackupsTypeOK, Old, Past, Recorded

\* Cutoffs of the past leave nothing behind that is not old.
LEMMA PastGrows ==
    ASSUME BackupsTypeOK, NEW m \in Nat, m <= aged
    PROVE  Past(m) \subseteq Old
  BY DEF BackupsTypeOK, Past, Old

\* The invariant holds of an empty directory.
LEMMA BackupsInitKeeps == BackupsInit => BackupsInv
<1> SUFFICES ASSUME BackupsInit
             PROVE  BackupsInv
  OBVIOUS
<1>1. stamps = <<>> /\ aged = 0 /\ Len(stamps) = 0 /\ stamps \in Seq(Backups) /\ 0 \in 0..0
  BY DEF BackupsInit
<1>2. BackupsTypeOK
  <2>1. 0 \in 0..aged /\ faults \in 0..MaxFaults /\ aged \in 0..Len(stamps)
    BY <1>1, BackupsAssumption DEF BackupsInit
  <2> QED
    BY <1>1, <2>1, ReadersApart DEF BackupsInit, BackupsTypeOK, JobPlaces, CleanerPlaces
<1>3. Old = {} /\ Recorded = {}
  BY <1>1 DEF Old, Past, Recorded
<1>4. \A b \in Backups : BackupSound(b)
  BY <1>3, ReadersApart DEF BackupsInit, BackupSound, Holding, Readable
<1>5. \A c \in Cleaners : CleanerSound(c)
  BY ReadersApart DEF BackupsInit, CleanerSound
<1>6. ChainsStartWithAFull
  BY <1>1 DEF ChainsStartWithAFull
<1> QED
  BY <1>2, <1>4, <1>5, <1>6 DEF BackupsInv

\* A step of job b that records nothing: nothing else changes.
LEMMA JobKeeps ==
    ASSUME BackupsInv, BackupsTypeOK', NEW b \in Backups,
           UNCHANGED <<stamps, aged>>,
           \A r \in Readers \ {b} : at'[r] = at[r] /\ seen'[r] = seen[r],
           \A d \in Backups \ {b} : /\ kind'[d] = kind[d] /\ file'[d] = file[d]
                                    /\ entry'[d] = entry[d],
           b \in Recorded => kind'[b] = kind[b],
           BackupSound(b)'
    PROVE  BackupsInv'
<1> USE ReadersApart
<1>1. Old' = Old /\ Recorded' = Recorded
  BY DEF Old, Past, Recorded
<1>2. \A x \in Recorded : x \in Backups /\ kind'[x] = kind[x]
  BY DEF BackupsInv, BackupsTypeOK, Recorded
<1>3. ASSUME NEW d \in Backups, d # b
      PROVE  BackupSound(d)'
  <2>1. /\ at'[d] = at[d] /\ kind'[d] = kind[d] /\ file'[d] = file[d]
        /\ entry'[d] = entry[d] /\ seen'[d] = seen[d] /\ BackupSound(d)
    BY <1>3 DEF BackupsInv
  <2> QED
    BY <1>1, <1>2, <2>1 DEF BackupSound, Readable
<1>4. ASSUME NEW c \in Cleaners
      PROVE  CleanerSound(c)'
  <2>1. at'[c] = at[c] /\ seen'[c] = seen[c] /\ CleanerSound(c)
    BY DEF BackupsInv
  <2> QED
    BY <1>1, <2>1 DEF CleanerSound
<1>5. ChainsStartWithAFull'
  <2>1. \A i \in DOMAIN stamps : kind'[stamps[i]] = kind[stamps[i]]
    BY <1>2 DEF Recorded
  <2>2. \A i \in DOMAIN stamps : \A j \in 1..(i - 1) : j \in DOMAIN stamps
    BY DEF BackupsInv, BackupsTypeOK
  <2> QED
    BY <2>1, <2>2 DEF BackupsInv, ChainsStartWithAFull
<1> QED
  BY <1>3, <1>4, <1>5 DEF BackupsInv

\* A step of cleanup c, which may take away the dump or the entry of an old backup.
LEMMA CleanerKeeps ==
    ASSUME BackupsInv, BackupsTypeOK', NEW c \in Cleaners,
           UNCHANGED <<kind, stamps, aged>>,
           \A r \in Readers \ {c} : at'[r] = at[r] /\ seen'[r] = seen[r],
           \A d \in Backups : /\ file'[d] = file[d] \/ d \in Old
                              /\ entry'[d] = entry[d] \/ entry'[d] = "none",
           CleanerSound(c)'
    PROVE  BackupsInv'
<1> USE ReadersApart
<1>1. Old' = Old /\ Recorded' = Recorded
  BY DEF Old, Past, Recorded
<1>2. ASSUME NEW d \in Backups
      PROVE  BackupSound(d)'
  <2>1. /\ at'[d] = at[d] /\ kind'[d] = kind[d] /\ seen'[d] = seen[d]
        /\ \A y \in Recorded : kind'[y] = kind[y]
        /\ file'[d] = file[d] \/ d \in Old
        /\ entry'[d] = entry[d] \/ entry'[d] = "none"
        /\ BackupSound(d)
    BY DEF BackupsInv
  <2> QED
    BY <1>1, <2>1 DEF BackupSound, Readable, Holding
<1>3. ASSUME NEW d \in Cleaners, d # c
      PROVE  CleanerSound(d)'
  BY <1>1, <1>3 DEF BackupsInv, CleanerSound
<1>4. ChainsStartWithAFull'
  BY DEF BackupsInv, ChainsStartWithAFull
<1> QED
  BY <1>2, <1>3, <1>4 DEF BackupsInv

\* A listing in progress reads one more entry.
LEMMA ReadEntryKeeps ==
    ASSUME BackupsInv, NEW r \in Readers, NEW x \in Backups, ReadEntry(r, x)
    PROVE  BackupsInv'
<1> USE ReadersApart
<1>1. UNCHANGED <<kind, file, entry, stamps, at, cutoff, aged, faults>>
  BY DEF ReadEntry, data
<1>2. BackupsTypeOK'
  <2>1. unread' \in [Readers -> SUBSET Backups]
    BY DEF ReadEntry, BackupsInv, BackupsTypeOK
  <2>2. seen' \in [Readers -> SUBSET Backups]
    BY DEF ReadEntry, BackupsInv, BackupsTypeOK
  <2> QED
    BY <1>1, <2>1, <2>2 DEF BackupsInv, BackupsTypeOK
<1>3. \A q \in Readers \ {r} : seen'[q] = seen[q]
  BY DEF ReadEntry, BackupsInv, BackupsTypeOK
<1>4. CASE r \in Backups
  <2>1. Readable(x) => x \in Recorded
    BY DEF BackupsInv, BackupSound, Readable
  <2>2. at[r] = "looking"
    BY <1>4 DEF ReadEntry, BackupsInv, BackupsTypeOK, JobPlaces
  <2>3. seen'[r] \subseteq Recorded
    BY <1>4, <2>1, <2>2 DEF ReadEntry, BackupsInv, BackupsTypeOK, BackupSound
  <2>4. BackupSound(r)'
    BY <1>1, <1>4, <2>3
    DEF BackupsInv, BackupSound, Old, Past, Recorded, Readable
  <2> QED
    BY <1>1, <1>2, <1>3, <1>4, <2>4, JobKeeps
<1>5. CASE r \in Cleaners
  <2>1. CleanerSound(r)'
    BY <1>1, <1>5 DEF ReadEntry, BackupsInv, BackupsTypeOK, CleanerSound, CleanerPlaces
  <2> QED
    BY <1>1, <1>2, <1>3, <1>5, <2>1, CleanerKeeps
<1> QED
  BY <1>4, <1>5 DEF Readers

\* The start of a job, and the end of its search for a full backup.
LEMMA BeginKeeps ==
    ASSUME BackupsInv, NEW b \in Backups,
           \/ \E k \in Kinds : PerformBackup(b, k)
           \/ PerformIncrementalBackup(b)
           \/ Looked(b)
    PROVE  BackupsInv'
<1> USE ReadersApart
<1>1. /\ at[b] \in {"idle", "looking"}
      /\ UNCHANGED <<entry, stamps, cutoff, aged, faults>>
  BY DEF PerformBackup, PerformIncrementalBackup, Looked, StartsNext, data
<1>2. b \notin Recorded /\ b \notin Old /\ entry[b] = "none"
  BY <1>1, OldIsRecorded DEF BackupsInv, BackupSound, Holding
<1>3. BackupsTypeOK'
  <2>1. CASE \E k \in Kinds : PerformBackup(b, k)
    BY <1>1, <2>1 DEF PerformBackup, Dumping, lists, JobPlaces, BackupsInv, BackupsTypeOK
  <2>2. CASE PerformIncrementalBackup(b)
    <3>1. /\ unread' = [unread EXCEPT ![b] = Listed] /\ seen' = [seen EXCEPT ![b] = {}]
          /\ at' = [at EXCEPT ![b] = "looking"] /\ UNCHANGED <<kind, file>>
          /\ Listed \in SUBSET Backups
      BY <2>2 DEF PerformIncrementalBackup, List, Listed, data
    <3> QED
      BY <1>1, <3>1 DEF JobPlaces, BackupsInv, BackupsTypeOK
  <2>3. CASE Looked(b)
    <3>1. PICK k \in Kinds : Dumping(b, k)
      BY <2>3 DEF Looked, Kinds
    <3>2. seen' = [seen EXCEPT ![b] = {}] /\ UNCHANGED unread
      BY <2>3 DEF Looked
    <3> QED
      BY <1>1, <3>1, <3>2 DEF Dumping, JobPlaces, BackupsInv, BackupsTypeOK
  <2> QED
    BY <2>1, <2>2, <2>3
<1>4. /\ \A r \in Readers \ {b} : at'[r] = at[r] /\ seen'[r] = seen[r]
      /\ \A d \in Backups \ {b} : kind'[d] = kind[d] /\ file'[d] = file[d] /\ entry'[d] = entry[d]
  BY DEF PerformBackup, PerformIncrementalBackup, Looked, Dumping, List, lists, data,
         BackupsInv, BackupsTypeOK
<1>5. Old' = Old /\ Recorded' = Recorded
  BY <1>1 DEF Old, Past, Recorded
<1>6. /\ kind'[b] = "incremental" => \E x \in Recorded : kind[x] = "full"
      /\ at'[b] = "dumping" \/ (at'[b] = "looking" /\ seen'[b] = {})
  <2>1. CASE \E k \in Kinds : PerformBackup(b, k)
    BY <2>1 DEF PerformBackup, Dumping, BackupsInv, BackupsTypeOK
  <2>2. CASE PerformIncrementalBackup(b)
    BY <2>2 DEF PerformIncrementalBackup, List, data, BackupsInv, BackupsTypeOK, BackupSound
  <2>3. CASE Looked(b)
    <3>1. seen[b] \subseteq Recorded
      BY <2>3 DEF Looked, BackupsInv, BackupSound
    <3> QED
      BY <2>3, <3>1 DEF Looked, Dumping, BackupsInv, BackupsTypeOK
  <2> QED
    BY <2>1, <2>2, <2>3
<1>7. \A x \in Recorded : kind'[x] = kind[x]
  BY <1>2, <1>4 DEF BackupsInv, BackupsTypeOK, Recorded
<1>8. BackupSound(b)'
  BY <1>1, <1>2, <1>5, <1>6, <1>7 DEF BackupSound, Holding, Readable
<1> QED
  BY <1>1, <1>2, <1>3, <1>4, <1>8, JobKeeps

\* The job of a backup that has its dump, but for the step that records it.
LEMMA WorkKeeps ==
    ASSUME BackupsInv, NEW b \in Backups,
           \/ Dumped(b) \/ Saved(b) \/ Judged(b) \/ JobFails(b)
           \/ \E plain \in BOOLEAN : VerifyBackup(b, plain)
    PROVE  BackupsInv'
<1> USE ReadersApart
<1>1. UNCHANGED <<kind, stamps, unread, seen, cutoff, aged>>
  BY DEF Dumped, Saved, Judged, JobFails, VerifyBackup, Writing, data, lists
<1>2. BackupsTypeOK'
  <2>1. faults' \in 0..MaxFaults
    BY BackupsAssumption DEF Dumped, Saved, Judged, JobFails, VerifyBackup, Writing, data, lists,
                             BackupsInv, BackupsTypeOK
  <2>2. file' \in [Backups -> {"none", "partial", "whole", "gone"}]
    BY DEF Dumped, Saved, Judged, JobFails, VerifyBackup, data, BackupsInv, BackupsTypeOK
  <2>3. entry' \in [Backups -> {"none", "torn", "completed", "verified", "failed"}]
    BY DEF Dumped, Saved, Judged, JobFails, VerifyBackup, Writing, data, BackupsInv, BackupsTypeOK
  <2>4. PICK p \in JobPlaces : at' = [at EXCEPT ![b] = p]
    <3>1. CASE Dumped(b) \/ Saved(b) \/ Judged(b)
      BY <3>1 DEF Dumped, Saved, Judged, JobPlaces
    <3>2. CASE JobFails(b) \/ \E plain \in BOOLEAN : VerifyBackup(b, plain)
      BY <3>2 DEF JobFails, VerifyBackup, Writing, JobPlaces
    <3> QED
      BY <3>1, <3>2
  <2> QED
    BY <1>1, <2>1, <2>2, <2>3, <2>4 DEF BackupsInv, BackupsTypeOK
<1>3. /\ \A r \in Readers \ {b} : at'[r] = at[r]
      /\ \A d \in Backups \ {b} : file'[d] = file[d] /\ entry'[d] = entry[d]
  BY DEF Dumped, Saved, Judged, JobFails, VerifyBackup, Writing, data, lists,
         BackupsInv, BackupsTypeOK
<1>4. Old' = Old /\ Recorded' = Recorded /\ BackupSound(b)
  BY <1>1 DEF Old, Past, Recorded, BackupsInv
<1>5. BackupSound(b)'
  <2>1. CASE Dumped(b)
    <3>1. /\ at[b] = "dumping" /\ at'[b] = "measuring" /\ file'[b] = "whole"
          /\ entry'[b] = entry[b]
      BY <2>1 DEF Dumped, BackupsInv, BackupsTypeOK
    <3>2. b \notin Recorded /\ b \notin Old /\ entry[b] = "none"
      BY <1>4, <3>1, OldIsRecorded DEF BackupsInv, BackupSound, Holding
    <3> QED
      BY <1>1, <1>4, <3>1, <3>2 DEF BackupSound, Holding, Readable
  <2>2. ASSUME at[b] \in Holding \ {"measuring"}, UNCHANGED file,
               at'[b] \in (Holding \ {"measuring"}) \cup {"over"}
        PROVE  BackupSound(b)'
    <3>1. file[b] = "whole" /\ b \in Recorded /\ b \notin Old
      BY <1>4, <2>2 DEF BackupSound, Holding
    <3> QED
      BY <1>1, <1>4, <2>2, <3>1 DEF BackupSound, Holding
  <2>3. CASE Saved(b) \/ Judged(b) \/ \E plain \in BOOLEAN : VerifyBackup(b, plain)
    BY <2>2, <2>3 DEF Saved, Judged, VerifyBackup, Writing, Holding, BackupsInv, BackupsTypeOK
  <2>4. CASE JobFails(b)
    <3>1. CASE at[b] \in {"saving", "passing", "failing"}
      BY <2>2, <2>4, <3>1 DEF JobFails, data, Holding, BackupsInv, BackupsTypeOK
    <3>2. CASE at[b] \in {"dumping", "measuring"}
      <4>1. b \notin Recorded /\ b \notin Old /\ entry[b] = "none"
        BY <1>4, <3>2, OldIsRecorded DEF BackupsInv, BackupSound, Holding
      <4>2. at'[b] = "over" /\ entry'[b] = entry[b]
        BY <2>4, <3>2 DEF JobFails, data, BackupsInv, BackupsTypeOK
      <4> QED
        BY <1>1, <1>4, <4>1, <4>2 DEF BackupSound, Holding, Readable
    <3> QED
      BY <2>4, <3>1, <3>2 DEF JobFails
  <2> QED
    BY <2>1, <2>3, <2>4
<1> QED
  BY <1>1, <1>2, <1>3, <1>5, JobKeeps

\* The job records its backup: after every full backup that came before it.
LEMMA MeasuredKeeps ==
    ASSUME BackupsInv, NEW b \in Backups, Measured(b)
    PROVE  BackupsInv'
<1> USE ReadersApart
<1>1. /\ at[b] = "measuring" /\ at' = [at EXCEPT ![b] = "saving"]
      /\ entry' = [entry EXCEPT ![b] = "torn"] /\ stamps' = Append(stamps, b)
      /\ UNCHANGED <<kind, file, unread, seen, cutoff, aged, faults>>
  BY DEF Measured, Writing, lists
<1>2. stamps \in Seq(Backups) /\ aged \in 0..Len(stamps)
  BY DEF BackupsInv, BackupsTypeOK
<1>3. /\ stamps' \in Seq(Backups) /\ Len(stamps') = Len(stamps) + 1
      /\ stamps'[Len(stamps) + 1] = b
      /\ \A i \in 1..Len(stamps) : stamps'[i] = stamps[i]
  BY <1>1, <1>2
<1>4. Recorded' = Recorded \cup {b}
  <2>1. \A i \in DOMAIN stamps' : stamps'[i] \in Recorded \cup {b}
    BY <1>2, <1>3 DEF Recorded
  <2>2. \A i \in DOMAIN stamps : i \in DOMAIN stamps' /\ stamps'[i] = stamps[i]
    BY <1>2, <1>3
  <2>3. b \in Recorded'
    BY <1>2, <1>3 DEF Recorded
  <2> QED
    BY <2>1, <2>2, <2>3 DEF Recorded
<1>5. Old' = Old
  BY <1>1, <1>2, <1>3 DEF Old, Past
<1>6. BackupsTypeOK'
  <2>1. aged' \in 0..Len(stamps')
    BY <1>1, <1>2, <1>3
  <2> QED
    BY <1>1, <1>3, <2>1 DEF BackupsInv, BackupsTypeOK, JobPlaces
<1>7. ASSUME NEW d \in Backups
      PROVE  BackupSound(d)'
  <2>1. BackupSound(d)
    BY DEF BackupsInv
  <2>2. CASE d = b
    BY <1>1, <1>4, <1>5, <2>1, <2>2
    DEF BackupSound, Holding, Readable, BackupsInv, BackupsTypeOK
  <2>3. CASE d # b
    <3>1. at'[d] = at[d] /\ entry'[d] = entry[d]
      BY <1>1, <2>3 DEF BackupsInv, BackupsTypeOK
    <3> QED
      BY <1>1, <1>4, <1>5, <2>1, <2>3, <3>1 DEF BackupSound, Readable
  <2> QED
    BY <2>2, <2>3
<1>8. ASSUME NEW c \in Cleaners
      PROVE  CleanerSound(c)'
  BY <1>1, <1>5 DEF BackupsInv, BackupsTypeOK, CleanerSound
<1>9. ChainsStartWithAFull'
  <2> SUFFICES ASSUME NEW i \in 1..Len(stamps'), kind[stamps'[i]] = "incremental"
               PROVE  \E j \in 1..(i - 1) : kind[stamps'[j]] = "full"
    BY <1>1, <1>3 DEF ChainsStartWithAFull
  <2>1. CASE i = Len(stamps) + 1
    <3>1. PICK x \in Recorded : kind[x] = "full"
      BY <1>3, <2>1 DEF BackupsInv, BackupSound
    <3>2. PICK j \in 1..Len(stamps) : x = stamps[j]
      BY <1>2, <3>1 DEF Recorded
    <3> QED
      BY <1>2, <1>3, <2>1, <3>1, <3>2
  <2>2. CASE i \in 1..Len(stamps)
    <3>1. PICK j \in 1..(i - 1) : kind[stamps[j]] = "full"
      BY <1>2, <1>3, <2>2 DEF BackupsInv, ChainsStartWithAFull
    <3>2. j \in 1..Len(stamps)
      BY <1>2, <2>2
    <3> QED
      BY <1>3, <3>1, <3>2
  <2> QED
    BY <1>2, <1>3, <2>1, <2>2
<1> QED
  BY <1>6, <1>7, <1>8, <1>9 DEF BackupsInv

\* Every step of a cleanup.
LEMMA CleanupKeeps ==
    ASSUME BackupsInv, NEW c \in Cleaners,
           \/ CleanupOldBackups(c) \/ OldOnes(c) \/ Cleaned(c)
           \/ \E x \in Backups : UnlinkFile(c, x) \/ UnlinkEntry(c, x) \/ UnlinkFails(c, x)
    PROVE  BackupsInv'
<1> USE ReadersApart
<1>1. UNCHANGED <<kind, stamps, aged>>
  BY DEF CleanupOldBackups, OldOnes, Cleaned, UnlinkFile, UnlinkEntry, UnlinkFails, data, lists
<1>2. BackupsTypeOK'
  <2>1. faults' \in 0..MaxFaults /\ 0 \in 0..aged /\ aged \in 0..aged
    BY BackupsAssumption
    DEF CleanupOldBackups, OldOnes, Cleaned, UnlinkFile, UnlinkEntry, UnlinkFails, data, lists,
        BackupsInv, BackupsTypeOK
  <2>2. CASE CleanupOldBackups(c)
    <3>1. /\ unread' = [unread EXCEPT ![c] = Listed] /\ seen' = [seen EXCEPT ![c] = {}]
          /\ at' = [at EXCEPT ![c] = "listing"] /\ UNCHANGED <<file, entry>>
          /\ cutoff' = [cutoff EXCEPT ![c] = aged] /\ Listed \in SUBSET Backups
      BY <2>2 DEF CleanupOldBackups, List, Listed, data
    <3> QED
      BY <1>1, <2>1, <3>1 DEF CleanerPlaces, BackupsInv, BackupsTypeOK
  <2>3. CASE OldOnes(c)
    <3>1. /\ seen' = [seen EXCEPT ![c] = seen[c] \cap Past(cutoff[c])]
          /\ at' = [at EXCEPT ![c] = "deleting"] /\ UNCHANGED <<file, entry, unread>>
          /\ cutoff' = [cutoff EXCEPT ![c] = 0]
      BY <2>3 DEF OldOnes, data, BackupsInv, BackupsTypeOK
    <3>2. seen[c] \cap Past(cutoff[c]) \in SUBSET Backups
      BY DEF BackupsInv, BackupsTypeOK
    <3> QED
      BY <1>1, <2>1, <3>1, <3>2 DEF CleanerPlaces, BackupsInv, BackupsTypeOK
  <2>4. CASE Cleaned(c)
    BY <1>1, <2>1, <2>4 DEF Cleaned, data, lists, CleanerPlaces, BackupsInv, BackupsTypeOK
  <2>5. ASSUME NEW x \in Backups, UnlinkFile(c, x) \/ UnlinkEntry(c, x) \/ UnlinkFails(c, x)
        PROVE  BackupsTypeOK'
    <3>1. UNCHANGED <<unread, cutoff>>
      BY <2>5 DEF UnlinkFile, UnlinkEntry, UnlinkFails
    <3>2. file' \in [Backups -> {"none", "partial", "whole", "gone"}]
      BY <2>5 DEF UnlinkFile, UnlinkEntry, UnlinkFails, data, BackupsInv, BackupsTypeOK
    <3>3. entry' \in [Backups -> {"none", "torn", "completed", "verified", "failed"}]
      BY <2>5 DEF UnlinkFile, UnlinkEntry, UnlinkFails, data, BackupsInv, BackupsTypeOK
    <3>4. PICK p \in CleanerPlaces : at' = [at EXCEPT ![c] = p]
      BY <2>5 DEF UnlinkFile, UnlinkEntry, UnlinkFails, Done, CleanerPlaces
    <3>5. seen' \in [Readers -> SUBSET Backups]
      BY <2>5 DEF UnlinkFile, UnlinkEntry, UnlinkFails, Done, BackupsInv, BackupsTypeOK
    <3> QED
      BY <1>1, <2>1, <3>1, <3>2, <3>3, <3>4, <3>5 DEF BackupsInv, BackupsTypeOK
  <2> QED
    BY <2>2, <2>3, <2>4, <2>5
<1>3. \A r \in Readers \ {c} : at'[r] = at[r] /\ seen'[r] = seen[r]
  BY DEF CleanupOldBackups, OldOnes, Cleaned, UnlinkFile, UnlinkEntry, UnlinkFails, Done, List,
         data, lists, BackupsInv, BackupsTypeOK
<1>4. at[c] \in {"deleting", "unlinking"} => seen[c] \subseteq Old
  BY DEF BackupsInv, CleanerSound
<1>5. \A d \in Backups : /\ file'[d] = file[d] \/ d \in Old
                         /\ entry'[d] = entry[d] \/ entry'[d] = "none"
  BY <1>4 DEF CleanupOldBackups, OldOnes, Cleaned, UnlinkFile, UnlinkEntry, UnlinkFails, IsNext,
              Done, data, lists, BackupsInv, BackupsTypeOK
<1>6. Old' = Old
  BY <1>1 DEF Old, Past
<1>7. CleanerSound(c)'
  <2>1. CASE OldOnes(c)
    <3>1. seen'[c] = seen[c] \cap Past(cutoff[c])
      BY <2>1 DEF OldOnes, BackupsInv, BackupsTypeOK
    <3>2. Past(cutoff[c]) \subseteq Old
      BY PastGrows DEF BackupsInv, BackupsTypeOK
    <3> QED
      BY <1>6, <3>1, <3>2 DEF CleanerSound
  <2>2. CASE CleanupOldBackups(c) \/ Cleaned(c)
    BY <2>2 DEF CleanupOldBackups, Cleaned, CleanerSound, BackupsInv, BackupsTypeOK
  <2>3. ASSUME NEW x \in Backups, UnlinkFile(c, x) \/ UnlinkEntry(c, x) \/ UnlinkFails(c, x)
        PROVE  CleanerSound(c)'
    <3>1. at[c] \in {"deleting", "unlinking"} /\ seen'[c] \subseteq seen[c]
      BY <2>3 DEF UnlinkFile, UnlinkEntry, UnlinkFails, Done, BackupsInv, BackupsTypeOK
    <3> QED
      BY <1>4, <1>6, <3>1 DEF CleanerSound
  <2> QED
    BY <2>1, <2>2, <2>3
<1> QED
  BY <1>1, <1>2, <1>3, <1>5, <1>7, CleanerKeeps

\* The next backup passes its retention; its job is over.
LEMMA AgeKeeps ==
    ASSUME BackupsInv, Age
    PROVE  BackupsInv'
<1>1. /\ aged' = aged + 1 /\ aged < Len(stamps) /\ at[stamps[aged + 1]] = "over"
      /\ UNCHANGED <<kind, file, entry, stamps, at, unread, seen, cutoff, faults>>
  BY DEF Age, data, lists
<1>2. stamps \in Seq(Backups) /\ aged \in 0..Len(stamps)
  BY DEF BackupsInv, BackupsTypeOK
<1>3. BackupsTypeOK'
  <2>1. aged' \in 0..Len(stamps) /\ 0..aged \subseteq 0..aged'
    BY <1>1, <1>2
  <2> QED
    BY <1>1, <2>1 DEF BackupsInv, BackupsTypeOK
<1>4. Old' = Old \cup {stamps[aged + 1]} /\ Recorded' = Recorded
  BY <1>1, <1>2 DEF Old, Past, Recorded
<1>5. \A b \in Backups : BackupSound(b)'
  BY <1>1, <1>4 DEF BackupsInv, BackupSound, Readable
<1>6. \A c \in Cleaners : CleanerSound(c)'
  BY <1>1, <1>4 DEF BackupsInv, CleanerSound
<1>7. ChainsStartWithAFull'
  BY <1>1 DEF BackupsInv, ChainsStartWithAFull
<1> QED
  BY <1>3, <1>5, <1>6, <1>7 DEF BackupsInv

\* What the process leaves on disk is as sound as it was.
LEMMA CrashKeeps ==
    ASSUME BackupsInv, Crash
    PROVE  BackupsInv'
<1> USE ReadersApart
<1>1. UNCHANGED <<kind, file, entry, stamps, aged>>
  BY DEF Crash, data
<1>2. BackupsTypeOK'
  <2>1. faults' \in 0..MaxFaults /\ 0 \in 0..aged
    BY BackupsAssumption DEF Crash, BackupsInv, BackupsTypeOK
  <2> QED
    BY <1>1, <2>1 DEF Crash, JobPlaces, CleanerPlaces, BackupsInv, BackupsTypeOK
<1>3. Old' = Old /\ Recorded' = Recorded
  BY <1>1 DEF Old, Past, Recorded
<1>4. ASSUME NEW b \in Backups
      PROVE  BackupSound(b)'
  <2>1. at'[b] = IF at[b] = "idle" THEN "idle" ELSE "over"
    BY DEF Crash
  <2>2. BackupSound(b)
    BY DEF BackupsInv
  <2> QED
    BY <1>1, <1>3, <2>1, <2>2 DEF BackupSound, Holding, Readable
<1>5. \A c \in Cleaners : CleanerSound(c)'
  BY DEF Crash, CleanerSound
<1>6. ChainsStartWithAFull'
  BY <1>1 DEF BackupsInv, ChainsStartWithAFull
<1> QED
  BY <1>2, <1>4, <1>5, <1>6 DEF BackupsInv

\* Every step keeps the invariant.
LEMMA BackupsNextKeeps ==
    ASSUME BackupsInv, [BackupsNext]_backupsVars
    PROVE  BackupsInv'
<1>1. CASE UNCHANGED backupsVars
  BY <1>1 DEF backupsVars, BackupsInv, BackupsTypeOK, BackupSound, CleanerSound, Recorded, Old,
              Past, Readable, ChainsStartWithAFull
<1>2. ASSUME NEW b \in Backups,
             \/ \E k \in Kinds : PerformBackup(b, k)
             \/ PerformIncrementalBackup(b) \/ JobStep(b) \/ JobFails(b)
      PROVE  BackupsInv'
  BY <1>2, BeginKeeps, WorkKeeps, MeasuredKeeps, ReadEntryKeeps, ReadersApart DEF JobStep
<1>3. ASSUME NEW c \in Cleaners,
             \/ CleanupOldBackups(c) \/ CleanerStep(c)
             \/ \E x \in Backups : UnlinkFails(c, x)
      PROVE  BackupsInv'
  BY <1>3, CleanupKeeps, ReadEntryKeeps, ReadersApart DEF CleanerStep
<1> QED
  BY <1>1, <1>2, <1>3, AgeKeeps, CrashKeeps DEF BackupsNext

\* The invariant holds of every reachable state.
LEMMA BackupsSound == BackupsSpec => []BackupsInv
<1> QED
  BY BackupsInitKeeps, BackupsNextKeeps, PTL DEF BackupsSpec

\* Every state of jobs, cleanups and files is typed.
THEOREM BackupsTypeCorrect == BackupsSpec => []BackupsTypeOK
<1> QED
  BY BackupsSound, PTL DEF BackupsInv

\* Who reads an entry of the catalogue finds a whole dump behind it, unless the
\* backup is old enough to be cleaned up: whatever jobs, cleanups and crashes do.
THEOREM CatalogueCanBeReliedUpon == BackupsSpec => []CatalogueIsTrue
<1>1. BackupsInv => CatalogueIsTrue
  BY DEF BackupsInv, BackupSound, CatalogueIsTrue
<1> QED
  BY <1>1, BackupsSound, PTL

\* No incremental backup is recorded before a full one.
THEOREM EveryChainHasItsBase == BackupsSpec => []ChainsStartWithAFull
<1> QED
  BY BackupsSound, PTL DEF BackupsInv

-----------------------------------------------------------------------------
(* Failover.                                                               *)

\* A step of a failover changes it alone; what it may lead to keeps the types.
LEMMA StepKeeps ==
    ASSUME TypeOK, NEW f \in Failovers, UNCHANGED <<current, check, servers>>,
           NEW st, NEW where, NEW n \in 0..MaxLooks, NEW pr \in {"no", "whole", "lacking"},
           status' = [status EXCEPT ![f] = st],
           pc' = [pc EXCEPT ![f] = where],
           looks' = [looks EXCEPT ![f] = n],
           promoted' = [promoted EXCEPT ![f] = pr],
           \/ st = "in_progress" /\ where \in Under
           \/ st = "failed" /\ where = "rollback"
           \/ st \in {"completed", "rolled_back"} /\ where = "done",
           where \in {"stop", "wait", "promote"} => pr = "no",
           where \in {"route", "verify"} \/ st = "completed" => pr # "no"
    PROVE  TypeOK'
<1>1. /\ status' \in [Failovers -> {"none", "pending", "in_progress", "failed",
                                    "completed", "rolled_back"}]
      /\ pc' \in [Failovers -> Under \cup {"none", "validate", "rollback", "done"}]
      /\ promoted' \in [Failovers -> {"no", "whole", "lacking"}]
      /\ looks' \in [Failovers -> 0..MaxLooks]
  BY DEF TypeOK, Under
<1>2. ASSUME NEW g \in Failovers
      PROVE  /\ status'[g] = "none" <=> pc'[g] = "none"
             /\ status'[g] = "pending" <=> pc'[g] = "validate"
             /\ status'[g] = "in_progress" <=> pc'[g] \in Under
             /\ status'[g] = "failed" <=> pc'[g] = "rollback"
             /\ pc'[g] \in {"none", "validate", "stop", "wait", "promote"} => promoted'[g] = "no"
             /\ pc'[g] \in {"route", "verify"} \/ status'[g] = "completed" => promoted'[g] # "no"
  <2>1. CASE g = f
    BY <1>1, <2>1 DEF TypeOK, Under
  <2>2. CASE g # f
    BY <1>2, <2>2 DEF TypeOK
  <2> QED
    BY <2>1, <2>2
<1> QED
  BY <1>1, <1>2 DEF TypeOK, servers

\* A failover begins, alone or beside others.
LEMMA FailoverBegins ==
    ASSUME TypeOK, NEW f \in Failovers, Begin(f),
           check' \in [Checks -> {"idle", "metrics"}]
    PROVE  TypeOK'
<1>1. pc[f] = "none" /\ promoted[f] = "no"
  BY DEF Begin, TypeOK
<1>2. ASSUME NEW g \in Failovers
      PROVE  /\ status'[g] = "none" <=> pc'[g] = "none"
             /\ status'[g] = "pending" <=> pc'[g] = "validate"
             /\ status'[g] = "in_progress" <=> pc'[g] \in Under
             /\ status'[g] = "failed" <=> pc'[g] = "rollback"
             /\ pc'[g] \in {"none", "validate", "stop", "wait", "promote"} => promoted'[g] = "no"
             /\ pc'[g] \in {"route", "verify"} \/ status'[g] = "completed" => promoted'[g] # "no"
  <2>1. CASE g = f
    BY <1>1, <2>1 DEF TypeOK, Begin, Under
  <2>2. CASE g # f
    BY <1>2, <2>2 DEF TypeOK, Begin
  <2> QED
    BY <2>1, <2>2
<1> QED
  BY <1>2 DEF TypeOK, Begin, servers

\* A failover's next step keeps the types, also when it throws.
LEMMA FailoverProceeds == ASSUME TypeOK, NEW f \in Failovers, Proceed(f) PROVE TypeOK'
<1>0. /\ UNCHANGED <<current, check, servers>>
      /\ status = [status EXCEPT ![f] = status[f]]
      /\ pc = [pc EXCEPT ![f] = pc[f]]
      /\ looks = [looks EXCEPT ![f] = looks[f]] /\ looks[f] \in 0..MaxLooks
      /\ promoted = [promoted EXCEPT ![f] = promoted[f]]
      /\ promoted[f] \in {"no", "whole", "lacking"}
  BY DEF Proceed, TypeOK
<1>1. pc[f] \in Under => status[f] = "in_progress"
  BY DEF TypeOK
<1>2. /\ pc[f] \in {"validate", "stop", "wait", "promote"} => promoted[f] = "no"
      /\ pc[f] \in {"route", "verify"} => promoted[f] # "no"
  BY DEF TypeOK
<1>3. {"stop", "wait", "promote", "route", "verify"} \subseteq Under
  BY DEF Under
<1>4. CASE Throw(f)
  BY <1>0, <1>4, StepKeeps DEF Throw, Goto
<1>5. ASSUME NEW where \in {"wait", "verify"}, Pass(f, where),
             \/ pc[f] = "stop" /\ where = "wait"
             \/ pc[f] = "route" /\ where = "verify"
      PROVE  TypeOK'
  <2>1. /\ status' = [status EXCEPT ![f] = "in_progress"]
        /\ pc' = [pc EXCEPT ![f] = where]
        /\ looks' = [looks EXCEPT ![f] = looks[f]]
        /\ promoted' = [promoted EXCEPT ![f] = promoted[f]]
    BY <1>0, <1>1, <1>3, <1>5 DEF Pass, Goto
  <2> QED
    BY <1>0, <1>2, <1>3, <1>5, <2>1, StepKeeps
<1>6. CASE Validate(f)
  <2> SUFFICES ASSUME ~ Throw(f) PROVE TypeOK'
    BY <1>4
  <2>1. /\ status' = [status EXCEPT ![f] = "in_progress"]
        /\ pc' = [pc EXCEPT ![f] = "stop"]
        /\ looks' = [looks EXCEPT ![f] = looks[f]]
        /\ promoted' = [promoted EXCEPT ![f] = promoted[f]]
        /\ pc[f] = "validate"
    BY <1>0, <1>6 DEF Validate, Goto
  <2> QED
    BY <1>0, <1>2, <1>3, <2>1, StepKeeps
<1>7. CASE StopPrimaryWrites(f)
  BY <1>4, <1>5, <1>7 DEF StopPrimaryWrites
<1>8. CASE WaitForReplicationSync(f)
  <2> SUFFICES ASSUME NEW lag \in LagsNow, LookAtLag(f, lag) PROVE TypeOK'
    BY <1>4, <1>8 DEF WaitForReplicationSync
  <2>1. /\ pc[f] = "wait" /\ promoted[f] = "no"
        /\ status' = [status EXCEPT ![f] = "in_progress"]
        /\ promoted' = [promoted EXCEPT ![f] = promoted[f]]
    BY <1>0, <1>1, <1>2, <1>3, <1>8 DEF WaitForReplicationSync, LookAtLag
  <2>2. looks' = [looks EXCEPT ![f] = looks[f] + 1] /\ looks[f] + 1 \in 0..MaxLooks
    BY <1>0, FailoverAssumption DEF LookAtLag, TimedOut
  <2>3. PICK where \in {"wait", "promote"} : pc' = [pc EXCEPT ![f] = where]
    BY <1>0, <2>1 DEF LookAtLag, Goto
  <2>4. where \in Under /\ where \notin {"route", "verify"}
    BY <1>3
  <2>5. promoted' = [promoted EXCEPT ![f] = "no"]
    BY <2>1
  <2>6. UNCHANGED <<current, check, servers>>
    BY <1>0
  <2> QED
    BY <2>1, <2>2, <2>3, <2>4, <2>5, <2>6, StepKeeps
<1>9. CASE PromoteSecondary(f)
  <2> SUFFICES ASSUME ~ Throw(f) PROVE TypeOK'
    BY <1>4
  <2>1. /\ pc[f] = "promote"
        /\ status' = [status EXCEPT ![f] = "in_progress"]
        /\ pc' = [pc EXCEPT ![f] = "route"]
        /\ looks' = [looks EXCEPT ![f] = looks[f]]
        /\ promoted' = [promoted EXCEPT ![f] = IF behind THEN "lacking" ELSE "whole"]
    BY <1>0, <1>1, <1>3, <1>9 DEF PromoteSecondary, Goto
  <2> QED
    BY <1>0, <1>3, <2>1, StepKeeps
<1>10. CASE UpdateTrafficRouting(f)
  BY <1>5, <1>10 DEF UpdateTrafficRouting
<1>11. CASE VerifyNewPrimary(f)
  <2> SUFFICES ASSUME ~ Throw(f) PROVE TypeOK'
    BY <1>4
  <2>1. /\ status' = [status EXCEPT ![f] = "completed"]
        /\ pc' = [pc EXCEPT ![f] = "done"]
        /\ looks' = [looks EXCEPT ![f] = looks[f]]
        /\ promoted' = [promoted EXCEPT ![f] = promoted[f]]
        /\ promoted[f] # "no"
    BY <1>0, <1>2, <1>11 DEF VerifyNewPrimary, Goto
  <2> QED
    BY <1>0, <2>1, StepKeeps
<1>12. CASE Rollback(f)
  <2>1. /\ status' = [status EXCEPT ![f] = "rolled_back"]
        /\ pc' = [pc EXCEPT ![f] = "done"]
        /\ looks' = [looks EXCEPT ![f] = looks[f]]
        /\ promoted' = [promoted EXCEPT ![f] = promoted[f]]
    BY <1>0, <1>12 DEF Rollback, Goto
  <2> QED
    BY <1>0, <2>1, StepKeeps
<1> QED
  BY <1>6, <1>7, <1>8, <1>9, <1>10, <1>11, <1>12 DEF Proceed

\* Every step keeps the types.
LEMMA FailoverNextKeeps == TypeOK /\ [Next]_vars => TypeOK'
<1> SUFFICES ASSUME TypeOK, [Next]_vars PROVE TypeOK'
  OBVIOUS
<1>0. check \in [Checks -> {"idle", "metrics"}]
  BY DEF TypeOK
<1>1. CASE Manual
  BY <1>0, <1>1, FailoverBegins DEF Manual
<1>2. ASSUME NEW c \in Checks, Monitor(c) PROVE TypeOK'
  BY <1>2 DEF Monitor, TypeOK, servers
<1>3. ASSUME NEW c \in Checks, Decide(c) PROVE TypeOK'
  <2>1. check' \in [Checks -> {"idle", "metrics"}]
    BY <1>0, <1>3 DEF Decide
  <2>2. CASE \E f \in Failovers : Begin(f)
    BY <2>1, <2>2, FailoverBegins
  <2>3. CASE UNCHANGED <<status, pc, looks, current, servers, promoted>>
    BY <2>1, <2>3 DEF TypeOK, servers
  <2> QED
    BY <1>3, <2>2, <2>3 DEF Decide
<1>4. ASSUME NEW f \in Failovers, Proceed(f) PROVE TypeOK'
  BY <1>4, FailoverProceeds
<1>5. CASE Servers
  BY <1>5 DEF Servers, Write, Replicate, PrimaryChanges, TypeOK
<1>6. CASE UNCHANGED vars
  BY <1>6 DEF vars, servers, TypeOK
<1> QED
  BY <1>1, <1>2, <1>3, <1>4, <1>5, <1>6 DEF Next

\* In every reachable state every variable has its type, and a failover's status
\* and what it has promoted follow the steps of initiateFailover: one that is
\* reported completed has promoted the secondary, one that was refused or timed
\* out before that has not.
THEOREM TypeCorrect == Spec => []TypeOK
<1>1. Init => TypeOK
  <2> SUFFICES ASSUME Init PROVE TypeOK
    OBVIOUS
  <2>1. /\ status \in [Failovers -> {"none", "pending", "in_progress", "failed",
                                   "completed", "rolled_back"}]
        /\ pc \in [Failovers -> Under \cup {"none", "validate", "rollback", "done"}]
        /\ promoted \in [Failovers -> {"no", "whole", "lacking"}]
        /\ looks \in [Failovers -> 0..MaxLooks]
        /\ check \in [Checks -> {"idle", "metrics"}]
    BY FailoverAssumption DEF Init
  <2>2. \A f \in Failovers : status[f] = "none" /\ pc[f] = "none" /\ promoted[f] = "no"
    BY DEF Init
  <2> QED
    BY <2>1, <2>2 DEF Init, TypeOK, Under
<1> QED
  BY <1>1, FailoverNextKeeps, PTL DEF Spec

=============================================================================
