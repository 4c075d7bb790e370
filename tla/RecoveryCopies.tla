------------------------------ MODULE RecoveryCopies ------------------------------
(***************************************************************************)
(* Recovery copies of the product: create_backup and restore_backup of     *)
(* unrender/product/backup.py, the locks of database.py they rely on, and  *)
(* the daily off-host copy of scheduled_backup.py.  A copy is a snapshot   *)
(* of the database and of the files it names, taken under the exclusive    *)
(* operations lock, packed into an archive, uploaded under a name that     *)
(* tells its time and digest, read back, and only then are older archives  *)
(* removed, in the order of their names.                                   *)
(*                                                                         *)
(* Abstractions.  The live product is one set of sources: what publishes   *)
(* and deletes them step by step is in SourceFiles, and here only what a   *)
(* lock separates.  Time is counted in intervals of 24 hours.  An archive  *)
(* is its time, its snapshot and whether its bytes have the digest of its  *)
(* name; two of one time do not exist (a run that finds one takes it up).  *)
(***************************************************************************)
EXTENDS Integers, FiniteSets, FiniteSetsExt

CONSTANTS
    Sources,        \* files of uploads and jobs
    Retain,         \* _RETAIN
    LastTime,       \* bound of the model
    Faults          \* the scheduler's child dies, uploads are corrupted

ASSUME CopiesAssumption ==
    /\ Retain \in Nat \ {0} /\ LastTime \in Nat \ {0}
    /\ Faults \in BOOLEAN

VARIABLES
    live,       \* the rows, reservations and files of the product
    publishing, \* the requests between the reservation and the row of a source
    lock,       \* .operations.lock: "free", "shared" by publishers, "backup"
    clock,
    archives,   \* the archives of the backup volume
    backup,     \* the scheduler's child
    status,     \* backup-status.json: the time of the archive it names, or 0
    verified,   \* history: times of archives that were read back
    restored    \* history: the last restore, if one was made

copiesVars == <<live, publishing, lock, clock, archives, backup, status, verified, restored>>

Times == 1 .. LastTime
Snapshot == [rows: SUBSET Sources, reserved: SUBSET Sources, files: SUBSET Sources]
NoSnapshot == [rows |-> {}, reserved |-> {}, files |-> {}]
Archive == [time: Times, good: BOOLEAN, snapshot: Snapshot]

CopiesTypeOK ==
    /\ live \in Snapshot
    /\ publishing \in [Sources -> {"no", "reserved", "writing", "moved"}]
    /\ lock \in {"free", "shared", "backup"}
    /\ clock \in Times
    /\ archives \subseteq Archive
    /\ backup \in [pc: {"idle", "listed", "locked", "copying", "packed", "uploaded",
                        "verified", "pruned"},
                   snapshot: Snapshot, time: {0} \cup Times]
    /\ status \in {0} \cup Times
    /\ verified \subseteq Times
    /\ restored \in {"nothing", "whole", "refused"}

NoBackup == [pc |-> "idle", snapshot |-> NoSnapshot, time |-> 0]

CopiesInit ==
    /\ live = NoSnapshot
    /\ publishing = [f \in Sources |-> "no"]
    /\ lock = "free"
    /\ clock = 1
    /\ archives = {}
    /\ backup = NoBackup
    /\ status = 0
    /\ verified = {}
    /\ restored = "nothing"

-----------------------------------------------------------------------------
(* The product                                                             *)

PublishTo(f, step) == publishing' = [publishing EXCEPT ![f] = step]
Unlocks(f) == lock' = IF \E g \in Sources \ {f} : publishing[g] \in {"writing", "moved"}
                      THEN "shared" ELSE "free"

\* A transaction of its own; the file comes later.
ReserveSource(f) ==
    /\ publishing[f] = "no" /\ f \notin live.rows \cup live.files
    /\ lock # "backup"
    /\ live' = [live EXCEPT !.reserved = @ \cup {f}]
    /\ PublishTo(f, "reserved")
    /\ UNCHANGED <<lock, clock, archives, backup, status, verified, restored>>

OpenPublication(f) ==
    /\ publishing[f] = "reserved"
    /\ lock # "backup"
    /\ lock' = "shared"
    /\ PublishTo(f, "writing")
    /\ UNCHANGED <<live, clock, archives, backup, status, verified, restored>>

MoveSource(f) ==
    /\ publishing[f] = "writing"
    /\ live' = [live EXCEPT !.files = @ \cup {f}]
    /\ PublishTo(f, "moved")
    /\ UNCHANGED <<lock, clock, archives, backup, status, verified, restored>>

CommitSource(f) ==
    /\ publishing[f] = "moved"
    /\ live' = [live EXCEPT !.rows = @ \cup {f}, !.reserved = @ \ {f}]
    /\ PublishTo(f, "no")
    /\ Unlocks(f)
    /\ UNCHANGED <<clock, archives, backup, status, verified, restored>>

\* The reservation and the file stay until housekeeping removes them.
CrashPublication(f) ==
    /\ publishing[f] # "no"
    /\ PublishTo(f, "no")
    /\ Unlocks(f)
    /\ UNCHANGED <<live, clock, archives, backup, status, verified, restored>>

\* The row goes under the shared lock, the file under the exclusive one; so do
\* the reservation and the file a publication has left.
DeleteRow(f) ==
    /\ f \in live.rows \/ (f \in live.reserved /\ publishing[f] = "no")
    /\ lock # "backup"
    /\ live' = [live EXCEPT !.rows = @ \ {f}, !.reserved = @ \ {f}]
    /\ UNCHANGED <<publishing, lock, clock, archives, backup, status, verified, restored>>

DrainFile(f) ==
    /\ lock = "free"
    /\ f \in live.files \ (live.rows \cup live.reserved)
    /\ live' = [live EXCEPT !.files = @ \ {f}]
    /\ UNCHANGED <<publishing, lock, clock, archives, backup, status, verified, restored>>

-----------------------------------------------------------------------------
(* The snapshot                                                            *)

BackupTo(pc) == backup' = [backup EXCEPT !.pc = pc]
BackupOver == backup' = NoBackup

\* Mutant: the reservations are not looked at.
LockWithoutDrain ==
    /\ backup.pc = "listed"
    /\ IF lock = "free"
       THEN lock' = "backup" /\ BackupTo("locked")
       ELSE BackupOver /\ UNCHANGED lock
    /\ UNCHANGED <<live, publishing, clock, archives, status, verified, restored>>

\* operational_lock(exclusive, timeout 0): a request that holds it fails the
\* backup, and so does a publication in flight.
ExclusiveLock ==
    /\ backup.pc = "listed"
    /\ IF lock = "free" /\ live.reserved = {}
       THEN lock' = "backup" /\ BackupTo("locked")
       ELSE BackupOver /\ UNCHANGED lock
    /\ UNCHANGED <<live, publishing, clock, archives, status, verified, restored>>

CopyDatabase ==
    /\ backup.pc = "locked"
    /\ backup' = [backup EXCEPT !.pc = "copying",
                     !.snapshot = [live EXCEPT !.files = {}]]
    /\ UNCHANGED <<live, publishing, lock, clock, archives, status, verified, restored>>

\* A committed source that is missing fails the backup.
CopySource ==
    LET missing == backup.snapshot.rows \ backup.snapshot.files
    IN  /\ backup.pc = "copying"
        /\ \E f \in missing :
              IF f \in live.files
              THEN backup' = [backup EXCEPT !.snapshot.files = @ \cup {f}] /\ UNCHANGED lock
              ELSE BackupOver /\ lock' = "free"
        /\ UNCHANGED <<live, publishing, clock, archives, status, verified, restored>>

\* The manifest is written, the lock released and the snapshot packed.
Pack ==
    /\ backup.pc = "copying"
    /\ backup.snapshot.rows \subseteq backup.snapshot.files
    /\ BackupTo("packed")
    /\ lock' = "free"
    /\ UNCHANGED <<live, publishing, clock, archives, status, verified, restored>>

-----------------------------------------------------------------------------
(* The archive                                                             *)

ArchiveTimes == {a.time : a \in archives}
Newest == CHOOSE a \in archives : \A b \in archives : b.time <= a.time
Recent(t) == t <= clock /\ clock < t + 1

\* ScheduledBackup.due, from the status file.
Due == status = 0 \/ ~Recent(status)

\* upload_backup: a run that finds one archive too many, or a recent one, takes
\* up where the run before it has stopped.
StartBackup ==
    /\ backup.pc = "idle" /\ Due
    /\ Cardinality(archives) <= Retain + 1
    /\ IF archives # {} /\ (Cardinality(archives) = Retain + 1 \/ Recent(Newest.time))
       THEN backup' = [NoBackup EXCEPT !.pc = "uploaded", !.time = Newest.time]
       ELSE BackupTo("listed")
    /\ UNCHANGED <<live, publishing, lock, clock, archives, status, verified, restored>>

UploadArchive ==
    /\ backup.pc = "packed" /\ clock \notin ArchiveTimes
    /\ \E good \in IF Faults THEN BOOLEAN ELSE {TRUE} :
          archives' = archives \cup {[time |-> clock, good |-> good, snapshot |-> backup.snapshot]}
    /\ backup' = [NoBackup EXCEPT !.pc = "uploaded", !.time = clock]
    /\ UNCHANGED <<live, publishing, lock, clock, status, verified, restored>>

Named(t) == CHOOSE a \in archives : a.time = t

\* Mutant: the archive is not read back.
TrustUpload ==
    /\ backup.pc = "uploaded"
    /\ BackupTo("verified") /\ verified' = verified \cup {backup.time}
    /\ UNCHANGED <<live, publishing, lock, clock, archives, status, restored>>

VerifyArchive ==
    /\ backup.pc = "uploaded"
    /\ IF Named(backup.time).good
       THEN BackupTo("verified") /\ verified' = verified \cup {backup.time}
       ELSE BackupOver /\ UNCHANGED verified
    /\ UNCHANGED <<live, publishing, lock, clock, archives, status, restored>>

\* _finish: all but the last names, one by one.
PruneArchive ==
    /\ backup.pc = "verified"
    /\ IF Cardinality(archives) > Retain
       THEN archives' = archives \ {Named(Min(ArchiveTimes))} /\ UNCHANGED backup
       ELSE BackupTo("pruned") /\ UNCHANGED archives
    /\ UNCHANGED <<live, publishing, lock, clock, status, verified, restored>>

\* A status file that cannot be written is logged.
WriteStatus ==
    /\ backup.pc = "pruned"
    /\ status' \in IF Faults THEN {backup.time, status} ELSE {backup.time}
    /\ BackupOver
    /\ UNCHANGED <<live, publishing, lock, clock, archives, verified, restored>>

\* The child ends, by a fault or after ten minutes; the system frees its lock.
KillBackup ==
    /\ Faults /\ backup.pc # "idle"
    /\ BackupOver
    /\ lock' = IF lock = "backup" THEN "free" ELSE lock
    /\ UNCHANGED <<live, publishing, clock, archives, status, verified, restored>>

-----------------------------------------------------------------------------
(* Restoring, and time                                                     *)

\* restore_backup: hashes, integrity, no publication in flight, every source.
Restorable(s) == s.reserved = {} /\ s.rows \subseteq s.files

Restore(a) ==
    /\ restored = "nothing" /\ a.time \in verified
    /\ restored' = IF a.good /\ Restorable(a.snapshot) THEN "whole" ELSE "refused"
    /\ UNCHANGED <<live, publishing, lock, clock, archives, backup, status, verified>>

\* By one interval; it is not set back.
ClockMoves ==
    /\ clock + 1 \in Times /\ clock' = clock + 1
    /\ UNCHANGED <<live, publishing, lock, archives, backup, status, verified, restored>>

CopiesNext ==
    \/ \E f \in Sources :
          \/ ReserveSource(f) \/ OpenPublication(f) \/ MoveSource(f) \/ CommitSource(f)
          \/ CrashPublication(f) \/ DeleteRow(f) \/ DrainFile(f)
    \/ StartBackup \/ ExclusiveLock \/ CopyDatabase \/ CopySource \/ Pack
    \/ UploadArchive \/ VerifyArchive \/ PruneArchive \/ WriteStatus \/ KillBackup
    \/ \E a \in archives : Restore(a)
    \/ ClockMoves

CopiesSpec == CopiesInit /\ [][CopiesNext]_copiesVars

-----------------------------------------------------------------------------
(* Properties                                                              *)

\* Once an archive has been read back, the volume always holds one that was,
\* that is still sound, and that restores: whatever dies between the upload
\* and the pruning, and whatever requests publish and delete meanwhile.  And no
\* restore of an archive that was read back is ever refused.
VerifiedCopyKept ==
    /\ verified # {} =>
          \E a \in archives : a.time \in verified /\ a.good /\ Restorable(a.snapshot)
    /\ restored # "refused"
=============================================================================
