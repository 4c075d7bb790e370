---------------------------- MODULE SourceFiles ----------------------------
(***************************************************************************)
(* The files of an account: how an upload and the copy a job works on are  *)
(* staged, published together with their rows, and deleted again, in       *)
(* unrender/product/service.py, storage.py, lifecycle.py.  A file cannot   *)
(* be written inside an SQLite transaction, so a path is reserved before   *)
(* anything is written to it, a deletion is queued in the transaction that *)
(* removes the row and done later, and a sweep looks for what crashed      *)
(* requests left behind.                                                   *)
(*                                                                         *)
(* Abstractions.  A path is its directory and the request that named it    *)
(* (names are UUIDs); contents, sizes and quotas are left out, and a       *)
(* request may fail wherever the code may raise.  One account; what its    *)
(* jobs compute is in ExtractionJobs.  BEGIN IMMEDIATE and the operations  *)
(* lock are one writer: a transaction that touches no file is one step,    *)
(* the one that publishes files holds the writer over several.             *)
(***************************************************************************)
EXTENDS Integers

CONSTANTS
    Ops,           \* requests that publish files
    Kind,          \* "upload", "job" (copies an upload) or "api" (does both)
    From,          \* whose upload a "job" request copies
    Nobody

ASSUME FilesAssumption ==
    /\ Nobody \notin Ops
    /\ Kind \in [Ops -> {"upload", "job", "api"}]
    /\ From \in [Ops -> Ops] /\ \A o \in Ops : Kind[o] # "job" => From[o] = o

VARIABLES
    files,         \* paths that exist
    old,           \* of these, the ones past the grace of the sweep
    uploads,       \* table uploads: the requests whose upload has a row
    jobs,          \* table jobs: status of the job of each request
    reservations,  \* table storage_reservations
    pending,       \* table pending_deletions
    account,       \* the row of table users
    pc,            \* what each request does next
    writer,        \* the request that holds a transaction open
    sweep,         \* reconcile_storage between its three steps
    deleting       \* the paths a deletion request waits for, and its answer

filesVars == <<files, old, uploads, jobs, reservations, pending, account, pc,
               writer, sweep, deleting>>
rows == <<uploads, jobs, account>>

Staging(o) == <<"staging", o>>
Upload(o) == <<"uploads", o>>
Source(o) == <<"jobs", o>>
Temporary(o) == <<"temporary", o>>
Paths == {"staging", "uploads", "jobs", "temporary"} \X Ops
Own(o) == {Staging(o), Upload(o), Source(o)}

Step == {"idle", "staging", "staged", "sized", "aimed", "reserved", "open", "moved",
         "copying", "copied", "unstaging", "failing", "releasing", "stopped",
         "published"}
InTransaction == {"open", "moved", "copying", "copied"}
InFlight == Step \ {"idle", "stopped", "published"}
Status == {"none", "queued", "running", "finished"}
NoRequest == [paths |-> {}, answer |-> "none"]

Init ==
    /\ files = {} /\ old = {} /\ uploads = {} /\ reservations = {} /\ pending = {}
    /\ jobs = [o \in Ops |-> "none"]
    /\ account \in {"customer", "demo"}
    /\ pc = [o \in Ops |-> "idle"]
    /\ writer = Nobody
    /\ sweep = [step |-> "idle", paths |-> {}]
    /\ deleting = NoRequest

-----------------------------------------------------------------------------
(* Rows and files                                                          *)

HasJob == {o \in Ops : jobs[o] # "none"}
Owned(p) == \/ \E o \in uploads : p = Upload(o)
            \/ \E o \in HasJob : p = Source(o)
Reserved(p) == \E r \in reservations : r.path = p
Referenced(p) == Owned(p) \/ Reserved(p)
OwnReservations(o) == {r \in reservations : r.op = o}
Reservation(o, p) == [op |-> o, path |-> p, expired |-> FALSE]

Unlink(gone) == files' = files \ gone /\ old' = old \ gone
Goto(o, next) == pc' = [pc EXCEPT ![o] = next]
KeepFiles == UNCHANGED <<files, old>>

-----------------------------------------------------------------------------
(* Publication                                                             *)

\* _reserve_storage_bytes: the path of the staged file, or of the job's copy.
Reserve(o) ==
    /\ writer = Nobody /\ account # "gone"
    /\ \/ /\ pc[o] = "idle" /\ Kind[o] = "job" /\ From[o] \in uploads
          /\ reservations' = reservations \cup {Reservation(o, Source(o))}
          /\ Goto(o, "reserved")
       \/ /\ pc[o] = "idle" /\ Kind[o] # "job" /\ (Kind[o] = "api" => account = "customer")
          /\ reservations' = reservations \cup {Reservation(o, Staging(o))}
          /\ Goto(o, "staging")
       \/ /\ pc[o] = "aimed" /\ Kind[o] = "api"
          /\ reservations' = reservations \cup {Reservation(o, Source(o))}
          /\ Goto(o, "reserved")
    /\ KeepFiles
    /\ UNCHANGED <<rows, pending, writer, sweep, deleting>>

\* stage_upload: the request's bytes, under the shared operations lock only.
Stage(o) ==
    /\ pc[o] = "staging"
    /\ files' = files \cup {Staging(o)}
    /\ Goto(o, "staged")
    /\ UNCHANGED <<old, rows, reservations, pending, writer, sweep, deleting>>

\* A reservation another request finds past its time cannot be used any more.
Usable(o, p) == Reservation(o, p) \in reservations

\* _resize_storage_reservation: to the true size, and later to the path in
\* uploads; each renews the reservation, and needs one that stands.
Resize(o) ==
    /\ writer = Nobody /\ Usable(o, Staging(o))
    /\ \/ /\ pc[o] = "staged"
          /\ Goto(o, "sized")
          /\ UNCHANGED reservations
       \/ /\ pc[o] = "sized"
          /\ reservations' = (reservations \ OwnReservations(o))
                                \cup {Reservation(o, Upload(o))}
          /\ Goto(o, "aimed")
    /\ KeepFiles
    /\ UNCHANGED <<rows, pending, writer, sweep, deleting>>

\* The transaction that publishes; it needs the account, and create_job reads
\* its upload again in it.
Begin(o) ==
    /\ writer = Nobody /\ account # "gone"
    /\ pc[o] = IF Kind[o] = "upload" THEN "aimed" ELSE "reserved"
    /\ Kind[o] = "job" => From[o] \in uploads
    /\ writer' = o
    /\ Goto(o, "open")
    /\ KeepFiles
    /\ UNCHANGED <<rows, reservations, pending, sweep, deleting>>

\* commit_staged_upload: the file keeps its time of modification.
Move(o) ==
    /\ pc[o] = "open" /\ Kind[o] # "job" /\ Staging(o) \in files
    /\ files' = (files \ {Staging(o)}) \cup {Upload(o)}
    /\ old' = IF Staging(o) \in old THEN (old \ {Staging(o)}) \cup {Upload(o)} ELSE old
    /\ Goto(o, "moved")
    /\ UNCHANGED <<rows, reservations, pending, writer, sweep, deleting>>

\* copy_to_job: a temporary file, then the file the job works on.
Copy(o) ==
    /\ \/ pc[o] = "open" /\ Kind[o] = "job" /\ Upload(From[o]) \in files
       \/ pc[o] = "moved" /\ Kind[o] = "api" /\ Upload(o) \in files
    /\ files' = files \cup {Temporary(o)}
    /\ Goto(o, "copying")
    /\ UNCHANGED <<old, rows, reservations, pending, writer, sweep, deleting>>

Rename(o) ==
    /\ pc[o] = "copying"
    /\ files' = (files \ {Temporary(o)}) \cup {Source(o)}
    /\ old' = IF Temporary(o) \in old THEN (old \ {Temporary(o)}) \cup {Source(o)} ELSE old
    /\ Goto(o, "copied")
    /\ UNCHANGED <<rows, reservations, pending, writer, sweep, deleting>>

\* _consume_storage_reservation: every path published is still held.
HoldsNothing(o) == TRUE
Holds(o) == /\ Kind[o] # "job" => Usable(o, Upload(o))
            /\ Kind[o] # "upload" => Usable(o, Source(o))

Commit(o) ==
    /\ pc[o] = IF Kind[o] = "upload" THEN "moved" ELSE "copied"
    /\ Holds(o)
    /\ uploads' = IF Kind[o] = "job" THEN uploads ELSE uploads \cup {o}
    /\ jobs' = IF Kind[o] = "upload" THEN jobs ELSE [jobs EXCEPT ![o] = "queued"]
    /\ reservations' = reservations \ OwnReservations(o)
    /\ writer' = Nobody
    /\ Goto(o, "published")
    /\ KeepFiles
    /\ UNCHANGED <<account, pending, sweep, deleting>>

\* Another request with the same key was first: nothing is published.
Replay(o) ==
    /\ pc[o] = "open" /\ Kind[o] # "upload"
    /\ Unlink({Staging(o)})
    /\ reservations' = reservations \ OwnReservations(o)
    /\ writer' = Nobody
    /\ Goto(o, "stopped")
    /\ UNCHANGED <<rows, pending, sweep, deleting>>

\* Something raised.  An open transaction is rolled back, and copy_to_job
\* takes its temporary file with it.
Fail(o) ==
    /\ pc[o] \in InFlight \ {"unstaging", "failing", "releasing"}
    /\ writer' = IF writer = o THEN Nobody ELSE writer
    /\ Unlink({Temporary(o)})
    /\ Goto(o, IF pc[o] \in {"staging", "staged"} THEN "unstaging" ELSE "failing")
    /\ UNCHANGED <<rows, reservations, pending, sweep, deleting>>

\* The handler of the exception removes what the request wrote.  "kept" is
\* what it cannot remove: _stage_upload_with_reservation queues the staged
\* file and the API the published ones; the rest is raised, and the
\* reservation stays until it expires.
QueuedOnFailure(o) ==
    IF pc[o] = "unstaging" THEN {Staging(o)}
    ELSE IF Kind[o] = "api" THEN {Upload(o), Source(o)} ELSE {}

GiveUp(o, kept) ==
    /\ pc[o] \in {"unstaging", "failing"} /\ kept \subseteq Own(o) \cap files
    /\ Unlink(Own(o) \ kept)
    /\ kept \cap QueuedOnFailure(o) # {} => writer = Nobody
    /\ pending' = pending \cup (kept \cap QueuedOnFailure(o))
    /\ Goto(o, IF kept \subseteq QueuedOnFailure(o) THEN "releasing" ELSE "stopped")
    /\ UNCHANGED <<rows, reservations, writer, sweep, deleting>>

Release(o) ==
    /\ pc[o] = "releasing" /\ writer = Nobody
    /\ reservations' = reservations \ OwnReservations(o)
    /\ Goto(o, "stopped")
    /\ KeepFiles
    /\ UNCHANGED <<rows, pending, writer, sweep, deleting>>

\* The process dies: SQLite rolls back, files and reservations stay.
Crash(o) ==
    /\ pc[o] \in InFlight
    /\ writer' = IF writer = o THEN Nobody ELSE writer
    /\ Goto(o, "stopped")
    /\ KeepFiles
    /\ UNCHANGED <<rows, reservations, pending, sweep, deleting>>

-----------------------------------------------------------------------------
(* Jobs, as far as their files are concerned: process_one, cancel, retry   *)

Work(o) ==
    /\ writer = Nobody
    /\ \/ jobs[o] = "queued" /\ \E next \in {"running", "finished"} :
             jobs' = [jobs EXCEPT ![o] = next]
       \/ jobs[o] = "running" /\ \E next \in {"queued", "finished"} :
             jobs' = [jobs EXCEPT ![o] = next]
       \/ jobs[o] = "finished" /\ jobs' = [jobs EXCEPT ![o] = "queued"]
    /\ KeepFiles
    /\ UNCHANGED <<uploads, account, reservations, pending, pc, writer, sweep, deleting>>

-----------------------------------------------------------------------------
(* Deletion: rows go and paths are queued in one transaction               *)

RowPaths(U, J) == {Upload(o) : o \in U} \cup {Source(o) : o \in J}
DropRows(U, J) ==
    /\ uploads' = uploads \ U
    /\ jobs' = [o \in Ops |-> IF o \in J THEN "none" ELSE jobs[o]]
    /\ pending' = pending \cup RowPaths(U, J)
Await(paths) == deleting.answer # "waiting"
                /\ deleting' = [paths |-> paths, answer |-> "waiting"]

\* The upload a job was made from goes with the last job made from it.
LastOf(o) == \A other \in HasJob \ {o} : From[other] # From[o]
UploadOf(o) == IF From[o] \in uploads /\ LastOf(o) THEN {From[o]} ELSE {}

DeleteJob(o) ==
    /\ writer = Nobody /\ jobs[o] = "finished"
    /\ DropRows(UploadOf(o), {o})
    /\ Await(RowPaths(UploadOf(o), {o}))
    /\ KeepFiles
    /\ UNCHANGED <<account, reservations, pc, writer, sweep>>

DiscardUpload(o) ==
    /\ writer = Nobody /\ o \in uploads
    /\ DropRows({o}, {})
    /\ Await({Upload(o)})
    /\ KeepFiles
    /\ UNCHANGED <<account, reservations, pc, writer, sweep>>

\* cleanup_expired: what is past its retention.
ExpireRows(U, J) ==
    /\ writer = Nobody /\ U \cup J # {}
    /\ DropRows(U, J)
    /\ KeepFiles
    /\ UNCHANGED <<account, reservations, pc, writer, sweep, deleting>>

\* Refused while a job runs or a publication is in flight; a reservation that
\* has expired is queued like the rest.
DeleteAccount ==
    /\ writer = Nobody /\ account = "customer"
    /\ \A o \in Ops : jobs[o] # "running"
    /\ \A r \in reservations : r.expired
    /\ LET paths == RowPaths(uploads, HasJob) \cup {r.path : r \in reservations}
       IN /\ pending' = pending \cup paths
          /\ Await(pending \cup paths)
    /\ uploads' = {} /\ reservations' = {}
    /\ jobs' = [o \in Ops |-> "none"]
    /\ account' = "gone"
    /\ KeepFiles
    /\ UNCHANGED <<pc, writer, sweep>>

\* A sample account ends with its session: its reservations go by cascade.
EndDemo ==
    /\ writer = Nobody /\ account = "demo"
    /\ DropRows(uploads, HasJob)
    /\ reservations' = {}
    /\ account' = "gone"
    /\ KeepFiles
    /\ UNCHANGED <<pc, writer, sweep, deleting>>

\* drain_deletion_queue, one path: the lock is exclusive, and the path is
\* looked up again.  A file that could not be removed stays in the queue.
QueuedNoMore(p, removed) == pending \ {p}
StillQueued(p, removed) == IF removed THEN pending \ {p} ELSE pending

Drain(p, removed) ==
    /\ writer = Nobody /\ p \in pending
    /\ \/ /\ Referenced(p)
          /\ pending' = pending \ {p} /\ KeepFiles
       \/ /\ ~Referenced(p)
          /\ Unlink(IF removed THEN {p} ELSE {})
          /\ pending' = StillQueued(p, removed)
    /\ UNCHANGED <<rows, reservations, pc, writer, sweep, deleting>>

\* finish_file_deletion, after its own attempts; a lock or a disk that does
\* not answer defers it as well.
Answer ==
    /\ deleting.answer = "waiting"
    /\ \/ /\ deleting.paths \cap pending = {}
          /\ deleting' = [paths |-> {}, answer |-> "done"]
       \/ deleting' = [paths |-> {}, answer |-> "queued"]
    /\ KeepFiles
    /\ UNCHANGED <<rows, reservations, pending, pc, writer, sweep>>

-----------------------------------------------------------------------------
(* Recovery                                                                *)

\* The reservation's hour is over.
Expire(r) ==
    /\ ~r.expired
    /\ reservations' = (reservations \ {r}) \cup {[r EXCEPT !.expired = TRUE]}
    /\ KeepFiles
    /\ UNCHANGED <<rows, pending, pc, writer, sweep, deleting>>

CleanupReservations ==
    LET expired == {r \in reservations : r.expired}
    IN /\ writer = Nobody /\ expired # {}
       /\ pending' = pending \cup {r.path : r \in expired}
       /\ reservations' = reservations \ expired
       /\ KeepFiles
       /\ UNCHANGED <<rows, pc, writer, sweep, deleting>>

\* The file is older than reconciliation_grace_seconds.
Age(p) ==
    /\ p \in files \ old
    /\ old' = old \cup {p}
    /\ UNCHANGED <<files, rows, reservations, pending, pc, writer, sweep, deleting>>

\* reconcile_storage: the paths the database knows, then the files on the
\* disk, then a transaction over what only the disk has.
ListedPublished == {p \in old : p[1] # "staging"}
Listed == old

SweepRead ==
    /\ sweep.step = "idle"
    /\ sweep' = [step |-> "read", paths |-> pending \cup {p \in Paths : Referenced(p)}]
    /\ KeepFiles
    /\ UNCHANGED <<rows, reservations, pending, pc, writer, deleting>>

SweepList ==
    /\ sweep.step = "read"
    /\ sweep' = [step |-> "listed", paths |-> Listed \ sweep.paths]
    /\ KeepFiles
    /\ UNCHANGED <<rows, reservations, pending, pc, writer, deleting>>

SweepQueue ==
    /\ sweep.step = "listed" /\ (sweep.paths # {} => writer = Nobody)
    /\ pending' = pending \cup {p \in sweep.paths : ~Referenced(p)}
    /\ sweep' = [step |-> "idle", paths |-> {}]
    /\ KeepFiles
    /\ UNCHANGED <<rows, reservations, pc, writer, deleting>>

-----------------------------------------------------------------------------
Publish(o) ==
    \/ Reserve(o) \/ Stage(o) \/ Resize(o) \/ Begin(o) \/ Move(o) \/ Copy(o) \/ Rename(o)
    \/ Commit(o) \/ Replay(o) \/ Fail(o) \/ Release(o) \/ Crash(o)
    \/ \E kept \in SUBSET Own(o) : GiveUp(o, kept)

Next ==
    \/ \E o \in Ops : Publish(o) \/ Work(o) \/ DeleteJob(o) \/ DiscardUpload(o)
    \/ \E U \in SUBSET uploads, J \in SUBSET {o \in Ops : jobs[o] = "finished"} :
          ExpireRows(U, J)
    \/ DeleteAccount \/ EndDemo \/ Answer
    \/ \E p \in Paths, removed \in BOOLEAN : Drain(p, removed)
    \/ \E r \in reservations : Expire(r)
    \/ CleanupReservations
    \/ \E p \in Paths : Age(p)
    \/ SweepRead \/ SweepList \/ SweepQueue

Spec == Init /\ [][Next]_filesVars

\* Requests end, time passes, and the worker repeats the clean-up every hour;
\* a file the disk refuses to remove is removed in the end.
Recovery ==
    /\ \A o \in Ops : WF_filesVars(pc[o] # "idle" /\ Publish(o))
    /\ \A o \in Ops, p \in Paths, e \in BOOLEAN :
          WF_filesVars([op |-> o, path |-> p, expired |-> e] \in reservations
                       /\ Expire([op |-> o, path |-> p, expired |-> e]))
    /\ WF_filesVars(CleanupReservations)
    /\ \A p \in Paths : WF_filesVars(Age(p)) /\ WF_filesVars(Drain(p, TRUE))
    /\ WF_filesVars(SweepRead) /\ WF_filesVars(SweepList) /\ WF_filesVars(SweepQueue)

FairSpec == Spec /\ Recovery

-----------------------------------------------------------------------------
\* Types; the request that holds the writer is the one whose transaction is
\* open, only files have an age, and what is queued is a path of the product.
FilesTypeOK ==
    /\ files \subseteq Paths /\ old \subseteq files
    /\ uploads \subseteq Ops /\ jobs \in [Ops -> Status]
    /\ reservations \subseteq [op : Ops, path : Paths, expired : BOOLEAN]
    /\ pending \subseteq Paths
    /\ account \in {"customer", "demo", "gone"}
    /\ pc \in [Ops -> Step]
    /\ writer \in Ops \cup {Nobody}
    /\ \A o \in Ops : pc[o] \in InTransaction <=> writer = o
    /\ sweep \in [step : {"idle", "read", "listed"}, paths : SUBSET Paths]
    /\ deleting \in [paths : SUBSET Paths,
                     answer : {"none", "waiting", "done", "queued"}]

\* An upload or a job that has a row has its file: no clean-up, however late
\* or stale what it read, removes the source of an extraction (the snapshot
\* of reconcile_storage, expired reservations, the deletion queue).
SourcesExist == \A p \in Paths : Owned(p) => p \in files

\* The deletion queue never holds a path that a row still names, so that a
\* failed or expired publication cannot be queued and published both.
NothingOwnedIsQueued == \A p \in pending : ~Owned(p)

\* A deletion reported as done is done: what had been published under the
\* paths it was about is no longer on the disk.
DoneMeansGone ==
    [][ deleting.answer = "waiting" /\ deleting'.answer = "done" =>
        \A o \in Ops : pc[o] = "published" =>
            deleting.paths \cap {Upload(o), Source(o)} \cap files = {} ]_filesVars

\* Every file that no row names is removed in the end, whatever was written by
\* a request that failed, crashed, lost its reservation or its account.
NothingLingers == \A p \in Paths : p \in files ~> (p \notin files \/ Owned(p))
=============================================================================
