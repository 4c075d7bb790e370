--------------------------- MODULE SourceFilesProofs ---------------------------
(***************************************************************************)
(* The files of SourceFiles, for any number of requests: the source of a   *)
(* row is never removed or queued, and a deletion that was answered is     *)
(* done.  None of these is inductive: a path is queued for several         *)
(* reasons, and what keeps it from being published is how far the request  *)
(* that named it has come.                                                 *)
(***************************************************************************)
EXTENDS SourceFiles, TLAPS

\* The steps at which a request may still reach its Commit.
Hopeful == Step \ {"unstaging", "failing", "releasing", "stopped", "published"}

\* Only a request that has published has rows.
RowsArePublished ==
    \A o \in Ops : o \in uploads \/ jobs[o] # "none" => pc[o] = "published"

\* What a request has written so far; its transaction keeps it.
FilesWritten ==
    \A o \in Ops :
        /\ Upload(o) \in files => pc[o] \notin Hopeful \ InTransaction /\ pc[o] # "open"
        /\ Source(o) \in files => pc[o] \notin Hopeful \ {"copied"}
        /\ pc[o] \in {"moved", "copying", "copied"} /\ Kind[o] # "job" => Upload(o) \in files
        /\ pc[o] = "copied" => Source(o) \in files

\* A reservation is for a path of its request, which has not published; there
\* is one for a path at most, and none before the step that makes it.
ReservationsHeld ==
    /\ \A r \in reservations : r.path \in Own(r.op) /\ pc[r.op] \notin {"idle", "published"}
    /\ \A r \in reservations :
          /\ r.path = Upload(r.op) => pc[r.op] \notin {"staging", "staged", "sized"}
          /\ r.path = Source(r.op) => pc[r.op] \notin {"staging", "staged", "sized", "aimed"}
    /\ \A r, s \in reservations : r.path = s.path => r = s

\* A request that is on its way to publish a path that is queued, has lost its
\* reservation and will not get another one.
QueuedIsLost ==
    \A o \in Ops : pc[o] \in Hopeful =>
        /\ Upload(o) \in pending =>
              ~Usable(o, Upload(o)) /\ pc[o] \notin {"idle", "staging", "staged", "sized"}
        /\ Source(o) \in pending =>
              ~Usable(o, Source(o)) /\ pc[o] \notin {"idle", "staging", "staged", "sized", "aimed"}

\* The sweep has found no path that a request has yet to write.
SweepIsLate ==
    sweep.step = "listed" =>
        \A o \in Ops :
            Upload(o) \in sweep.paths \/ Source(o) \in sweep.paths =>
                pc[o] \notin Hopeful \ InTransaction

\* What a deletion waits for is published or will never be, and is in the queue
\* as long as it is on the disk.
DeletionIsQueued ==
    /\ writer # Nobody => account # "gone"
    /\ deleting.answer = "waiting" =>
          \A o \in Ops, p \in deleting.paths : p \in {Upload(o), Source(o)} =>
              /\ pc[o] = "published" \/ account = "gone"
              /\ pc[o] = "published" /\ p \in files => p \in pending

FilesInv ==
    /\ FilesTypeOK
    /\ RowsArePublished /\ FilesWritten /\ ReservationsHeld
    /\ QueuedIsLost /\ SweepIsLate /\ DeletionIsQueued
    /\ SourcesExist /\ NothingOwnedIsQueued

-----------------------------------------------------------------------------
(* Paths                                                                   *)

LEMMA PathNames ==
    ASSUME NEW o \in Ops
    PROVE  /\ {Staging(o), Upload(o), Source(o), Temporary(o)} \subseteq Paths
           /\ Upload(o) # Source(o) /\ Staging(o) # Upload(o) /\ Staging(o) # Source(o)
           /\ Temporary(o) \notin Own(o)
           /\ \A q \in Ops : /\ Upload(q) = Upload(o) => q = o
                             /\ Source(q) = Source(o) => q = o
                             /\ Staging(q) # Upload(o) /\ Staging(q) # Source(o)
                             /\ Temporary(q) # Upload(o) /\ Temporary(q) # Source(o)
                             /\ Upload(q) # Source(o)
  BY DEF Staging, Upload, Source, Temporary, Own, Paths

-----------------------------------------------------------------------------
(* Types                                                                   *)

LEMMA FilesTypeStep == FilesTypeOK /\ [Next]_filesVars => FilesTypeOK'
<1> SUFFICES ASSUME FilesTypeOK, [Next]_filesVars PROVE FilesTypeOK'
  OBVIOUS
<1> USE FilesAssumption DEF Goto, KeepFiles, Unlink, rows, Step, InTransaction
<1>1. ASSUME NEW o \in Ops, Reserve(o) PROVE FilesTypeOK'
  <2>1. {Reservation(o, Staging(o)), Reservation(o, Source(o))}
          \subseteq [op : Ops, path : Paths, expired : BOOLEAN]
    BY PathNames DEF Reservation
  <2>2. /\ reservations' \subseteq reservations \cup {Reservation(o, Staging(o)), Reservation(o, Source(o))}
        /\ pc' \in [Ops -> Step] /\ \A q \in Ops : pc'[q] \in InTransaction <=> pc[q] \in InTransaction
    BY <1>1 DEF Reserve, FilesTypeOK
  <2>3. UNCHANGED <<files, old, uploads, jobs, pending, account, writer, sweep, deleting>>
    BY <1>1 DEF Reserve
  <2>4. reservations' \subseteq [op : Ops, path : Paths, expired : BOOLEAN]
    BY <2>1, <2>2 DEF FilesTypeOK
  <2>5. QED  BY <2>2, <2>3, <2>4 DEF FilesTypeOK
<1>2. ASSUME NEW o \in Ops, Stage(o) PROVE FilesTypeOK'
  BY <1>2, PathNames DEF Stage, FilesTypeOK
<1>3. ASSUME NEW o \in Ops, Resize(o) PROVE FilesTypeOK'
  <2>1. Reservation(o, Upload(o)) \in [op : Ops, path : Paths, expired : BOOLEAN]
    BY PathNames DEF Reservation
  <2>2. /\ reservations' \subseteq reservations \cup {Reservation(o, Upload(o))}
        /\ pc' \in [Ops -> Step] /\ \A q \in Ops : pc'[q] \in InTransaction <=> pc[q] \in InTransaction
    BY <1>3 DEF Resize, FilesTypeOK
  <2>3. UNCHANGED <<files, old, uploads, jobs, pending, account, writer, sweep, deleting>>
    BY <1>3 DEF Resize
  <2>4. reservations' \subseteq [op : Ops, path : Paths, expired : BOOLEAN]
    BY <2>1, <2>2 DEF FilesTypeOK
  <2>5. QED  BY <2>2, <2>3, <2>4 DEF FilesTypeOK
<1>4. ASSUME NEW o \in Ops, Begin(o) PROVE FilesTypeOK'
  BY <1>4, PathNames DEF Begin, FilesTypeOK
<1>5. ASSUME NEW o \in Ops, Move(o) PROVE FilesTypeOK'
  BY <1>5, PathNames DEF Move, FilesTypeOK
<1>6. ASSUME NEW o \in Ops, Copy(o) PROVE FilesTypeOK'
  BY <1>6, PathNames DEF Copy, FilesTypeOK
<1>7. ASSUME NEW o \in Ops, Rename(o) PROVE FilesTypeOK'
  BY <1>7, PathNames DEF Rename, FilesTypeOK
<1>8. ASSUME NEW o \in Ops, Commit(o) PROVE FilesTypeOK'
  BY <1>8, PathNames DEF Commit, FilesTypeOK, OwnReservations, Status
<1>9. ASSUME NEW o \in Ops, Replay(o) PROVE FilesTypeOK'
  BY <1>9, PathNames DEF Replay, FilesTypeOK, OwnReservations
<1>10. ASSUME NEW o \in Ops, Fail(o) PROVE FilesTypeOK'
  BY <1>10, PathNames DEF Fail, FilesTypeOK, InFlight
<1>11. ASSUME NEW o \in Ops, Release(o) PROVE FilesTypeOK'
  BY <1>11, PathNames DEF Release, FilesTypeOK, OwnReservations
<1>12. ASSUME NEW o \in Ops, Crash(o) PROVE FilesTypeOK'
  BY <1>12, PathNames DEF Crash, FilesTypeOK, InFlight
<1>13. ASSUME NEW o \in Ops, NEW kept \in SUBSET Own(o), GiveUp(o, kept) PROVE FilesTypeOK'
  BY <1>13, PathNames DEF GiveUp, FilesTypeOK, Own
<1>14. ASSUME NEW o \in Ops, Work(o) PROVE FilesTypeOK'
  BY <1>14 DEF Work, FilesTypeOK, Status
<1>15. ASSUME NEW o \in Ops, DeleteJob(o) PROVE FilesTypeOK'
  BY <1>15, PathNames DEF DeleteJob, FilesTypeOK, Status, DropRows, RowPaths, UploadOf, Await
<1>16. ASSUME NEW o \in Ops, DiscardUpload(o) PROVE FilesTypeOK'
  BY <1>16, PathNames DEF DiscardUpload, FilesTypeOK, Status, DropRows, RowPaths, Await
<1>17. ASSUME NEW U \in SUBSET uploads, NEW J \in SUBSET {o \in Ops : jobs[o] = "finished"},
              ExpireRows(U, J)
       PROVE  FilesTypeOK'
  BY <1>17, PathNames DEF ExpireRows, FilesTypeOK, Status, DropRows, RowPaths
<1>18. CASE DeleteAccount
  BY <1>18, PathNames DEF DeleteAccount, FilesTypeOK, Status, RowPaths, HasJob, Await
<1>19. CASE EndDemo
  BY <1>19, PathNames DEF EndDemo, FilesTypeOK, Status, DropRows, RowPaths, HasJob
<1>20. CASE Answer
  BY <1>20 DEF Answer, FilesTypeOK
<1>21. ASSUME NEW p \in Paths, NEW removed \in BOOLEAN, Drain(p, removed) PROVE FilesTypeOK'
  BY <1>21 DEF Drain, FilesTypeOK, StillQueued
<1>22. ASSUME NEW r \in reservations, Expire(r) PROVE FilesTypeOK'
  BY <1>22 DEF Expire, FilesTypeOK
<1>23. CASE CleanupReservations
  BY <1>23 DEF CleanupReservations, FilesTypeOK
<1>24. ASSUME NEW p \in Paths, Age(p) PROVE FilesTypeOK'
  BY <1>24 DEF Age, FilesTypeOK
<1>25. CASE SweepRead
  BY <1>25 DEF SweepRead, FilesTypeOK
<1>26. CASE SweepList
  BY <1>26 DEF SweepList, FilesTypeOK, Listed
<1>27. CASE SweepQueue
  BY <1>27 DEF SweepQueue, FilesTypeOK
<1>28. CASE UNCHANGED filesVars
  BY <1>28 DEF FilesTypeOK, filesVars
<1>29. CASE Next
  BY <1>1, <1>2, <1>3, <1>4, <1>5, <1>6, <1>7, <1>8, <1>9, <1>10, <1>11, <1>12, <1>13, <1>14,
     <1>15, <1>16, <1>17, <1>18, <1>19, <1>20, <1>21, <1>22, <1>23, <1>24, <1>25, <1>26,
     <1>27, <1>29 DEF Next, Publish
<1>30. QED  BY <1>28, <1>29

-----------------------------------------------------------------------------
(* Rows                                                                    *)

LEMMA RowsStep == FilesInv /\ [Next]_filesVars => RowsArePublished'
<1> SUFFICES ASSUME FilesInv, [Next]_filesVars PROVE RowsArePublished'
  OBVIOUS
<1> USE DEF FilesInv, FilesTypeOK, RowsArePublished, Goto
<1>1. CASE UNCHANGED <<uploads, jobs, pc>>
  BY <1>1
<1>2. ASSUME NEW o \in Ops, pc[o] # "published", UNCHANGED <<uploads, jobs>>,
             NEW next, Goto(o, next)
      PROVE  RowsArePublished'
  BY <1>2
<1>3. ASSUME NEW o \in Ops, Commit(o) PROVE RowsArePublished'
  BY <1>3 DEF Commit
<1>4. ASSUME NEW o \in Ops, Work(o) PROVE RowsArePublished'
  BY <1>4 DEF Work
<1>5. ASSUME NEW o \in Ops, \/ Reserve(o) \/ Stage(o) \/ Resize(o) \/ Begin(o) \/ Move(o) \/ Copy(o)
                            \/ Rename(o) \/ Replay(o) \/ Fail(o) \/ Release(o) \/ Crash(o)
                            \/ \E kept \in SUBSET Own(o) : GiveUp(o, kept)
      PROVE  RowsArePublished'
  <2>1. UNCHANGED <<uploads, jobs>> /\ pc[o] # "published" /\ \E next : Goto(o, next)
    BY <1>5 DEF Reserve, Stage, Resize, Begin, Move, Copy, Rename, Replay, Fail, Release, Crash,
                GiveUp, InFlight, rows
  <2>2. QED  BY <1>2, <2>1
<1>6. ASSUME NEW U, NEW J, DropRows(U, J), UNCHANGED pc PROVE RowsArePublished'
  BY <1>6 DEF DropRows
<1>7. CASE DeleteAccount
  BY <1>7 DEF DeleteAccount
<1>8. QED
  BY <1>1, <1>3, <1>4, <1>5, <1>6, <1>7
     DEF Next, Publish, DeleteJob, DiscardUpload, ExpireRows, EndDemo, Answer, Drain, Expire,
         CleanupReservations, Age, SweepRead, SweepList, SweepQueue, rows, filesVars

LEMMA SourcesStep == FilesInv /\ [Next]_filesVars => SourcesExist'
<1> SUFFICES ASSUME FilesInv, [Next]_filesVars, NEW p \in Paths, Owned(p)' PROVE p \in files'
  BY DEF SourcesExist
<1> USE DEF FilesInv, FilesTypeOK, SourcesExist, KeepFiles, Unlink, rows
<1>1. ASSUME NEW U, NEW J, DropRows(U, J) PROVE Owned(p)
  BY <1>1 DEF DropRows, Owned, HasJob
<1>2. CASE UNCHANGED files /\ Owned(p)
  BY <1>2
<1>3. CASE UNCHANGED <<uploads, jobs>>
  <2>1. Owned(p) /\ p \in files
    BY <1>3 DEF Owned, HasJob
  <2>2. PICK q \in Ops : (p = Upload(q) /\ q \in uploads) \/ (p = Source(q) /\ jobs[q] # "none")
    BY <2>1 DEF Owned, HasJob
  <2>3. pc[q] = "published"
    BY <2>2 DEF RowsArePublished
  <2>4. ASSUME NEW o \in Ops PROVE p \notin {Staging(o), Temporary(o)}
    BY <2>2, PathNames
  <2>5. ASSUME NEW o \in Ops, Move(o) \/ Rename(o) \/ Replay(o) \/ Fail(o) PROVE p \in files'
    BY <2>1, <2>4, <2>5 DEF Move, Rename, Replay, Fail
  <2>6. ASSUME NEW o \in Ops, NEW kept \in SUBSET Own(o), GiveUp(o, kept) PROVE p \in files'
    <3>1. o # q
      BY <2>3, <2>6 DEF GiveUp
    <3>2. p \notin Own(o)
      BY <2>2, <3>1, PathNames DEF Own
    <3>3. QED  BY <2>1, <2>6, <3>2 DEF GiveUp
  <2>7. ASSUME NEW d \in Paths, NEW removed \in BOOLEAN, Drain(d, removed) PROVE p \in files'
    BY <2>1, <2>7 DEF Drain, Referenced
  <2>8. CASE files \subseteq files'
    BY <2>1, <2>8
  <2>9. ASSUME NEW o \in Ops, Commit(o) \/ Work(o) PROVE p \in files'
    BY <2>1, <2>9 DEF Commit, Work
  <2>10. QED
    BY <2>5, <2>6, <2>7, <2>8, <2>9, <1>3
       DEF Next, Publish, Reserve, Stage, Resize, Begin, Copy, Release, Crash, DeleteJob,
           DiscardUpload, ExpireRows, DeleteAccount, EndDemo, Answer, Expire,
           CleanupReservations, Age, SweepRead, SweepList, SweepQueue, filesVars
<1>4. ASSUME NEW o \in Ops, Commit(o) PROVE p \in files'
  <2>1. \/ Owned(p)
        \/ p = Upload(o) /\ Kind[o] # "job"
        \/ p = Source(o) /\ Kind[o] # "upload"
    <3>1. PICK q \in Ops : (p = Upload(q) /\ q \in uploads') \/ (p = Source(q) /\ jobs'[q] # "none")
      BY <1>4 DEF Owned, HasJob, Commit
    <3>2. /\ q \in uploads' => q \in uploads \/ (q = o /\ Kind[o] # "job")
          /\ jobs'[q] # "none" => jobs[q] # "none" \/ (q = o /\ Kind[o] # "upload")
      BY <1>4 DEF Commit
    <3>3. q \in uploads /\ p = Upload(q) => Owned(p)
      BY DEF Owned
    <3>4. jobs[q] # "none" /\ p = Source(q) => Owned(p)
      BY DEF Owned, HasJob
    <3>5. QED  BY ONLY <3>1, <3>2, <3>3, <3>4
  <2>2. Kind[o] \in {"upload", "job", "api"}
    BY FilesAssumption
  <2>3. QED  BY <1>4, <2>1, <2>2 DEF Commit, FilesWritten
<1>5. ASSUME NEW o \in Ops, Work(o) PROVE p \in files'
  BY <1>5 DEF Work, Owned, HasJob
<1>6. CASE DeleteAccount
  BY <1>6 DEF DeleteAccount, Owned, HasJob
<1>7. QED
  BY <1>1, <1>2, <1>3, <1>4, <1>5, <1>6
     DEF Next, Publish, Reserve, Stage, Resize, Begin, Move, Copy, Rename, Replay, Fail, Release,
         Crash, GiveUp, DeleteJob, DiscardUpload, ExpireRows, EndDemo, Answer, Drain, Expire,
         CleanupReservations, Age, SweepRead, SweepList, SweepQueue, filesVars

-----------------------------------------------------------------------------
(* Files and reservations                                                  *)

LEMMA WrittenStep == FilesInv /\ FilesTypeOK' /\ [Next]_filesVars => FilesWritten'
<1> SUFFICES ASSUME FilesInv, FilesTypeOK', [Next]_filesVars, NEW q \in Ops
             PROVE  /\ Upload(q) \in files' => pc'[q] \notin Hopeful \ InTransaction /\ pc'[q] # "open"
                    /\ Source(q) \in files' => pc'[q] \notin Hopeful \ {"copied"}
                    /\ pc'[q] \in {"moved", "copying", "copied"} /\ Kind[q] # "job"
                          => Upload(q) \in files'
                    /\ pc'[q] = "copied" => Source(q) \in files'
  BY DEF FilesWritten
<1> DEFINE Written(F, s) ==
      /\ Upload(q) \in F => s \notin Hopeful \ InTransaction /\ s # "open"
      /\ Source(q) \in F => s \notin Hopeful \ {"copied"}
      /\ s \in {"moved", "copying", "copied"} /\ Kind[q] # "job" => Upload(q) \in F
      /\ s = "copied" => Source(q) \in F
<1> USE FilesAssumption DEF FilesInv, FilesTypeOK, Goto, KeepFiles, Unlink, Hopeful, InTransaction, Step
<1>1. Written(files, pc[q])
  BY DEF FilesWritten
<1>2. CASE UNCHANGED <<files, pc>>
  BY <1>1, <1>2
<1>3. ASSUME NEW o \in Ops, o # q, Publish(o) PROVE Written(files', pc'[q])
  <2>1. pc'[q] = pc[q]
    BY <1>3 DEF Publish, Reserve, Stage, Resize, Begin, Move, Copy, Rename, Commit, Replay, Fail,
                Release, Crash, GiveUp
  <2>2. {Upload(q), Source(q)} \cap {Staging(o), Temporary(o), Upload(o), Source(o)} = {}
    BY <1>3, PathNames
  <2>3. {Upload(q), Source(q)} \cap files' = {Upload(q), Source(q)} \cap files
    <3>1. ASSUME Move(o) \/ Stage(o) \/ Copy(o) \/ Rename(o) \/ Replay(o) \/ Fail(o)
          PROVE  \A f : f \notin {Staging(o), Temporary(o), Upload(o), Source(o)}
                            => (f \in files' <=> f \in files)
      <4>1. CASE Move(o) \/ Stage(o) \/ Copy(o) \/ Rename(o)
        BY <4>1 DEF Move, Stage, Copy, Rename
      <4>2. CASE Replay(o) \/ Fail(o)
        BY <4>2 DEF Replay, Fail
      <4>3. QED  BY <3>1, <4>1, <4>2
    <3>2. ASSUME Reserve(o) \/ Resize(o) \/ Begin(o) \/ Commit(o) \/ Release(o) \/ Crash(o)
          PROVE  files' = files
      BY <3>2 DEF Reserve, Resize, Begin, Commit, Release, Crash
    <3>3. ASSUME NEW kept \in SUBSET Own(o), GiveUp(o, kept)
          PROVE  \A f : f \notin Own(o) => (f \in files' <=> f \in files)
      BY <3>3 DEF GiveUp
    <3>4. Own(o) \subseteq {Staging(o), Temporary(o), Upload(o), Source(o)}
      BY DEF Own
    <3>5. QED  BY <1>3, <2>2, <3>1, <3>2, <3>3, <3>4 DEF Publish
  <2>4. QED  BY <1>1, <2>1, <2>3
<1>4. ASSUME Publish(q) PROVE Written(files', pc'[q])
  <2> USE PathNames
  <2>1. CASE Reserve(q)
    BY <1>1, <2>1 DEF Reserve
  <2>2. CASE Stage(q)
    BY <1>1, <2>2 DEF Stage
  <2>3. CASE Resize(q)
    BY <1>1, <2>3 DEF Resize
  <2>4. CASE Begin(q)
    BY <1>1, <2>4 DEF Begin
  <2>5. CASE Move(q)
    BY <1>1, <2>5 DEF Move
  <2>6. CASE Copy(q)
    BY <1>1, <2>6 DEF Copy
  <2>7. CASE Rename(q)
    BY <1>1, <2>7 DEF Rename
  <2>8. CASE Commit(q) \/ Replay(q) \/ Fail(q) \/ Release(q) \/ Crash(q)
    BY <1>1, <2>8 DEF Commit, Replay, Fail, Release, Crash, InFlight
  <2>9. ASSUME NEW kept \in SUBSET Own(q), GiveUp(q, kept) PROVE Written(files', pc'[q])
    BY <1>1, <2>9 DEF GiveUp
  <2>10. QED
    BY <1>4, <2>1, <2>2, <2>3, <2>4, <2>5, <2>6, <2>7, <2>8, <2>9 DEF Publish
<1>5. ASSUME NEW p \in Paths, NEW removed \in BOOLEAN, Drain(p, removed) PROVE Written(files', pc'[q])
  BY <1>1, <1>5 DEF Drain
<1>6. \/ UNCHANGED <<files, pc>> \/ \E o \in Ops : Publish(o)
      \/ \E p \in Paths, removed \in BOOLEAN : Drain(p, removed)
  BY DEF Next, Work, DeleteJob, DiscardUpload, ExpireRows, DeleteAccount, EndDemo, Answer, Expire,
         CleanupReservations, Age, SweepRead, SweepList, SweepQueue, filesVars
<1>7. Written(files', pc'[q])
  BY <1>2, <1>3, <1>4, <1>5, <1>6
<1>8. QED  BY <1>7

LEMMA ReservationsStep == FilesInv /\ FilesTypeOK' /\ [Next]_filesVars => ReservationsHeld'
<1> SUFFICES ASSUME FilesInv, FilesTypeOK', [Next]_filesVars PROVE ReservationsHeld'
  OBVIOUS
<1> USE FilesAssumption DEF FilesInv, FilesTypeOK, ReservationsHeld, Goto
<1>1. CASE UNCHANGED pc /\ reservations' \subseteq reservations
  BY <1>1
<1>2. ASSUME NEW o \in Ops, Goto(o, "published") \/ Goto(o, "stopped"),
             reservations' = reservations \ OwnReservations(o)
      PROVE  ReservationsHeld'
  BY <1>2 DEF OwnReservations
<1>3. ASSUME NEW o \in Ops, NEW next \in Step \ {"idle", "published", "staging", "staged", "sized", "aimed"},
             Goto(o, next), UNCHANGED reservations
      PROVE  ReservationsHeld'
  BY <1>3
<1>4. ASSUME NEW o \in Ops, Reserve(o) PROVE ReservationsHeld'
  <2>1. PICK p \in {Staging(o), Source(o)} :
          /\ reservations' = reservations \cup {Reservation(o, p)}
          /\ p = Source(o) => pc[o] \in {"idle", "aimed"} /\ pc'[o] = "reserved"
          /\ p = Staging(o) => pc[o] = "idle" /\ pc'[o] = "staging"
          /\ \A q \in Ops \ {o} : pc'[q] = pc[q]
    <3>1. /\ \A q \in Ops \ {o} : pc'[q] = pc[q]
          /\ \/ /\ reservations' = reservations \cup {Reservation(o, Source(o))}
                /\ pc[o] \in {"idle", "aimed"} /\ pc'[o] = "reserved"
             \/ /\ reservations' = reservations \cup {Reservation(o, Staging(o))}
                /\ pc[o] = "idle" /\ pc'[o] = "staging"
      BY <1>4 DEF Reserve
    <3>2. Staging(o) # Source(o)
      BY PathNames
    <3>3. QED  BY ONLY <3>1, <3>2
  <2>2. \A r \in reservations : r.path # p /\ r.op \in Ops
    <3>1. ASSUME NEW r \in reservations, r.path = p PROVE FALSE
      <4>1. r.op \in Ops /\ r.path \in Own(r.op)
        OBVIOUS
      <4>2. r.op = o
        BY <3>1, <4>1, PathNames DEF Own, Staging, Source, Upload
      <4>3. QED  BY <2>1, <3>1, <4>1, <4>2, PathNames
    <3>2. QED  BY <3>1
  <2>3. ASSUME NEW r \in reservations
        PROVE  /\ r.path \in Own(r.op) /\ pc'[r.op] \notin {"idle", "published"}
               /\ r.path = Upload(r.op) => pc'[r.op] \notin {"staging", "staged", "sized"}
               /\ r.path = Source(r.op) => pc'[r.op] \notin {"staging", "staged", "sized", "aimed"}
    BY <2>1, <2>2
  <2>4. Reservation(o, p).op = o /\ Reservation(o, p).path = p
    BY DEF Reservation
  <2>5. p \in Own(o) /\ p # Upload(o) /\ Staging(o) # Source(o)
    BY PathNames DEF Own
  <2>6. QED  BY <2>1, <2>2, <2>3, <2>4, <2>5
<1>5. ASSUME NEW o \in Ops, Resize(o) PROVE ReservationsHeld'
  <2> DEFINE held == reservations \ OwnReservations(o)
             n == Reservation(o, Upload(o))
  <2>1. CASE Goto(o, "sized") /\ UNCHANGED reservations /\ pc[o] = "staged"
    BY <2>1
  <2>2. CASE pc[o] = "sized" /\ Goto(o, "aimed") /\ reservations' = held \cup {n}
    <3>1. n.op = o /\ n.path = Upload(o) /\ Upload(o) \in Own(o) /\ Upload(o) # Source(o)
      BY PathNames DEF Reservation, Own
    <3>2. \A r \in held : r \in reservations /\ r.op \in Ops /\ r.op # o
      BY DEF OwnReservations
    <3>3. \A r \in held : r.path # Upload(o)
      BY <3>2, PathNames DEF Own
    <3>4. pc'[o] = "aimed" /\ \A q \in Ops \ {o} : pc'[q] = pc[q]
      BY <2>2
    <3> HIDE DEF held, n
    <3>5. QED  BY <2>2, <3>1, <3>2, <3>3, <3>4
  <2>3. QED  BY <1>5, <2>1, <2>2 DEF Resize
<1>6. ASSUME NEW o \in Ops, Stage(o) PROVE ReservationsHeld'
  BY <1>6 DEF Stage
<1>7. ASSUME NEW r \in reservations, Expire(r) PROVE ReservationsHeld'
  BY <1>7 DEF Expire
<1>8. ASSUME NEW o \in Ops, Publish(o) PROVE ReservationsHeld'
  <2>1. CASE Begin(o)
    BY <1>3, <2>1 DEF Begin, Step
  <2>2. CASE Move(o) \/ Copy(o) \/ Rename(o)
    BY <1>3, <2>2 DEF Move, Copy, Rename, Step
  <2>3. CASE Commit(o) \/ Replay(o) \/ Release(o)
    BY <1>2, <2>3 DEF Commit, Replay, Release
  <2>4. CASE Fail(o) \/ Crash(o)
    BY <1>3, <2>4 DEF Fail, Crash, Step
  <2>5. ASSUME NEW kept \in SUBSET Own(o), GiveUp(o, kept) PROVE ReservationsHeld'
    BY <1>3, <2>5 DEF GiveUp, Step
  <2>6. QED  BY <1>4, <1>5, <1>6, <1>8, <2>1, <2>2, <2>3, <2>4, <2>5 DEF Publish
<1>9. QED
  BY <1>1, <1>7, <1>8
     DEF Next, Work, DeleteJob, DiscardUpload, ExpireRows, DeleteAccount, EndDemo, Answer, Drain,
         CleanupReservations, Age, SweepRead, SweepList, SweepQueue, filesVars

-----------------------------------------------------------------------------
(* The queue                                                               *)

LEMMA LostStep == FilesInv /\ FilesTypeOK' /\ ReservationsHeld' /\ [Next]_filesVars => QueuedIsLost'
<1> SUFFICES ASSUME FilesInv, FilesTypeOK', ReservationsHeld', [Next]_filesVars,
                    NEW q \in Ops, pc'[q] \in Hopeful
             PROVE  /\ Upload(q) \in pending' => /\ Reservation(q, Upload(q)) \notin reservations'
                                                 /\ pc'[q] \notin {"idle", "staging", "staged", "sized"}
                    /\ Source(q) \in pending' =>
                          /\ Reservation(q, Source(q)) \notin reservations'
                          /\ pc'[q] \notin {"idle", "staging", "staged", "sized", "aimed"}
  BY DEF QueuedIsLost, Usable, Reservation
<1> DEFINE Lost(o, p, R, s) == Reservation(o, p) \notin R /\ s \notin {"idle", "staging", "staged", "sized"}
           LostNow == /\ Upload(q) \in pending' => Lost(q, Upload(q), reservations', pc'[q])
                      /\ Source(q) \in pending' =>
                            Lost(q, Source(q), reservations', pc'[q]) /\ pc'[q] # "aimed"
<1> USE FilesAssumption DEF FilesInv, FilesTypeOK, Goto, KeepFiles, Unlink, Hopeful, InTransaction, Step
<1>1. pc[q] \in Hopeful =>
        /\ Upload(q) \in pending => Lost(q, Upload(q), reservations, pc[q])
        /\ Source(q) \in pending => Lost(q, Source(q), reservations, pc[q]) /\ pc[q] # "aimed"
  BY DEF QueuedIsLost, Usable
<1>2. CASE UNCHANGED pc /\ reservations' \subseteq reservations /\ pending' \subseteq pending
  BY <1>1, <1>2
<1>3. ASSUME NEW o \in Ops \ {q}, Publish(o) PROVE LostNow
  <2>1. pc'[q] = pc[q]
    BY <1>3 DEF Publish, Reserve, Stage, Resize, Begin, Move, Copy, Rename, Commit, Replay, Fail,
                Release, Crash, GiveUp
  <2>2. pending' \subseteq pending \cup Own(o)
    BY <1>3 DEF Publish, Reserve, Stage, Resize, Begin, Move, Copy, Rename, Commit, Replay, Fail,
                Release, Crash, GiveUp
  <2>3. {Upload(q), Source(q)} \cap Own(o) = {}
    BY PathNames DEF Own
  <2>4. reservations' \subseteq reservations
          \cup {Reservation(o, Staging(o)), Reservation(o, Upload(o)), Reservation(o, Source(o))}
    BY <1>3 DEF Publish, Reserve, Stage, Resize, Begin, Move, Copy, Rename, Commit, Replay, Fail,
                Release, Crash, GiveUp
  <2>5. \A p, s : Reservation(q, p) # Reservation(o, s)
    BY DEF Reservation
  <2>6. QED  BY <1>1, <2>1, <2>2, <2>3, <2>4, <2>5
<1>4. ASSUME Publish(q) PROVE LostNow
  <2>1. CASE Reserve(q)
    <3>1. /\ Reservation(q, Source(q)) # Reservation(q, Upload(q))
          /\ Reservation(q, Staging(q)) # Reservation(q, Upload(q))
      BY PathNames DEF Reservation
    <3>2. pc[q] \in {"idle", "aimed"} /\ pending' = pending
      BY <2>1 DEF Reserve
    <3>3. Source(q) \notin pending' /\ (Upload(q) \in pending' => pc[q] = "aimed")
      BY <1>1, <3>2
    <3>4. QED  BY <1>1, <2>1, <3>1, <3>2, <3>3 DEF Reserve
  <2>2. CASE Resize(q)
    <3>1. pc[q] \in {"staged", "sized"} /\ pending' = pending
      BY <2>2 DEF Resize
    <3>2. QED  BY <1>1, <3>1
  <2>3. CASE Stage(q) \/ Begin(q) \/ Move(q) \/ Copy(q) \/ Rename(q)
    BY <1>1, <2>3 DEF Stage, Begin, Move, Copy, Rename
  <2>4. CASE \/ Commit(q) \/ Replay(q) \/ Fail(q) \/ Release(q) \/ Crash(q)
             \/ \E kept \in SUBSET Own(q) : GiveUp(q, kept)
    BY <2>4 DEF Commit, Replay, Fail, Release, Crash, GiveUp
  <2>5. QED  BY <1>4, <2>1, <2>2, <2>3, <2>4 DEF Publish
<1>5. ASSUME NEW U \in SUBSET uploads, NEW J \in SUBSET HasJob, UNCHANGED pc,
             pending' = pending \cup RowPaths(U, J), reservations' \subseteq reservations
      PROVE  LostNow
  <2>1. q \notin uploads /\ q \notin HasJob
    BY <1>5 DEF RowsArePublished, HasJob
  <2>2. Upload(q) \notin RowPaths(U, J) /\ Source(q) \notin RowPaths(U, J)
    BY <2>1, PathNames DEF RowPaths, HasJob
  <2>3. QED  BY <1>1, <1>5, <2>2
<1>6. ASSUME NEW R \in SUBSET reservations, UNCHANGED pc, reservations' = reservations \ R,
             \A r \in R : r.expired,
             NEW D, pending' = D \cup {r.path : r \in R},
             /\ Upload(q) \in D => Upload(q) \in pending
             /\ Source(q) \in D => Source(q) \in pending
      PROVE  LostNow
  <2>1. ASSUME NEW p \in {Upload(q), Source(q)}, NEW r \in R, r.path = p
        PROVE  /\ Reservation(q, p) \notin reservations'
               /\ pc[q] \notin {"idle", "staging", "staged", "sized"}
               /\ p = Source(q) => pc[q] # "aimed"
    <3>1. r.op = q
      BY <2>1, PathNames DEF ReservationsHeld, Own, Upload, Source, Staging
    <3>2. Reservation(q, p).path = p /\ Reservation(q, p).expired = FALSE
      BY DEF Reservation
    <3>3. Reservation(q, p) \notin reservations
      BY <1>6, <2>1, <3>2 DEF ReservationsHeld
    <3>4. QED  BY <1>6, <2>1, <3>1, <3>3 DEF ReservationsHeld
  <2>2. QED  BY <1>1, <1>6, <2>1
<1>7. CASE DeleteAccount
  <2>1. q \notin uploads /\ q \notin HasJob
    BY <1>7 DEF RowsArePublished, HasJob, DeleteAccount
  <2>2. Upload(q) \notin RowPaths(uploads, HasJob) /\ Source(q) \notin RowPaths(uploads, HasJob)
    BY <2>1, PathNames DEF RowPaths, HasJob
  <2>3. /\ UNCHANGED pc /\ reservations' = reservations \ reservations
        /\ \A r \in reservations : r.expired
        /\ pending' = (pending \cup RowPaths(uploads, HasJob)) \cup {r.path : r \in reservations}
    BY <1>7 DEF DeleteAccount
  <2>4. QED  BY <1>6, <2>2, <2>3
<1>8. CASE CleanupReservations
  BY <1>6, <1>8 DEF CleanupReservations
<1>9. CASE SweepQueue
  <2>1. UNCHANGED <<pc, reservations>> /\ pending' \subseteq pending \cup sweep.paths
    BY <1>9 DEF SweepQueue
  <2>2. sweep.paths # {} => pc[q] \notin InTransaction
    BY <1>9 DEF SweepQueue
  <2>3. Upload(q) \notin sweep.paths /\ Source(q) \notin sweep.paths
    BY <1>9, <2>1, <2>2 DEF SweepIsLate, SweepQueue
  <2>4. QED  BY <1>1, <2>1, <2>3
<1>10. ASSUME NEW r \in reservations, Expire(r) PROVE LostNow
  <2>1. \A p : Reservation(q, p) \in reservations' => Reservation(q, p) \in reservations
    BY <1>10 DEF Expire, Reservation
  <2>2. QED  BY <1>1, <1>10, <2>1 DEF Expire
<1>11. ASSUME NEW o \in Ops, Work(o) \/ DeleteJob(o) \/ DiscardUpload(o) PROVE LostNow
  BY <1>2, <1>5, <1>11 DEF Work, DeleteJob, DiscardUpload, DropRows, HasJob, UploadOf
<1>12. ASSUME NEW U \in SUBSET uploads, NEW J \in SUBSET {o \in Ops : jobs[o] = "finished"},
              ExpireRows(U, J)
       PROVE  LostNow
  BY <1>5, <1>12 DEF ExpireRows, DropRows, HasJob
<1>13. CASE EndDemo
  BY <1>5, <1>13 DEF EndDemo, DropRows
<1>14. QED
  BY <1>2, <1>3, <1>4, <1>7, <1>8, <1>9, <1>10, <1>11, <1>12, <1>13
     DEF Next, Answer, Drain, StillQueued, Age, SweepRead, SweepList, filesVars

LEMMA OwnedUnqueuedStep == FilesInv /\ [Next]_filesVars => NothingOwnedIsQueued'
<1> SUFFICES ASSUME FilesInv, [Next]_filesVars, NEW p \in pending', Owned(p)' PROVE FALSE
  BY DEF NothingOwnedIsQueued
<1> USE FilesAssumption DEF FilesInv, FilesTypeOK
<1>1. ASSUME NEW q \in Ops, p \in Own(q), Owned(p) PROVE pc[q] = "published"
  BY <1>1, PathNames DEF Owned, HasJob, Own, RowsArePublished, Upload, Source, Staging
<1>2. CASE p \in pending /\ Owned(p)
  BY <1>2 DEF NothingOwnedIsQueued
<1>3. ASSUME NEW U, NEW J, DropRows(U, J) PROVE FALSE
  <2>1. Owned(p)
    BY <1>3 DEF DropRows, Owned, HasJob
  <2>2. p \notin RowPaths(U, J)
    <3>1. ASSUME NEW o \in U, p = Upload(o) PROVE FALSE
      <4>1. ASSUME NEW q \in Ops, p \in {Upload(q), Source(q)} PROVE q = o /\ p = Upload(q)
        BY <3>1, <4>1 DEF Upload, Source
      <4>2. QED  BY <1>3, <3>1, <4>1, PathNames DEF DropRows, Owned, HasJob
    <3>2. ASSUME NEW o \in J, p = Source(o) PROVE FALSE
      <4>1. ASSUME NEW q \in Ops, p \in {Upload(q), Source(q)} PROVE q = o /\ p = Source(q)
        BY <3>2, <4>1 DEF Upload, Source
      <4>2. QED  BY <1>3, <3>2, <4>1, PathNames DEF DropRows, Owned, HasJob
    <3>3. QED  BY <3>1, <3>2 DEF RowPaths
  <2>3. QED  BY <1>2, <1>3, <2>1, <2>2 DEF DropRows
<1>4. ASSUME NEW o \in Ops, Commit(o) PROVE FALSE
  <2>1. /\ pending' = pending /\ Holds(o) /\ pc[o] \in Hopeful
        /\ uploads' = IF Kind[o] = "job" THEN uploads ELSE uploads \cup {o}
        /\ jobs' = IF Kind[o] = "upload" THEN jobs ELSE [jobs EXCEPT ![o] = "queued"]
    BY <1>4 DEF Commit, Hopeful, Step
  <2>2. /\ Kind[o] # "job" => Upload(o) \notin pending
        /\ Kind[o] # "upload" => Source(o) \notin pending
    BY <2>1 DEF Holds, QueuedIsLost
  <2>3. \/ Owned(p)
        \/ p = Upload(o) /\ Kind[o] # "job"
        \/ p = Source(o) /\ Kind[o] # "upload"
    <3>1. PICK q \in Ops : (p = Upload(q) /\ q \in uploads') \/ (p = Source(q) /\ jobs'[q] # "none")
      BY <2>1 DEF Owned, HasJob
    <3>2. /\ q \in uploads' => q \in uploads \/ (q = o /\ Kind[o] # "job")
          /\ jobs'[q] # "none" => jobs[q] # "none" \/ (q = o /\ Kind[o] # "upload")
      BY <2>1
    <3>3. q \in uploads /\ p = Upload(q) => Owned(p)
      BY DEF Owned
    <3>4. jobs[q] # "none" /\ p = Source(q) => Owned(p)
      BY DEF Owned, HasJob
    <3>5. QED  BY ONLY <3>1, <3>2, <3>3, <3>4
  <2>4. QED  BY <1>2, <2>1, <2>2, <2>3
<1>5. ASSUME NEW o \in Ops, Work(o) PROVE FALSE
  BY <1>2, <1>5 DEF Work, Owned, HasJob
<1>6. CASE DeleteAccount
  BY <1>6 DEF DeleteAccount, Owned, HasJob
<1>7. CASE UNCHANGED <<uploads, jobs>> /\ pending' \subseteq pending
  BY <1>2, <1>7 DEF Owned, HasJob
<1>8. ASSUME UNCHANGED <<uploads, jobs>>, p \in pending \/ \E q \in Ops : p \in Own(q) /\ pc[q] # "published"
      PROVE  FALSE
  BY <1>1, <1>2, <1>8 DEF Owned, HasJob
<1>9. ASSUME NEW o \in Ops, NEW kept \in SUBSET Own(o), GiveUp(o, kept) PROVE FALSE
  BY <1>8, <1>9 DEF GiveUp, rows
<1>10. CASE CleanupReservations
  BY <1>8, <1>10 DEF CleanupReservations, ReservationsHeld, rows
<1>11. CASE SweepQueue
  BY <1>2, <1>11 DEF SweepQueue, rows, Referenced, Owned, HasJob
<1>12. ASSUME NEW o \in Ops, \/ Reserve(o) \/ Stage(o) \/ Resize(o) \/ Begin(o) \/ Move(o) \/ Copy(o)
                             \/ Rename(o) \/ Replay(o) \/ Fail(o) \/ Release(o) \/ Crash(o)
       PROVE  FALSE
  BY <1>7, <1>12 DEF Reserve, Stage, Resize, Begin, Move, Copy, Rename, Replay, Fail, Release, Crash,
                     rows
<1>13. QED
  BY <1>3, <1>4, <1>5, <1>6, <1>7, <1>9, <1>10, <1>11, <1>12
     DEF Next, Publish, DeleteJob, DiscardUpload, ExpireRows, EndDemo, Answer, Drain, StillQueued,
         Expire, Age, SweepRead, SweepList, filesVars, rows

LEMMA SweepStep == FilesInv /\ [Next]_filesVars => SweepIsLate'
<1> SUFFICES ASSUME FilesInv, [Next]_filesVars, sweep'.step = "listed",
                    NEW q \in Ops, Upload(q) \in sweep'.paths \/ Source(q) \in sweep'.paths
             PROVE  pc'[q] \notin Hopeful \ InTransaction
  BY DEF SweepIsLate
<1> USE DEF FilesInv, FilesTypeOK, Goto, Hopeful, InTransaction, Step
<1>1. CASE UNCHANGED <<sweep, pc>>
  BY <1>1 DEF SweepIsLate
<1>2. ASSUME NEW o \in Ops, Publish(o), pc[q] \notin Hopeful \ InTransaction
      PROVE  pc'[q] \notin Hopeful \ InTransaction
  <2>1. CASE o # q
    BY <1>2, <2>1 DEF Publish, Reserve, Stage, Resize, Begin, Move, Copy, Rename, Commit, Replay,
                      Fail, Release, Crash, GiveUp
  <2>2. CASE Reserve(q) \/ Stage(q) \/ Resize(q) \/ Begin(q)
    BY <1>2, <2>2, FilesAssumption DEF Reserve, Stage, Resize, Begin
  <2>3. CASE \/ Move(q) \/ Copy(q) \/ Rename(q) \/ Commit(q) \/ Replay(q) \/ Fail(q)
             \/ Release(q) \/ Crash(q) \/ \E kept \in SUBSET Own(q) : GiveUp(q, kept)
    BY <2>3 DEF Move, Copy, Rename, Commit, Replay, Fail, Release, Crash, GiveUp
  <2>4. QED  BY <1>2, <2>1, <2>2, <2>3 DEF Publish
<1>3. CASE SweepList
  BY <1>3 DEF SweepList, Listed, FilesWritten
<1>4. CASE SweepRead \/ SweepQueue
  BY <1>4 DEF SweepRead, SweepQueue
<1>5. ASSUME NEW o \in Ops, Publish(o) PROVE UNCHANGED sweep
  BY <1>5 DEF Publish, Reserve, Stage, Resize, Begin, Move, Copy, Rename, Commit, Replay, Fail,
              Release, Crash, GiveUp
<1>6. QED
  BY <1>1, <1>2, <1>3, <1>4, <1>5
     DEF Next, Work, DeleteJob, DiscardUpload, ExpireRows, DeleteAccount, EndDemo, Answer, Drain,
         Expire, CleanupReservations, Age, filesVars, SweepIsLate

-----------------------------------------------------------------------------
(* The deletion that is waited for                                         *)

LEMMA DeletionStep == FilesInv /\ FilesTypeOK' /\ [Next]_filesVars => DeletionIsQueued'
<1> SUFFICES ASSUME FilesInv, FilesTypeOK', [Next]_filesVars PROVE DeletionIsQueued'
  OBVIOUS
<1> USE FilesAssumption DEF FilesInv, FilesTypeOK, Goto, KeepFiles, Unlink, rows
<1>1. writer' # Nobody => account' # "gone"
  <2>1. CASE UNCHANGED writer /\ (account' # "gone" \/ UNCHANGED account)
    BY <2>1 DEF DeletionIsQueued
  <2>2. ASSUME NEW o \in Ops, Begin(o) \/ Commit(o) \/ Replay(o) PROVE writer' # Nobody => account' # "gone"
    BY <2>2 DEF Begin, Commit, Replay
  <2>3. ASSUME NEW o \in Ops, Fail(o) \/ Crash(o) PROVE writer' # Nobody => account' # "gone"
    BY <2>3 DEF Fail, Crash, DeletionIsQueued
  <2>4. CASE DeleteAccount \/ EndDemo
    BY <2>4 DEF DeleteAccount, EndDemo
  <2>5. QED
    BY <2>1, <2>2, <2>3, <2>4
       DEF Next, Publish, Reserve, Stage, Resize, Move, Copy, Rename, GiveUp, Release, Work, DeleteJob,
           DiscardUpload, ExpireRows, Answer, Drain, Expire, CleanupReservations, Age, SweepRead,
           SweepList, SweepQueue, filesVars
<1>2. SUFFICES ASSUME deleting'.answer = "waiting", NEW o \in Ops, NEW p \in deleting'.paths,
                      p \in {Upload(o), Source(o)}
               PROVE  /\ pc'[o] = "published" \/ account' = "gone"
                      /\ pc'[o] = "published" /\ p \in files' => p \in pending'
  BY <1>1 DEF DeletionIsQueued
<1> DEFINE Queued == /\ pc'[o] = "published" \/ account' = "gone"
                     /\ pc'[o] = "published" /\ p \in files' => p \in pending'
<1>3. CASE /\ UNCHANGED <<deleting, pc>> /\ files' \subseteq files /\ pending \subseteq pending'
           /\ UNCHANGED account \/ account' = "gone"
  BY <1>2, <1>3 DEF DeletionIsQueued
<1>4. ASSUME NEW q \in Ops, Publish(q) PROVE Queued
  <2>1. UNCHANGED <<deleting, account>> /\ pending \subseteq pending'
    BY <1>4 DEF Publish, Reserve, Stage, Resize, Begin, Move, Copy, Rename, Commit, Replay, Fail,
                Release, Crash, GiveUp
  <2>2. /\ pc[o] = "published" \/ account = "gone"
        /\ pc[o] = "published" /\ p \in files => p \in pending
    BY <1>2, <2>1 DEF DeletionIsQueued
  <2>3. pc[q] # "published"
    BY <1>4 DEF Publish, Reserve, Stage, Resize, Begin, Move, Copy, Rename, Commit, Replay, Fail,
                Release, Crash, GiveUp, InFlight
  <2>4. CASE q = o
    <3>1. account = "gone" /\ pc[o] \notin InTransaction
      BY <2>2, <2>3, <2>4 DEF DeletionIsQueued
    <3>2. pc'[o] # "published"
      BY <1>4, <2>3, <2>4, <3>1 DEF Publish, Reserve, Stage, Resize, Begin, Move, Copy, Rename, Commit,
                Replay, Fail, Release, Crash, GiveUp, InTransaction
    <3>3. QED  BY <2>1, <3>1, <3>2
  <2>5. CASE q # o
    <3>1. pc'[o] = pc[o]
      BY <1>4, <2>5 DEF Publish, Reserve, Stage, Resize, Begin, Move, Copy, Rename, Commit, Replay,
                        Fail, Release, Crash, GiveUp
    <3>2. p \notin {Staging(q), Temporary(q), Upload(q), Source(q)}
      BY <1>2, <2>5, PathNames
    <3>3. p \in files' => p \in files
      BY <1>4, <3>2 DEF Publish, Reserve, Stage, Resize, Begin, Move, Copy, Rename, Commit, Replay,
                        Fail, Release, Crash, GiveUp
    <3>4. QED  BY <2>1, <2>2, <3>1, <3>3
  <2>6. QED  BY <2>4, <2>5
<1>5. ASSUME NEW U \in SUBSET uploads, NEW J \in SUBSET HasJob, UNCHANGED <<pc, account>>,
             deleting'.paths = RowPaths(U, J), pending' = pending \cup RowPaths(U, J)
      PROVE  Queued
  <2>1. (\E u \in U : p = Upload(u)) \/ (\E j \in J : p = Source(j))
    BY <1>2, <1>5 DEF RowPaths
  <2>2. o \in U \/ o \in J
    BY <1>2, <2>1, PathNames DEF HasJob
  <2>3. pc[o] = "published"
    BY <2>2 DEF RowsArePublished, HasJob
  <2>4. QED  BY <1>2, <1>5, <2>3
<1>6. ASSUME NEW q \in Ops, DeleteJob(q) \/ DiscardUpload(q) PROVE Queued
  <2>1. CASE DeleteJob(q)
    <3>1. UploadOf(q) \in SUBSET uploads /\ {q} \in SUBSET HasJob
      BY <2>1 DEF DeleteJob, UploadOf, HasJob
    <3>2. /\ UNCHANGED <<pc, account>> /\ deleting'.paths = RowPaths(UploadOf(q), {q})
          /\ pending' = pending \cup RowPaths(UploadOf(q), {q})
      BY <2>1 DEF DeleteJob, DropRows, Await
    <3>3. QED  BY <1>5, <3>1, <3>2
  <2>2. CASE DiscardUpload(q)
    <3>1. {q} \in SUBSET uploads /\ {} \in SUBSET HasJob /\ RowPaths({q}, {}) = {Upload(q)}
      BY <2>2 DEF DiscardUpload, RowPaths
    <3>2. /\ UNCHANGED <<pc, account>> /\ deleting'.paths = RowPaths({q}, {})
          /\ pending' = pending \cup RowPaths({q}, {})
      BY <2>2, <3>1 DEF DiscardUpload, DropRows, Await
    <3>3. QED  BY <1>5, <3>1, <3>2
  <2>3. QED  BY <1>6, <2>1, <2>2
<1>7. CASE DeleteAccount
  BY <1>2, <1>7 DEF DeleteAccount, Await
<1>8. CASE EndDemo
  BY <1>3, <1>8 DEF EndDemo, DropRows
<1>9. CASE Answer
  BY <1>2, <1>9 DEF Answer
<1>10. ASSUME NEW d \in Paths, NEW removed \in BOOLEAN, Drain(d, removed) PROVE Queued
  <2>1. UNCHANGED <<deleting, account, pc>> /\ files' \subseteq files
    BY <1>10 DEF Drain
  <2>2. /\ pc[o] = "published" \/ account = "gone"
        /\ pc[o] = "published" /\ p \in files => p \in pending
    BY <1>2, <2>1 DEF DeletionIsQueued
  <2>3. ASSUME pc[o] = "published", p \in files', p \in pending PROVE p \in pending'
    <3>1. ~Owned(p)
      BY <2>3 DEF NothingOwnedIsQueued
    <3>2. ~Reserved(p)
      <4>1. ASSUME NEW r \in reservations, r.path = p PROVE FALSE
        <5>1. r.op \in Ops /\ r.path \in Own(r.op) /\ pc[r.op] # "published"
          BY DEF ReservationsHeld
        <5>2. r.op = o
          BY <1>2, <4>1, <5>1, PathNames DEF Own, Upload, Source, Staging
        <5>3. QED  BY <2>3, <5>1, <5>2
      <4>2. QED  BY <4>1 DEF Reserved
    <3>3. QED  BY <1>10, <2>3, <3>1, <3>2 DEF Drain, Referenced, StillQueued
  <2>4. QED  BY <2>1, <2>2, <2>3
<1>11. ASSUME NEW q \in Ops, Work(q) PROVE Queued
  BY <1>3, <1>11 DEF Work
<1>12. QED
  BY <1>3, <1>4, <1>6, <1>7, <1>8, <1>9, <1>10, <1>11
     DEF Next, ExpireRows, DropRows, Expire, CleanupReservations, Age, SweepRead, SweepList,
         SweepQueue, filesVars

-----------------------------------------------------------------------------
LEMMA FilesStart == Init => FilesInv
<1> SUFFICES ASSUME Init PROVE FilesInv
  OBVIOUS
<1> USE FilesAssumption DEF Init
<1>1. FilesTypeOK
  BY DEF FilesTypeOK, Step, Status, NoRequest, InTransaction
<1>2. RowsArePublished /\ FilesWritten /\ ReservationsHeld
  BY DEF RowsArePublished, FilesWritten, ReservationsHeld
<1>3. QueuedIsLost /\ SweepIsLate /\ DeletionIsQueued
  BY DEF QueuedIsLost, SweepIsLate, DeletionIsQueued, NoRequest
<1>4. SourcesExist /\ NothingOwnedIsQueued
  BY DEF SourcesExist, NothingOwnedIsQueued, Owned, HasJob
<1>5. QED  BY <1>1, <1>2, <1>3, <1>4 DEF FilesInv

LEMMA FilesStep == FilesInv /\ [Next]_filesVars => FilesInv'
<1> SUFFICES ASSUME FilesInv, [Next]_filesVars PROVE FilesInv'
  OBVIOUS
<1>1. FilesTypeOK'
  BY FilesTypeStep DEF FilesInv
<1>2. ReservationsHeld'
  BY <1>1, ReservationsStep
<1>3. RowsArePublished' /\ FilesWritten' /\ QueuedIsLost'
  BY <1>1, <1>2, RowsStep, WrittenStep, LostStep
<1>4. SweepIsLate' /\ DeletionIsQueued' /\ SourcesExist' /\ NothingOwnedIsQueued'
  BY <1>1, SweepStep, DeletionStep, SourcesStep, OwnedUnqueuedStep
<1>5. QED  BY <1>1, <1>2, <1>3, <1>4 DEF FilesInv

\* Every reachable state satisfies the inductive invariant: what a path stands
\* for can be told from how far the request that named it has come.
THEOREM FilesInvariant == Spec => []FilesInv
<1>1. QED  BY FilesStart, FilesStep, PTL DEF Spec

\* The tables, the files and the queue have their types, and the open
\* transaction is that of the request which holds the writer.
THEOREM FilesTypeCorrect == Spec => []FilesTypeOK
<1>1. FilesInv => FilesTypeOK
  BY DEF FilesInv
<1>2. QED  BY <1>1, FilesInvariant, PTL

\* An upload or job that has a row has its file, however the clean-up, the
\* deletion queue, expiries, crashes and failed publications interleave.
THEOREM SourcesStay == Spec => []SourcesExist
<1>1. FilesInv => SourcesExist
  BY DEF FilesInv
<1>2. QED  BY <1>1, FilesInvariant, PTL

\* No path in the deletion queue is named by a row.
THEOREM QueueIsSafe == Spec => []NothingOwnedIsQueued
<1>1. FilesInv => NothingOwnedIsQueued
  BY DEF FilesInv
<1>2. QED  BY <1>1, FilesInvariant, PTL

\* A deletion that is answered as done has removed what was published under
\* the paths it was about.
THEOREM DeletionsAreDone == Spec => DoneMeansGone
<1>1. ASSUME FilesInv, [Next]_filesVars
      PROVE  [deleting.answer = "waiting" /\ deleting'.answer = "done" =>
                \A o \in Ops : pc[o] = "published" =>
                    deleting.paths \cap {Upload(o), Source(o)} \cap files = {}]_filesVars
  <2>1. SUFFICES ASSUME deleting.answer = "waiting", deleting'.answer = "done",
                        NEW o \in Ops, pc[o] = "published"
                 PROVE  deleting.paths \cap {Upload(o), Source(o)} \cap files = {}
    OBVIOUS
  <2>2. deleting.paths \cap pending = {}
    <3>1. deleting' # deleting
      BY <2>1
    <3>2. Answer \/ DeleteAccount \/ \E q \in Ops : DeleteJob(q) \/ DiscardUpload(q)
      BY <1>1, <3>1
         DEF Next, Publish, Reserve, Stage, Resize, Begin, Move, Copy, Rename, Commit, Replay, Fail,
             Release, Crash, GiveUp, Work, ExpireRows, EndDemo, Drain, Expire,
             CleanupReservations, Age, SweepRead, SweepList, SweepQueue, filesVars
    <3>3. QED  BY <2>1, <3>2 DEF Answer, DeleteAccount, DeleteJob, DiscardUpload, Await
  <2>3. QED  BY <1>1, <2>1, <2>2 DEF FilesInv, DeletionIsQueued
<1>2. QED  BY <1>1, FilesInvariant, PTL DEF Spec, DoneMeansGone
=============================================================================
