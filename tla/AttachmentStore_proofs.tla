----------------------- MODULE AttachmentStore_proofs -----------------------
(***************************************************************************)
(* Attachment bytes and rows for every number of files, tasks, uploads,    *)
(* quotas and backup settings: no row loses its bytes, the quotas are      *)
(* overshot only by the requests that raced, and nothing is swept that a   *)
(* kept dump may still restore.                                            *)
(***************************************************************************)
EXTENDS AttachmentStore, FiniteSetTheorems, SequenceTheorems, TLAPS

(* The grace period is a number of ticks, never below its floor.           *)
LEMMA GraceIs ==
    /\ orphanGrace \in Nat /\ orphanGrace >= MinOrphanGrace
    /\ orphanGrace >= BackupInterval * Larger(BackupKeep, 1)
    /\ orphanGrace < MaxAge
<1>1. Larger(BackupKeep, 1) \in Nat
  BY StoreAssumption DEF Larger
<1>2. BackupInterval * Larger(BackupKeep, 1) \in Nat
  BY <1>1, StoreAssumption
<1> QED BY <1>1, <1>2, StoreAssumption DEF orphanGrace, Larger

DumpType == [age : 0 .. MaxAge, rows : SUBSET Files]

(* prune keeps the newest dumps as they are, and no more than BACKUP_KEEP. *)
LEMMA PruneIs ==
    ASSUME NEW ds \in Seq(DumpType)
    PROVE  /\ prune(ds) \in Seq(DumpType)
           /\ Len(prune(ds)) <= BackupKeep /\ Len(prune(ds)) <= Len(ds)
           /\ \A i \in 1 .. Len(prune(ds)) : prune(ds)[i] = ds[i]
<1> DEFINE n == IF BackupKeep < Len(ds) THEN BackupKeep ELSE Len(ds)
<1>1. Len(ds) \in Nat /\ BackupKeep \in Nat
  BY StoreAssumption, LenProperties
<1>2. n \in Int /\ n <= Len(ds) /\ n <= BackupKeep /\ n >= 0
  BY <1>1
<1>3. \A i \in 1 .. n : ds[i] \in DumpType
  BY <1>1, <1>2, ElementOfSeq
<1>4. prune(ds) = SubSeq(ds, 1, n)
  BY DEF prune, Kept
<1> HIDE DEF n
<1>5. /\ SubSeq(ds, 1, n) \in Seq(DumpType)
      /\ Len(SubSeq(ds, 1, n)) = IF 1 <= n THEN n - 1 + 1 ELSE 0
      /\ \A i \in 1 .. n - 1 + 1 : SubSeq(ds, 1, n)[i] = ds[1 + i - 1]
  BY <1>2, <1>3, SubSeqProperties
<1> QED BY <1>1, <1>2, <1>4, <1>5

(* A dump is taken in front of the ones there are.                         *)
LEMMA TakenIs ==
    ASSUME TypeOK
    PROVE  /\ take_dump \in Seq(DumpType) /\ Len(take_dump) = Len(dumps) + 1
           /\ take_dump[1].age = 0
           /\ \A i \in 1 .. Len(dumps) : take_dump[i + 1] = dumps[i]
<1> DEFINE new == <<[age |-> 0, rows |-> Claimed]>>
<1>1. new \in Seq(DumpType) /\ Len(new) = 1 /\ new[1].age = 0
  BY StoreAssumption DEF DumpType, Claimed
<1>2. dumps \in Seq(DumpType) /\ Len(dumps) \in Nat
  BY LenProperties DEF TypeOK, DumpType
<1> HIDE DEF new
<1>3. /\ new \o dumps \in Seq(DumpType) /\ Len(new \o dumps) = Len(new) + Len(dumps)
      /\ \A i \in 1 .. Len(new) + Len(dumps) :
            (new \o dumps)[i] = IF i <= Len(new) THEN new[i] ELSE dumps[i - Len(new)]
  BY <1>1, <1>2, ConcatProperties
<1>4. take_dump = new \o dumps
  BY DEF take_dump, new
<1> QED BY <1>1, <1>2, <1>3, <1>4

(* A day older, or as old as it is told apart.                             *)
LEMMA OlderIs ==
    ASSUME NEW n \in 0 .. MaxAge
    PROVE  Older(n) \in 0 .. MaxAge /\ Older(n) >= n /\ Older(n) <= n + 1
BY StoreAssumption DEF Older

(* Time passes alike for every dump.                                       *)
LEMMA TickDumps ==
    ASSUME TypeOK, dumps' = [i \in DOMAIN dumps |-> [dumps[i] EXCEPT !.age = Older(@)]]
    PROVE  /\ dumps' \in Seq(DumpType) /\ Len(dumps') = Len(dumps)
           /\ \A i \in 1 .. Len(dumps) : dumps'[i].age = Older(dumps[i].age)
<1>1. dumps \in Seq(DumpType) /\ Len(dumps) \in Nat /\ DOMAIN dumps = 1 .. Len(dumps)
  BY LenProperties DEF TypeOK, DumpType
<1>2. \A i \in 1 .. Len(dumps) : dumps[i] \in DumpType
  BY <1>1, ElementOfSeq
<1>3. \A i \in 1 .. Len(dumps) : /\ [dumps[i] EXCEPT !.age = Older(@)] \in DumpType
                                /\ [dumps[i] EXCEPT !.age = Older(@)].age = Older(dumps[i].age)
  BY <1>2, OlderIs DEF DumpType
<1> DEFINE e(i) == [dumps[i] EXCEPT !.age = Older(@)]
<1>4. dumps' = [i \in 1 .. Len(dumps) |-> e(i)] /\ \A i \in 1 .. Len(dumps) : e(i) \in DumpType
  BY <1>1, <1>3
<1> HIDE DEF e
<1>5. [i \in 1 .. Len(dumps) |-> e(i)] \in Seq(DumpType)
  BY <1>1, <1>4
<1>6. Len([i \in 1 .. Len(dumps) |-> e(i)]) = Len(dumps)
  BY <1>1
<1>7. \A i \in 1 .. Len(dumps) : dumps'[i] = e(i) /\ e(i).age = Older(dumps[i].age)
  BY <1>3, <1>4 DEF e
<1> QED BY <1>4, <1>5, <1>6, <1>7

-----------------------------------------------------------------------------
(* Nothing is stored, nobody uploads, and the sweep has not begun.         *)
LEMMA InitShape == Init => Shape
<1> SUFFICES ASSUME Init PROVE Shape
  OBVIOUS
<1>1. TypeOK
  BY StoreAssumption DEF Init, TypeOK, NoUpload, Upload, NoSweep, Sweep
<1>2. \A p \in Procs : UploadFits(p)
  BY StoreAssumption DEF Init, UploadFits, Written, NoUpload
<1> QED BY <1>1, <1>2 DEF Shape

(* What a step of an upload does to its own record.                        *)
UploadMoves(p, u) ==
    /\ up' = [up EXCEPT ![p] = u]
    /\ u \in Upload
    /\ u.pc # "idle" => u.task \in Tasks
    /\ u.pc \in {"insert", "cleanup"} <=> u.file \in Files

(* The step, the next record of the upload and what else it writes.        *)
LEMMA UploadStepIs ==
    ASSUME Shape, NEW p \in Procs, FindTask(p) \/ UploadStep(p)
    PROVE  \E u : /\ UploadMoves(p, u)
                  /\ UNCHANGED <<tasks, sweep, dumps, due>>
                  /\ up[p].pc # "idle" /\ u.pc # "idle" => u.task = up[p].task
                  /\ Written(p) /\ u.pc # "idle" => u.file = up[p].file
                  /\ u.file \in Files => Written(p) \/ WriteBytes(p)
                  /\ \/ UNCHANGED <<row, disk, age>>
                     \/ WriteBytes(p) \/ InsertRow(p) \/ InsertUnacknowledged(p)
                     \/ RemoveBytes(p)
<1> DEFINE v == up[p]
<1>0. /\ v \in Upload /\ (v.pc # "idle" => v.task \in Tasks)
      /\ (v.pc \in {"insert", "cleanup"} <=> v.file \in Files)
      /\ NoUpload \in Upload /\ NoUpload.pc = "idle" /\ NoUpload.file \notin Files
  BY StoreAssumption DEF Shape, TypeOK, UploadFits, Written, NoUpload, Upload
<1>1. CASE FindTask(p)
  <2>1. PICK k \in tasks : /\ up' = [up EXCEPT ![p] = [NoUpload EXCEPT !.pc = "quotaWorkspace", !.task = k]]
                           /\ v.pc = "idle" /\ UNCHANGED <<tasks, row, disk, age, sweep, dumps, due>>
    BY <1>1 DEF FindTask
  <2> DEFINE u == [NoUpload EXCEPT !.pc = "quotaWorkspace", !.task = k]
  <2>2. k \in Tasks /\ u \in Upload /\ u.pc = "quotaWorkspace" /\ u.task = k /\ u.file \notin Files
    BY StoreAssumption DEF NoUpload, Upload, Shape, TypeOK
  <2>3. up' = [up EXCEPT ![p] = u]
    BY <2>1
  <2> HIDE DEF u
  <2>4. UploadMoves(p, u)
    BY <2>2, <2>3 DEF UploadMoves
  <2> QED BY <2>1, <2>2, <2>4 DEF Written
<1>2. CASE up' = [up EXCEPT ![p] = NoUpload]
  <2>1. UploadMoves(p, NoUpload)
    BY <1>0, <1>2 DEF UploadMoves
  <2>2. UNCHANGED <<tasks, sweep, dumps, due>>
        /\ (UNCHANGED <<row, disk, age>> \/ InsertRow(p) \/ RemoveBytes(p) \/ InsertUnacknowledged(p)
            \/ WriteBytes(p))
    BY DEF FindTask, UploadStep, assertWorkspaceQuota, assertInstanceQuota, WriteBytes,
       WriteRefused, InsertRow, InsertFails, InsertUnacknowledged, RemoveBytes, Crash
  <2> QED BY <1>0, <2>1, <2>2
<1>3. ASSUME NEW stmt \in {"quotaInstance", "write"}, up' = [up EXCEPT ![p] = [v EXCEPT !.pc = stmt]],
             v.pc \in {"quotaWorkspace", "quotaInstance"},
             UNCHANGED <<tasks, row, disk, age, sweep, dumps, due>>
      PROVE  \E u : /\ UploadMoves(p, u)
                    /\ u.task = v.task /\ u.pc = stmt /\ u.file \notin Files
  <2> DEFINE u == [v EXCEPT !.pc = stmt]
  <2>1. u \in Upload /\ u.pc = stmt /\ u.task = v.task /\ u.file = v.file
    BY <1>0 DEF Upload
  <2>2. up' = [up EXCEPT ![p] = u]
    BY <1>3
  <2> HIDE DEF u
  <2>3. UploadMoves(p, u)
    BY <1>0, <1>3, <2>1, <2>2 DEF UploadMoves
  <2> QED BY <1>0, <1>3, <2>1, <2>3
<1>4. CASE (assertWorkspaceQuota(p) \/ assertInstanceQuota(p)) /\ up' # [up EXCEPT ![p] = NoUpload]
  <2>1. /\ UNCHANGED <<tasks, row, disk, age, sweep, dumps, due>>
        /\ v.pc \in {"quotaWorkspace", "quotaInstance"}
        /\ \E stmt \in {"quotaInstance", "write"} : up' = [up EXCEPT ![p] = [v EXCEPT !.pc = stmt]]
    BY <1>4 DEF assertWorkspaceQuota, assertInstanceQuota
  <2> QED BY <1>3, <2>1 DEF Written
<1>5. CASE WriteBytes(p)
  <2>1. PICK a \in Files : /\ up' = [up EXCEPT ![p].pc = "insert", ![p].file = a] /\ v.pc = "write"
                           /\ UNCHANGED <<tasks, sweep, dumps, due>>
    BY <1>5 DEF WriteBytes
  <2> DEFINE u == [[v EXCEPT !.pc = "insert"] EXCEPT !.file = a]
  <2>2. u \in Upload /\ u.pc = "insert" /\ u.task = v.task /\ u.file = a
    BY <1>0 DEF Upload
  <2>3. up' = [up EXCEPT ![p] = u]
    BY <2>1 DEF Shape, TypeOK
  <2> HIDE DEF u
  <2>4. UploadMoves(p, u)
    BY <1>0, <2>1, <2>2, <2>3 DEF UploadMoves
  <2> QED BY <1>5, <2>1, <2>2, <2>4 DEF Written
<1>6. CASE InsertFails(p) \/ InsertUnacknowledged(p)
  <2>1. up' = [up EXCEPT ![p].pc = "cleanup"] /\ v.pc = "insert" /\ UNCHANGED <<tasks, sweep, dumps, due>>
        /\ (UNCHANGED <<row, disk, age>> \/ InsertUnacknowledged(p))
    BY <1>6 DEF InsertFails, InsertUnacknowledged
  <2> DEFINE u == [v EXCEPT !.pc = "cleanup"]
  <2>2. u \in Upload /\ u.pc = "cleanup" /\ u.task = v.task /\ u.file = v.file
    BY <1>0 DEF Upload
  <2>3. up' = [up EXCEPT ![p] = u]
    BY <2>1 DEF Shape, TypeOK
  <2> HIDE DEF u
  <2>4. UploadMoves(p, u)
    BY <1>0, <2>1, <2>2, <2>3 DEF UploadMoves
  <2>5. Written(p)
    BY <2>1 DEF Written
  <2> QED BY <2>1, <2>2, <2>4, <2>5
<1> QED BY <1>1, <1>2, <1>4, <1>5, <1>6
        DEF UploadStep, WriteRefused, InsertRow, RemoveBytes, Crash

(* An upload moves its own record only.                                    *)
LEMMA MovesShape ==
    ASSUME Shape, NEW p \in Procs, NEW u, UploadMoves(p, u)
    PROVE  /\ up' \in [Procs -> Upload] /\ up'[p] = u
           /\ \A q \in Procs \ {p} : up'[q] = up[q]
           /\ \A q \in Procs : UploadFits(q)'
<1>1. /\ up' = [up EXCEPT ![p] = u] /\ u \in Upload /\ up \in [Procs -> Upload]
      /\ u.pc # "idle" => u.task \in Tasks
      /\ u.pc \in {"insert", "cleanup"} <=> u.file \in Files
  BY DEF UploadMoves, Shape, TypeOK
<1>2. up' \in [Procs -> Upload] /\ up'[p] = u /\ \A q \in Procs \ {p} : up'[q] = up[q]
  BY <1>1
<1>3. ASSUME NEW q \in Procs PROVE UploadFits(q)'
  <2>1. CASE q = p
    BY <1>1, <1>2, <2>1 DEF UploadFits, Written
  <2>2. CASE q # p
    BY <1>2, <2>2 DEF Shape, UploadFits, Written
  <2> QED BY <2>1, <2>2
<1> QED BY <1>2, <1>3

(* An upload moves its own record, and at most its own file and row.       *)
LEMMA UploadShape ==
    ASSUME Shape, NEW p \in Procs, FindTask(p) \/ UploadStep(p)
    PROVE  Shape'
<1>1. PICK u : /\ UploadMoves(p, u)
               /\ UNCHANGED <<tasks, sweep, dumps, due>>
               /\ \/ UNCHANGED <<row, disk, age>>
                  \/ WriteBytes(p) \/ InsertRow(p) \/ InsertUnacknowledged(p)
                  \/ RemoveBytes(p)
  BY UploadStepIs
<1>2. up' \in [Procs -> Upload] /\ \A q \in Procs : UploadFits(q)'
  BY <1>1, MovesShape
<1>3. /\ row' \in [Files -> Tasks \cup {NoTask}] /\ disk' \subseteq Files
      /\ age' \in [Files -> 0 .. MaxAge]
  <2>1. CASE UNCHANGED <<row, disk, age>>
    BY <2>1 DEF Shape, TypeOK
  <2>2. CASE WriteBytes(p)
    BY <2>2, StoreAssumption DEF WriteBytes, Shape, TypeOK
  <2>3. CASE InsertRow(p) \/ InsertUnacknowledged(p)
    BY <2>3 DEF InsertRow, InsertUnacknowledged, Shape, TypeOK
  <2>4. CASE RemoveBytes(p)
    BY <2>4 DEF RemoveBytes, Shape, TypeOK
  <2> QED BY <1>1, <2>1, <2>2, <2>3, <2>4
<1>4. TypeOK'
  BY <1>1, <1>2, <1>3 DEF Shape, TypeOK
<1> QED BY <1>2, <1>4 DEF Shape

(* The sweep keeps to files, and writes nothing but the disk.              *)
SweepActs == SweepStart \/ SweepStep \/ SweepCrash

(* The sweep keeps the types, and writes nothing but the disk.             *)
LEMMA SweepShape ==
    ASSUME Shape, SweepActs
    PROVE  Shape' /\ UNCHANGED <<tasks, row, age, up, dumps, due>>
<1>1. UNCHANGED <<tasks, row, age, up, dumps, due>>
  BY DEF SweepActs, SweepStart, SweepStep, SweepCrash, SweepEntry, Unlink, SweepWalked,
     SweepFlush, SweepFlushed, SweepDone
<1>2. NoSweep \in Sweep /\ sweep \in Sweep /\ disk \subseteq Files
  BY DEF NoSweep, Sweep, Shape, TypeOK
<1>3. sweep' \in Sweep /\ disk' \subseteq Files
  <2>1. CASE SweepStart
    BY <1>2, <2>1 DEF SweepStart, Sweep, NoSweep
  <2>2. ASSUME NEW a \in Files, SweepEntry(a) PROVE sweep' \in Sweep /\ disk' \subseteq Files
    BY <1>2, <2>2 DEF SweepEntry, Sweep
  <2>3. ASSUME NEW a \in Files, Unlink(a) PROVE sweep' \in Sweep /\ disk' \subseteq Files
    <3> DEFINE left == sweep.doomed \ {a}
               gone == sweep.removed + 1
    <3>1. /\ sweep' = [sweep EXCEPT !.doomed = left, !.removed = gone]
          /\ left \in SUBSET Files /\ gone \in Nat /\ disk' \subseteq Files
      BY <1>2, <2>3 DEF Unlink, Sweep
    <3> HIDE DEF left, gone
    <3> QED BY <1>2, <3>1 DEF Sweep
  <2>4. CASE SweepWalked
    BY <1>2, <2>4 DEF SweepWalked, Sweep
  <2>6. CASE SweepFlush
    BY <1>2, <2>6 DEF SweepFlush, Sweep
  <2>7. CASE SweepFlushed
    <3> DEFINE rest == IF sweep.removed >= BatchSize * MaxBatches THEN {} ELSE sweep.pending
    <3>1. /\ disk' = disk /\ sweep' = [sweep EXCEPT !.pc = "walk", !.pending = rest]
          /\ rest \in SUBSET Files
      BY <1>2, <2>7 DEF SweepFlushed, Sweep
    <3> QED BY <1>2, <3>1 DEF Sweep
  <2>5. CASE SweepDone \/ SweepCrash
    BY <1>2, <2>5 DEF SweepDone, SweepCrash
  <2> QED BY <2>1, <2>2, <2>3, <2>4, <2>5, <2>6, <2>7 DEF SweepActs, SweepStep
<1> QED BY <1>1, <1>3 DEF Shape, TypeOK, UploadFits, Written

(* A sweep under way keeps its cutoff, collects old files, and dooms those *)
(* no row claims.                                                          *)
LEMMA SweepIs ==
    ASSUME Shape, SweepActs, ~ SweepStart, sweep' # NoSweep
    PROVE  /\ sweep'.old = sweep.old
           /\ sweep'.batch \subseteq sweep.batch \cup sweep.old
           /\ sweep'.doomed \subseteq sweep.doomed \cup (sweep.batch \ Claimed)
<1> DEFINE Goal == /\ sweep'.old = sweep.old
                   /\ sweep'.batch \subseteq sweep.batch \cup sweep.old
                   /\ sweep'.doomed \subseteq sweep.doomed \cup (sweep.batch \ Claimed)
<1>0. sweep \in Sweep
  BY DEF Shape, TypeOK
<1>1. ASSUME NEW a \in Files, SweepEntry(a) PROVE Goal
  BY <1>0, <1>1 DEF SweepEntry, Sweep
<1>2. ASSUME NEW a \in Files, Unlink(a) PROVE Goal
  BY <1>0, <1>2 DEF Unlink, Sweep
<1>3. CASE SweepWalked \/ SweepFlushed
  BY <1>0, <1>3 DEF SweepWalked, SweepFlushed, Sweep
<1>4. CASE SweepFlush
  BY <1>0, <1>4 DEF SweepFlush, Sweep
<1>5. ~ SweepDone /\ ~ SweepCrash
  BY DEF SweepDone, SweepCrash
<1> QED BY <1>1, <1>2, <1>3, <1>4, <1>5 DEF SweepActs, SweepStep

(* The sidecar keeps the types, and writes nothing but its dumps.          *)
LEMMA BackupShape ==
    ASSUME Shape, BackupStep
    PROVE  Shape' /\ UNCHANGED <<tasks, row, disk, age, up, sweep>>
<1>1. UNCHANGED <<tasks, row, disk, age, up, sweep>>
  BY DEF BackupStep, BackupCycle, BackupCycleFails, BackupBoots, BackupBootSkips, BackupOnce
<1>2. dumps \in Seq(DumpType) /\ Len(dumps) <= BackupKeep /\ due \in 0 .. BackupInterval
  BY DEF Shape, TypeOK, DumpType
<1>3. dumps' = dumps \/ dumps' = prune(dumps) \/ dumps' = prune(take_dump)
  BY DEF BackupStep, BackupCycle, BackupCycleFails, BackupBoots, BackupBootSkips, BackupOnce
<1>4. dumps' \in Seq(DumpType) /\ Len(dumps') <= BackupKeep
  BY <1>2, <1>3, TakenIs, PruneIs DEF Shape
<1>5. due' \in 0 .. BackupInterval
  <2>1. CASE BackupBootSkips
    <3>1. /\ dumps # << >> /\ dumps[1].age < BackupInterval \div 2
          /\ due' = BackupInterval - dumps[1].age
      BY <2>1 DEF BackupBootSkips, BootSkips
    <3>2. Len(dumps) \in Nat /\ Len(dumps) # 0
      BY <1>2, <3>1, EmptySeq, LenProperties
    <3>3. dumps[1] \in DumpType
      BY <1>2, <3>2, ElementOfSeq
    <3>4. dumps[1].age \in 0 .. MaxAge
      BY <3>3 DEF DumpType
    <3>5. BackupInterval \div 2 \in 0 .. BackupInterval
      BY StoreAssumption
    <3> QED BY <3>1, <3>4, <3>5, StoreAssumption
  <2>2. CASE ~ BackupBootSkips
    BY <1>2, <2>2, StoreAssumption
       DEF BackupStep, BackupCycle, BackupCycleFails, BackupBoots, BackupOnce
  <2> QED BY <2>1, <2>2
<1> QED BY <1>1, <1>4, <1>5 DEF Shape, TypeOK, UploadFits, Written, DumpType

(* A day passes: files and dumps age, nothing else moves.                  *)
LEMMA TickShape ==
    ASSUME Shape, Tick
    PROVE  /\ Shape' /\ UNCHANGED <<tasks, row, disk, up, sweep>>
           /\ \A a \in Files : age[a] \in 0 .. MaxAge /\ Older(age[a]) \in 0 .. MaxAge
<1>1. UNCHANGED <<tasks, row, disk, up, sweep>> /\ due' = due - 1 /\ due > 0
      /\ age' = [a \in Files |-> IF a \in disk THEN Older(age[a]) ELSE 0]
  BY DEF Tick
<1>2. \A a \in Files : age[a] \in 0 .. MaxAge /\ Older(age[a]) \in 0 .. MaxAge
  BY OlderIs DEF Shape, TypeOK
<1>3. dumps' \in Seq(DumpType) /\ Len(dumps') <= BackupKeep
  BY TickDumps DEF Tick, Shape, TypeOK
<1>4. age' \in [Files -> 0 .. MaxAge] /\ due' \in 0 .. BackupInterval
  BY <1>1, <1>2, StoreAssumption DEF Shape, TypeOK
<1> QED BY <1>1, <1>2, <1>3, <1>4 DEF Shape, TypeOK, UploadFits, Written, DumpType

(* Rows go, and tasks come and go, without anything else moving.           *)
RowsGo == \/ \E a \in Files : RemoveAttachment(a)
          \/ \E k \in Tasks : DeleteTask(k) \/ CreateTask(k)

(* A detach, a deleted task and a new one: rows only go away.              *)
LEMMA RowsGoShape ==
    ASSUME Shape, RowsGo
    PROVE  /\ Shape' /\ UNCHANGED <<disk, age, up, sweep, dumps, due>>
           /\ \A a \in Files : row'[a] = row[a] \/ row'[a] = NoTask
<1>1. UNCHANGED <<disk, age, up, sweep, dumps, due>>
  BY DEF RowsGo, RemoveAttachment, DeleteTask, CreateTask
<1>2. /\ row' \in [Files -> Tasks \cup {NoTask}] /\ tasks' \subseteq Tasks
      /\ \A a \in Files : row'[a] = row[a] \/ row'[a] = NoTask
  BY DEF RowsGo, RemoveAttachment, DeleteTask, CreateTask, Shape, TypeOK
<1> QED BY <1>1, <1>2 DEF Shape, TypeOK, UploadFits, Written

(* The steps of the system, by what they may touch.                        *)
LEMMA NextIs ==
    Next <=> \/ \E p \in Procs : FindTask(p) \/ UploadStep(p)
             \/ RowsGo \/ SweepActs \/ BackupStep \/ Tick
BY DEF Next, RowsGo, SweepActs

(* Every step keeps the types and the place of each upload.                *)
LEMMA NextShape == Shape /\ [Next]_vars => Shape'
<1> SUFFICES ASSUME Shape, [Next]_vars PROVE Shape'
  OBVIOUS
<1>1. CASE UNCHANGED vars
  BY <1>1 DEF vars, Shape, TypeOK, UploadFits, Written
<1> QED BY <1>1, NextIs, UploadShape, RowsGoShape, SweepShape, BackupShape, TickShape

(* Rows, files, uploads, the sweep and the dumps keep their types, and an  *)
(* upload has a file just from its write to its end (createFile).          *)
THEOREM ShapeHolds == Spec => []Shape
BY InitShape, NextShape, PTL DEF Spec

-----------------------------------------------------------------------------
(* No row, no file and no sweep.                                           *)
LEMMA InitBytes == Init => BytesInv
BY DEF Init, BytesInv, SweepInv, UploadInv, Written, LiveRowsHaveBytes, Claimed, NoUpload, NoSweep

(* What the sweep means to remove stays past the grace: a new file is not  *)
(* in it, and a file only ages (sweepOrphanFiles).                         *)
LEMMA SweepKeeps == Shape /\ SweepInv /\ [Next]_vars => SweepInv'
<1> SUFFICES ASSUME Shape, SweepInv, [Next]_vars PROVE SweepInv'
  OBVIOUS
<1>0. /\ age \in [Files -> 0 .. MaxAge] /\ sweep \in Sweep /\ disk \subseteq Files
      /\ sweep.old \subseteq Files
      /\ sweep.batch \cup sweep.doomed \subseteq sweep.old
      /\ \A a \in sweep.old \cap disk : age[a] > orphanGrace
  BY DEF Shape, TypeOK, SweepInv, Sweep
<1>1. CASE UNCHANGED <<disk, age, sweep>>
  BY <1>0, <1>1 DEF SweepInv
<1>2. ASSUME NEW p \in Procs, WriteBytes(p) \/ RemoveBytes(p) PROVE SweepInv'
  <2>1. CASE WriteBytes(p)
    <3>1. PICK a \in Files : /\ a \notin sweep.old /\ disk' = disk \cup {a}
                             /\ age' = [age EXCEPT ![a] = 0] /\ sweep' = sweep
      BY <2>1 DEF WriteBytes, Fresh
    <3>2. \A b \in Files \ {a} : age'[b] = age[b]
      BY <1>0, <3>1
    <3> QED BY <1>0, <3>1, <3>2 DEF SweepInv
  <2>2. CASE RemoveBytes(p)
    BY <1>0, <2>2 DEF RemoveBytes, SweepInv
  <2> QED BY <1>2, <2>1, <2>2
<1>3. ASSUME NEW p \in Procs, FindTask(p) \/ UploadStep(p) PROVE SweepInv'
  <2>1. \/ UNCHANGED <<disk, age, sweep>> \/ WriteBytes(p) \/ RemoveBytes(p)
    BY <1>3 DEF FindTask, UploadStep, assertWorkspaceQuota, assertInstanceQuota, WriteRefused,
                InsertRow, InsertFails, InsertUnacknowledged, Crash
  <2> QED BY <1>1, <1>2, <2>1
<1>4. CASE SweepActs
  <2>1. age' = age /\ disk' \subseteq disk
    BY <1>4 DEF SweepActs, SweepStart, SweepStep, SweepCrash, SweepEntry, Unlink, SweepWalked,
                SweepFlush, SweepFlushed, SweepDone
  <2>2. CASE SweepStart
    <3>1. sweep'.old = {a \in disk : age[a] > orphanGrace}
          /\ sweep'.batch = {} /\ sweep'.doomed = {} /\ disk' = disk
      BY <2>2 DEF SweepStart, NoSweep
    <3> QED BY <2>1, <3>1 DEF SweepInv
  <2>3. CASE sweep' = NoSweep
    BY <2>3 DEF NoSweep, SweepInv
  <2>4. CASE ~ SweepStart /\ sweep' # NoSweep
    <3>1. /\ sweep'.old = sweep.old
          /\ sweep'.batch \subseteq sweep.batch \cup sweep.old
          /\ sweep'.doomed \subseteq sweep.doomed \cup (sweep.batch \ Claimed)
      BY <1>4, <2>4, SweepIs
    <3> QED BY <1>0, <2>1, <3>1 DEF SweepInv
  <2> QED BY <2>2, <2>3, <2>4
<1>5. CASE Tick
  <2>1. /\ disk' = disk /\ sweep' = sweep
        /\ age' = [a \in Files |-> IF a \in disk THEN Older(age[a]) ELSE 0]
    BY <1>5 DEF Tick
  <2>2. \A a \in Files : Older(age[a]) >= age[a] /\ age[a] \in Nat /\ Older(age[a]) \in Nat
    BY <1>0, OlderIs, StoreAssumption
  <2>3. ASSUME NEW a \in sweep.old \cap disk PROVE age'[a] > orphanGrace
    BY <1>0, <2>1, <2>2, GraceIs
  <2> QED BY <1>0, <2>1, <2>3 DEF SweepInv
<1> QED BY <1>1, <1>3, <1>4, <1>5, NextIs, RowsGoShape, BackupShape DEF vars

(* An upload keeps its file to itself until its row is written.            *)
LEMMA UploadKeeps ==
    ASSUME ~ LostAcks, Shape, BytesInv, NEW p \in Procs, FindTask(p) \/ UploadStep(p)
    PROVE  UploadInv' /\ LiveRowsHaveBytes' /\ (sweep.doomed \cap Claimed = {})'
<1>1. PICK u : /\ UploadMoves(p, u)
               /\ UNCHANGED <<tasks, sweep, dumps, due>>
               /\ Written(p) /\ u.pc # "idle" => u.file = up[p].file
               /\ u.file \in Files => Written(p) \/ WriteBytes(p)
               /\ \/ UNCHANGED <<row, disk, age>>
                  \/ WriteBytes(p) \/ InsertRow(p) \/ InsertUnacknowledged(p)
                  \/ RemoveBytes(p)
  BY UploadStepIs
<1>2. /\ up'[p] = u /\ \A q \in Procs \ {p} : up'[q] = up[q]
      /\ \A q \in Procs : Written(q)' <=> up'[q].file \in Files
  BY <1>1, MovesShape DEF UploadFits, Written
<1>3. /\ \A q \in Procs \ {p} : Written(q)' <=> Written(q)
      /\ Written(p)' => u.pc # "idle" /\ u.file \in Files
  BY <1>1, <1>2 DEF Written, UploadMoves
<1>4. /\ row \in [Files -> Tasks \cup {NoTask}] /\ disk \subseteq Files
      /\ age \in [Files -> 0 .. MaxAge]
      /\ \A q \in Procs : Written(q) =>
            /\ up[q].file \in Files /\ up[q].file \in disk \ Claimed
            /\ age[up[q].file] <= MinOrphanGrace
            /\ \A r \in Procs \ {q} : Written(r) => up[r].file # up[q].file
      /\ Claimed \subseteq disk /\ sweep.doomed \cap Claimed = {}
      /\ \A a \in sweep.doomed \cap disk : age[a] > orphanGrace
  BY DEF Shape, TypeOK, UploadFits, BytesInv, UploadInv, LiveRowsHaveBytes, SweepInv
<1>5. CASE UNCHANGED <<row, disk, age>> /\ ~ WriteBytes(p)
  <2>1. Claimed' = Claimed
    BY <1>5 DEF Claimed
  <2>2. UploadInv'
    BY <1>1, <1>2, <1>3, <1>4, <1>5, <2>1 DEF UploadInv
  <2> QED BY <1>1, <1>4, <1>5, <2>1, <2>2 DEF LiveRowsHaveBytes
<1>6. CASE WriteBytes(p)
  <2>1. PICK a \in Files : /\ up[p].pc = "write" /\ Fresh(a) /\ disk' = disk \cup {a}
                           /\ age' = [age EXCEPT ![a] = 0] /\ row' = row
                           /\ up' = [up EXCEPT ![p].pc = "insert", ![p].file = a]
    BY <1>6 DEF WriteBytes
  <2>2. /\ a \notin disk /\ a \notin Claimed /\ \A q \in Procs : up[q].file # a
        /\ age'[a] = 0 /\ \A b \in Files \ {a} : age'[b] = age[b]
        /\ Claimed' = Claimed /\ up'[p].file = a
    BY <1>4, <2>1 DEF Fresh, Claimed, Shape, TypeOK, Upload
  <2>3. ASSUME NEW q \in Procs, Written(q)'
        PROVE  up'[q].file \in disk' \ Claimed' /\ age'[up'[q].file] <= MinOrphanGrace
    <3>1. CASE q = p
      BY <2>1, <2>2, <3>1, StoreAssumption
    <3>2. CASE q # p
      <4>1. Written(q) /\ up'[q] = up[q] /\ up[q].file # a
        BY <1>2, <1>3, <2>2, <2>3, <3>2
      <4>2. up[q].file \in disk \ Claimed /\ up[q].file \in Files /\ age[up[q].file] <= MinOrphanGrace
        BY <1>4, <4>1
      <4>3. age'[up[q].file] = age[up[q].file]
        BY <2>2, <4>1, <4>2
      <4>4. up[q].file \in disk' \ Claimed'
        BY <2>1, <2>2, <4>2
      <4>5. up'[q].file = up[q].file
        BY <4>1
      <4> QED BY <4>2, <4>3, <4>4, <4>5
    <3> QED BY <3>1, <3>2
  <2>5. ASSUME NEW q \in Procs, NEW r \in Procs \ {q}, Written(q)', Written(r)'
        PROVE  up'[r].file # up'[q].file
    <3>1. CASE q = p
      BY <1>2, <2>2, <3>1
    <3>2. CASE r = p
      BY <1>2, <2>2, <3>2
    <3>3. CASE q # p /\ r # p
      BY <1>2, <1>3, <1>4, <2>5, <3>3
    <3> QED BY <3>1, <3>2, <3>3
  <2>4. UploadInv'
    BY <2>3, <2>5 DEF UploadInv
  <2> QED BY <1>1, <1>4, <2>1, <2>2, <2>4 DEF LiveRowsHaveBytes
<1>7. CASE InsertRow(p)
  <2>1. /\ Written(p) /\ row' = [row EXCEPT ![up[p].file] = up[p].task]
        /\ u.pc = "idle" /\ disk' = disk /\ age' = age
    BY <1>2, <1>7 DEF InsertRow, Written, Shape, TypeOK, NoUpload
  <2>2. up[p].file \in disk /\ up[p].file \notin sweep.doomed
    BY <1>4, <2>1, GraceIs, StoreAssumption
  <2>3. Claimed' \subseteq Claimed \cup {up[p].file}
    BY <1>4, <2>1 DEF Claimed
  <2>4. UploadInv'
    BY <1>2, <1>3, <1>4, <2>1, <2>3 DEF UploadInv
  <2> QED BY <1>1, <1>4, <2>1, <2>2, <2>3, <2>4 DEF LiveRowsHaveBytes
<1>8. CASE RemoveBytes(p)
  <2>1. /\ Written(p) /\ disk' = disk \ {up[p].file} /\ row' = row /\ age' = age
        /\ u.pc = "idle"
    BY <1>2, <1>8 DEF RemoveBytes, Written, Shape, TypeOK, NoUpload
  <2>2. Claimed' = Claimed
    BY <2>1 DEF Claimed
  <2>3. UploadInv'
    BY <1>2, <1>3, <1>4, <2>1, <2>2 DEF UploadInv
  <2> QED BY <1>1, <1>4, <2>1, <2>2, <2>3 DEF LiveRowsHaveBytes
<1>9. ~ InsertUnacknowledged(p)
  BY DEF InsertUnacknowledged
<1> QED BY <1>1, <1>5, <1>6, <1>7, <1>8, <1>9

(* The sweep unlinks only what no row claims and no upload wrote.          *)
LEMMA SweepSpares ==
    ASSUME Shape, BytesInv, SweepActs
    PROVE  UploadInv' /\ LiveRowsHaveBytes' /\ (sweep.doomed \cap Claimed = {})'
<1>1. /\ UNCHANGED <<tasks, row, age, up, dumps, due>> /\ sweep \in Sweep
      /\ age \in [Files -> 0 .. MaxAge]
  BY SweepShape DEF Shape, TypeOK
<1>2. /\ UploadInv /\ Claimed \subseteq disk /\ sweep.doomed \cap Claimed = {}
      /\ \A a \in sweep.doomed \cap disk : age[a] > orphanGrace
      /\ \A p \in Procs : Written(p) => up[p].file \in disk /\ up[p].file \in Files
                                        /\ age[up[p].file] <= MinOrphanGrace
  BY DEF BytesInv, LiveRowsHaveBytes, SweepInv, UploadInv, Shape, UploadFits
<1>3. disk \ disk' \subseteq sweep.doomed
  BY DEF SweepActs, SweepStart, SweepStep, SweepCrash, SweepEntry, Unlink, SweepWalked,
         SweepFlush, SweepFlushed, SweepDone
<1>4. sweep'.doomed \cap Claimed = {}
  <2>1. CASE sweep' = NoSweep
    BY <2>1 DEF NoSweep
  <2>3. CASE SweepStart
    <3>1. sweep'.doomed = {}
      BY <2>3 DEF SweepStart, NoSweep
    <3> QED BY <3>1
  <2>2. CASE ~ SweepStart /\ sweep' # NoSweep
    BY <1>2, <2>2, SweepIs
  <2> QED BY <2>1, <2>2, <2>3
<1>5. Claimed' = Claimed /\ \A p \in Procs : Written(p)' <=> Written(p)
  BY <1>1 DEF Claimed, Written
<1>6. \A p \in Procs : Written(p) => up[p].file \in disk'
  BY <1>1, <1>2, <1>3, GraceIs, StoreAssumption
<1> QED BY <1>1, <1>2, <1>3, <1>4, <1>5, <1>6 DEF UploadInv, LiveRowsHaveBytes

(* An upload ends within the floor of the grace period.                    *)
LEMMA TickKeeps ==
    ASSUME Shape, BytesInv, Tick
    PROVE  UploadInv' /\ LiveRowsHaveBytes' /\ (sweep.doomed \cap Claimed = {})'
<1>1. /\ UNCHANGED <<tasks, row, disk, up, sweep>> /\ disk \subseteq Files
      /\ age' = [a \in Files |-> IF a \in disk THEN Older(age[a]) ELSE 0]
      /\ age \in [Files -> 0 .. MaxAge]
      /\ \A p \in Procs : Written(p) => age[up[p].file] < MinOrphanGrace
  BY DEF Tick, Shape, TypeOK, Written
<1>2. Claimed' = Claimed /\ \A p \in Procs : Written(p)' <=> Written(p)
  BY <1>1 DEF Claimed, Written
<1>3. ASSUME NEW p \in Procs, Written(p) PROVE age'[up[p].file] <= MinOrphanGrace
  <2>1. up[p].file \in disk /\ up[p].file \in Files
    BY <1>1, <1>3 DEF BytesInv, UploadInv
  <2> QED BY <1>1, <1>3, <2>1, OlderIs, StoreAssumption
<1> QED BY <1>1, <1>2, <1>3 DEF BytesInv, UploadInv, LiveRowsHaveBytes

(* While every commit is acknowledged, no step leaves a live row without   *)
(* its bytes.                                                              *)
LEMMA NextBytes ==
    ASSUME ~ LostAcks
    PROVE  Shape /\ BytesInv /\ [Next]_vars => BytesInv'
<1> SUFFICES ASSUME Shape, BytesInv, [Next]_vars PROVE BytesInv'
  OBVIOUS
<1>1. SweepInv'
  BY SweepKeeps DEF BytesInv
<1>2. CASE RowsGo
  <2>1. /\ UNCHANGED <<disk, age, up, sweep, dumps, due>>
        /\ \A a \in Files : row'[a] = row[a] \/ row'[a] = NoTask
    BY <1>2, RowsGoShape
  <2>2. Claimed' \subseteq Claimed /\ \A p \in Procs : Written(p)' <=> Written(p)
    BY <2>1 DEF Claimed, Written
  <2> QED BY <1>1, <2>1, <2>2 DEF BytesInv, UploadInv, LiveRowsHaveBytes
<1>3. CASE UNCHANGED vars \/ BackupStep
  <2>1. UNCHANGED <<row, disk, age, up, sweep>>
    BY <1>3, BackupShape DEF vars
  <2>2. Claimed' = Claimed /\ \A p \in Procs : Written(p)' <=> Written(p)
    BY <2>1 DEF Claimed, Written
  <2> QED BY <1>1, <2>1, <2>2 DEF BytesInv, UploadInv, LiveRowsHaveBytes
<1> QED BY <1>1, <1>2, <1>3, NextIs, UploadKeeps, SweepSpares, TickKeeps DEF BytesInv

(* No row is ever without its bytes, whatever is uploaded, detached, swept *)
(* or fails half way, as long as a committed insert is acknowledged        *)
(* (createFile, sweepOrphanFiles).                                         *)
THEOREM BytesHold ==
    ASSUME ~ LostAcks
    PROVE  Spec => []StoreSound
<1>1. Shape /\ BytesInv => StoreSound
  BY DEF Shape, BytesInv, StoreSound
<1>2. Shape /\ BytesInv /\ [Next]_vars => Shape' /\ BytesInv'
  BY NextShape, NextBytes
<1>3. Init => Shape /\ BytesInv
  BY InitShape, InitBytes
<1> QED BY <1>1, <1>2, <1>3, PTL DEF Spec

-----------------------------------------------------------------------------
(* One more interval between dumps, and no more than are kept.             *)
LEMMA Multiples ==
    ASSUME NEW b \in Nat, NEW m \in Nat, NEW n \in Nat, m <= n
    PROVE  m * b \in Nat /\ n * b \in Nat /\ m * b <= n * b /\ (m + 1) * b = m * b + b
OBVIOUS

(* Dumps that are pruned stay within reach of each other.                  *)
LEMMA PruneSpaced ==
    ASSUME NEW ds \in Seq(DumpType), NEW d \in Nat,
           \A i \in 1 .. Len(ds) : /\ ds[i].age <= ds[1].age + (i - 1) * BackupInterval
                                   /\ ds[1].age <= d
    PROVE  \A i \in 1 .. Len(prune(ds)) :
              /\ prune(ds)[i].age <= prune(ds)[1].age + (i - 1) * BackupInterval
              /\ prune(ds)[1].age <= d
<1>1. /\ Len(prune(ds)) \in Nat /\ Len(ds) \in Nat /\ Len(prune(ds)) <= Len(ds)
      /\ \A i \in 1 .. Len(prune(ds)) : prune(ds)[i] = ds[i]
  BY PruneIs, LenProperties
<1> SUFFICES ASSUME NEW i \in 1 .. Len(prune(ds))
             PROVE  /\ prune(ds)[i].age <= prune(ds)[1].age + (i - 1) * BackupInterval
                    /\ prune(ds)[1].age <= d
  OBVIOUS
<1>2. i \in 1 .. Len(ds) /\ prune(ds)[i] = ds[i] /\ prune(ds)[1] = ds[1]
  BY <1>1
<1> QED BY <1>2

(* A new dump is within an interval of the one before it.                  *)
LEMMA TakenSpaced ==
    ASSUME Shape, RotationInv
    PROVE  \A i \in 1 .. Len(take_dump) :
              /\ take_dump[i].age <= take_dump[1].age + (i - 1) * BackupInterval
              /\ take_dump[1].age <= 0
<1>1. /\ dumps \in Seq(DumpType) /\ Len(dumps) \in Nat /\ DOMAIN dumps = 1 .. Len(dumps)
      /\ due \in 0 .. BackupInterval /\ BackupInterval \in Nat
  BY LenProperties, StoreAssumption DEF Shape, TypeOK, DumpType
<1>2. /\ take_dump[1].age = 0 /\ Len(take_dump) = Len(dumps) + 1
      /\ \A i \in 1 .. Len(dumps) : take_dump[i + 1] = dumps[i]
  BY TakenIs DEF Shape
<1> SUFFICES ASSUME NEW i \in 1 .. Len(take_dump)
             PROVE  take_dump[i].age <= (i - 1) * BackupInterval
  BY <1>1, <1>2
<1>3. CASE i = 1
  BY <1>1, <1>2, <1>3
<1>4. CASE i # 1
  <2> DEFINE j == i - 1
  <2>1. j \in 1 .. Len(dumps) /\ j - 1 \in Nat /\ i = j + 1 /\ j = (j - 1) + 1
    BY <1>1, <1>2, <1>4
  <2>2. dumps[j].age \in Nat /\ dumps[1].age \in Nat
    <3>1. dumps[j] \in DumpType /\ dumps[1] \in DumpType
      BY <1>1, <2>1, ElementOfSeq
    <3> QED BY <3>1, StoreAssumption DEF DumpType
  <2>3. dumps[j].age <= dumps[1].age + (j - 1) * BackupInterval /\ dumps[1].age <= BackupInterval - due
    BY <1>1, <2>1 DEF RotationInv
  <2>4. (j - 1) * BackupInterval \in Nat /\ j * BackupInterval = (j - 1) * BackupInterval + BackupInterval
    <3> DEFINE k == j - 1
    <3>1. k \in Nat /\ j = k + 1
      BY <2>1
    <3> HIDE DEF k, j
    <3>2. k * BackupInterval \in Nat /\ (k + 1) * BackupInterval = k * BackupInterval + BackupInterval
      BY <1>1, <3>1, Multiples
    <3>3. k = j - 1
      BY DEF k
    <3> QED BY <3>1, <3>2, <3>3
  <2>5. take_dump[i] = dumps[j]
    BY <1>2, <2>1
  <2> HIDE DEF j
  <2>6. dumps[j].age <= j * BackupInterval
    BY <1>1, <2>2, <2>3, <2>4
  <2> QED BY <2>5, <2>6 DEF j
<1> QED BY <1>3, <1>4

(* No dump is kept before the first cycle.                                 *)
LEMMA InitRotation == Init => RotationInv
BY EmptySeq DEF Init, RotationInv

(* Every cycle takes its dump, so they stay at most an interval apart.     *)
LEMMA NextRotation ==
    ASSUME ~ DumpFailures
    PROVE  Shape /\ RotationInv /\ [Next]_vars => RotationInv'
<1> SUFFICES ASSUME Shape, RotationInv, [Next]_vars PROVE RotationInv'
  OBVIOUS
<1>0. /\ dumps \in Seq(DumpType) /\ Len(dumps) \in Nat /\ DOMAIN dumps = 1 .. Len(dumps)
      /\ due \in 0 .. BackupInterval /\ BackupInterval \in Nat
      /\ take_dump \in Seq(DumpType)
  BY LenProperties, StoreAssumption, TakenIs DEF Shape, TypeOK, DumpType
<1>a. \A i \in 1 .. Len(dumps) : dumps[i].age \in 0 .. MaxAge /\ dumps[1].age \in 0 .. MaxAge
  <2>1. \A i \in 1 .. Len(dumps) : dumps[i] \in DumpType /\ dumps[1] \in DumpType
    BY <1>0, ElementOfSeq
  <2> QED BY <2>1 DEF DumpType
<1>b. \A i \in 1 .. Len(dumps) : /\ dumps[i].age <= dumps[1].age + (i - 1) * BackupInterval
                                /\ dumps[1].age <= BackupInterval - due
  BY <1>0 DEF RotationInv
<1>c. ASSUME NEW ds, NEW d, ds \in Seq(DumpType), d \in 0 .. BackupInterval,
             dumps' = ds, due' = d,
             \A i \in 1 .. Len(ds) : /\ ds[i].age <= ds[1].age + (i - 1) * BackupInterval
                                     /\ ds[1].age <= BackupInterval - d
      PROVE  RotationInv'
  <2>1. DOMAIN ds = 1 .. Len(ds)
    BY <1>c, LenProperties
  <2> QED BY <1>c, <2>1 DEF RotationInv
<1>d. ASSUME NEW ds, NEW d, ds \in Seq(DumpType), d \in 0 .. BackupInterval,
             dumps' = prune(ds), due' = d,
             \A i \in 1 .. Len(ds) : /\ ds[i].age <= ds[1].age + (i - 1) * BackupInterval
                                     /\ ds[1].age <= BackupInterval - d
      PROVE  RotationInv'
  <2>1. BackupInterval - d \in Nat
    BY <1>0, <1>d
  <2>2. /\ prune(ds) \in Seq(DumpType)
        /\ \A i \in 1 .. Len(prune(ds)) :
              /\ prune(ds)[i].age <= prune(ds)[1].age + (i - 1) * BackupInterval
              /\ prune(ds)[1].age <= BackupInterval - d
    BY <1>d, <2>1, PruneSpaced, PruneIs
  <2> QED BY <1>c, <1>d, <2>2
<1>1. CASE UNCHANGED <<dumps, due>>
  BY <1>0, <1>1 DEF RotationInv
<1>2. CASE BackupCycle \/ BackupOnce
  <2>1. dumps' = prune(take_dump) /\ due' \in 0 .. BackupInterval
    BY <1>0, <1>2 DEF BackupCycle, BackupOnce
  <2>2. \A i \in 1 .. Len(take_dump) :
              /\ take_dump[i].age <= take_dump[1].age + (i - 1) * BackupInterval
              /\ take_dump[1].age <= BackupInterval - due'
    <3>1. ASSUME NEW i \in 1 .. Len(take_dump) PROVE take_dump[1].age <= BackupInterval - due'
      BY <1>0, <2>1, TakenIs DEF Shape
    <3> QED BY <3>1, TakenSpaced
  <2> HIDE DEF take_dump
  <2>3. PICK d : d = due'
    OBVIOUS
  <2> QED BY <1>0, <1>d, <2>1, <2>2, <2>3
<1>3. CASE BackupBoots
  <2>1. dumps' = dumps /\ due' = 0
    BY <1>3 DEF BackupBoots
  <2>2. \A i \in 1 .. Len(dumps) : /\ dumps[i].age <= dumps[1].age + (i - 1) * BackupInterval
                                  /\ dumps[1].age <= BackupInterval - 0
    BY <1>0, <1>a, <1>b
  <2> QED BY <1>0, <1>c, <2>1, <2>2
<1>4. CASE BackupBootSkips
  <2>1. /\ dumps # << >> /\ dumps[1].age < BackupInterval \div 2
        /\ due' = BackupInterval - dumps[1].age /\ dumps' = prune(dumps)
    BY <1>4 DEF BackupBootSkips, BootSkips
  <2>2. Len(dumps) # 0
    BY <1>0, <2>1, EmptySeq
  <2>3. dumps[1].age \in 0 .. MaxAge
    BY <1>0, <1>a, <2>2
  <2>4. BackupInterval \div 2 \in 0 .. BackupInterval
    BY <1>0
  <2>5. due' \in 0 .. BackupInterval
    BY <1>0, <2>1, <2>3, <2>4, StoreAssumption
  <2>6. \A i \in 1 .. Len(dumps) : /\ dumps[i].age <= dumps[1].age + (i - 1) * BackupInterval
                                  /\ dumps[1].age <= BackupInterval - due'
    BY <1>0, <1>b, <2>1, <2>3, StoreAssumption
  <2>7. PICK d : d = due'
    OBVIOUS
  <2> QED BY <1>0, <1>d, <2>1, <2>5, <2>6, <2>7
<1>5. CASE Tick
  <2>1. /\ dumps' \in Seq(DumpType) /\ Len(dumps') = Len(dumps) /\ due' = due - 1 /\ due > 0
        /\ \A i \in 1 .. Len(dumps) : dumps'[i].age = Older(dumps[i].age)
    BY <1>5, TickDumps DEF Tick, Shape
  <2>2. ASSUME NEW i \in 1 .. Len(dumps)
        PROVE  /\ dumps'[i].age <= dumps'[1].age + (i - 1) * BackupInterval
               /\ dumps'[1].age <= BackupInterval - due'
    <3>1. dumps[i].age \in 0 .. MaxAge /\ dumps[1].age \in 0 .. MaxAge /\ MaxAge \in Nat
      BY <1>a, StoreAssumption
    <3>2. (i - 1) * BackupInterval \in Nat
      <4>1. i - 1 \in Nat
        BY <1>0
      <4> QED BY <1>0, <4>1, Multiples
    <3>3. dumps'[i].age = Older(dumps[i].age) /\ dumps'[1].age = Older(dumps[1].age)
      BY <1>0, <2>1
    <3>4. dumps[i].age <= dumps[1].age + (i - 1) * BackupInterval /\ dumps[1].age <= BackupInterval - due
      BY <1>b
    <3>5. ASSUME NEW x \in 0 .. MaxAge, NEW y \in 0 .. MaxAge, NEW g \in Nat, x <= y + g
          PROVE  Older(x) <= Older(y) + g /\ Older(y) <= y + 1
      BY <3>1, <3>5 DEF Older
    <3>6. Older(dumps[1].age) \in 0 .. MaxAge
      BY <3>1, OlderIs
    <3>7. Older(dumps[i].age) <= Older(dumps[1].age) + (i - 1) * BackupInterval
      BY <3>1, <3>2, <3>4, <3>5
    <3>8. Older(dumps[1].age) <= dumps[1].age + 1
      BY <3>1, OlderIs
    <3>9. Older(dumps[1].age) <= BackupInterval - due'
      BY <1>0, <2>1, <3>1, <3>4, <3>6, <3>8
    <3> QED BY <3>3, <3>7, <3>9
  <2>3. DOMAIN dumps' = 1 .. Len(dumps)
    BY <2>1, LenProperties
  <2> QED BY <2>2, <2>3 DEF RotationInv
<1>6. ~ BackupCycleFails
  BY DEF BackupCycleFails
<1> QED BY <1>1, <1>2, <1>3, <1>4, <1>5, <1>6, NextIs, UploadStepIs, RowsGoShape, SweepShape
        DEF vars, BackupStep

(* No file is swept that a kept dump may still restore the row of, however *)
(* the backup is set (orphanGraceMs), as long as no cycle skips its dump.  *)
THEOREM SweepsPredateDumps ==
    ASSUME ~ DumpFailures
    PROVE  Spec => []SweptPredatesDumps
<1>1. Shape /\ SweepInv /\ RotationInv => SweptPredatesDumps
  <2> SUFFICES ASSUME Shape, SweepInv, RotationInv,
                      NEW a \in sweep.doomed \cap disk, NEW i \in DOMAIN dumps
               PROVE  dumps[i].age < age[a]
    BY DEF SweptPredatesDumps
  <2>1. /\ dumps \in Seq(DumpType) /\ Len(dumps) \in Nat /\ i \in 1 .. Len(dumps)
        /\ Len(dumps) <= BackupKeep /\ due \in 0 .. BackupInterval
        /\ BackupInterval \in Nat /\ BackupKeep \in Nat /\ age[a] \in Nat
    BY LenProperties, StoreAssumption DEF Shape, TypeOK, DumpType
  <2>2. dumps[i].age \in Nat /\ dumps[1].age \in Nat
    <3>1. dumps[i] \in DumpType /\ dumps[1] \in DumpType
      BY <2>1, ElementOfSeq
    <3> QED BY <3>1, StoreAssumption DEF DumpType
  <2>3. dumps[i].age <= dumps[1].age + (i - 1) * BackupInterval /\ dumps[1].age <= BackupInterval - due
    BY DEF RotationInv
  <2>4. dumps[i].age <= i * BackupInterval
    <3> DEFINE k == i - 1
    <3>1. k \in Nat /\ i = k + 1
      BY <2>1
    <3> HIDE DEF k
    <3>2. k * BackupInterval \in Nat /\ (k + 1) * BackupInterval = k * BackupInterval + BackupInterval
      BY <2>1, <3>1, Multiples
    <3>3. dumps[i].age <= dumps[1].age + k * BackupInterval
      BY <2>3 DEF k
    <3> QED BY <2>1, <2>2, <2>3, <3>1, <3>2, <3>3
  <2>5. Larger(BackupKeep, 1) \in Nat /\ i <= Larger(BackupKeep, 1) /\ i \in Nat
    BY <2>1 DEF Larger
  <2>6. i * BackupInterval <= Larger(BackupKeep, 1) * BackupInterval /\ i * BackupInterval \in Nat
        /\ Larger(BackupKeep, 1) * BackupInterval \in Nat
    BY <2>1, <2>5, Multiples
  <2>7. BackupInterval * Larger(BackupKeep, 1) = Larger(BackupKeep, 1) * BackupInterval
    BY <2>1, <2>5
  <2>8. age[a] > orphanGrace
    BY DEF SweepInv
  <2> QED BY <2>1, <2>2, <2>4, <2>6, <2>7, <2>8, GraceIs
<1>2. Shape /\ SweepInv /\ RotationInv /\ [Next]_vars => Shape' /\ SweepInv' /\ RotationInv'
  BY NextShape, SweepKeeps, NextRotation
<1>3. Init => Shape /\ SweepInv /\ RotationInv
  BY InitShape, InitBytes, InitRotation DEF BytesInv
<1> QED BY <1>1, <1>2, <1>3, PTL DEF Spec

-----------------------------------------------------------------------------
(* What is counted against a quota, and those who may add to it.           *)
StoredIn(w) == {a \in Claimed : WorkspaceOf[row[a]] = w}

(* A step that adds one file is paid for by the upload it ends.            *)
LEMMA CountStep ==
    ASSUME NEW C, NEW D, NEW P, NEW Q, NEW b \in Int,
           IsFiniteSet(C), IsFiniteSet(P), Cardinality(C) + Cardinality(P) <= b,
           \/ D \subseteq C /\ Q \subseteq P
           \/ \E x, y : y \in P /\ D \subseteq C \cup {x} /\ Q \subseteq P \ {y}
    PROVE  Cardinality(D) + Cardinality(Q) <= b
<1>0. Cardinality(C) \in Nat /\ Cardinality(P) \in Nat
  BY FS_CardinalityType
<1>1. CASE D \subseteq C /\ Q \subseteq P
  <2>1. /\ Cardinality(D) <= Cardinality(C) /\ IsFiniteSet(D)
        /\ Cardinality(Q) <= Cardinality(P) /\ IsFiniteSet(Q)
    BY <1>1, FS_Subset
  <2> QED BY <1>0, <2>1, FS_CardinalityType
<1>2. CASE \E x, y : y \in P /\ D \subseteq C \cup {x} /\ Q \subseteq P \ {y}
  <2>1. PICK x, y : y \in P /\ D \subseteq C \cup {x} /\ Q \subseteq P \ {y}
    BY <1>2
  <2>2. IsFiniteSet(C \cup {x}) /\ Cardinality(C \cup {x}) <= Cardinality(C) + 1
    <3>1. IsFiniteSet(C \cup {x})
          /\ Cardinality(C \cup {x}) = IF x \in C THEN Cardinality(C) ELSE Cardinality(C) + 1
      BY FS_AddElement
    <3>2. CASE x \in C
      BY <1>0, <3>1, <3>2
    <3>3. CASE x \notin C
      BY <1>0, <3>1, <3>3
    <3> QED BY <3>2, <3>3
  <2>3. IsFiniteSet(P \ {y}) /\ Cardinality(P \ {y}) = Cardinality(P) - 1
    BY <2>1, FS_RemoveElement
  <2>4. /\ Cardinality(D) <= Cardinality(C \cup {x}) /\ IsFiniteSet(D)
        /\ Cardinality(Q) <= Cardinality(P \ {y}) /\ IsFiniteSet(Q)
    BY <2>1, <2>2, <2>3, FS_Subset
  <2> QED BY <1>0, <2>2, <2>3, <2>4, FS_CardinalityType
<1> QED BY <1>1, <1>2

(* A check that passes leaves room for the requests there can be.          *)
LEMMA CountPassed ==
    ASSUME NEW C, NEW D, NEW Q \in SUBSET Procs, NEW quota \in Nat, quota > 0,
           IsFiniteSet(C), Fits(Cardinality(C), quota), D \subseteq C
    PROVE  Cardinality(D) + Cardinality(Q) <= quota + Cardinality(Procs) - 1
<1>1. /\ Cardinality(D) <= Cardinality(C) /\ IsFiniteSet(D)
      /\ Cardinality(Q) <= Cardinality(Procs) /\ IsFiniteSet(Q)
  BY FS_Subset, StoreAssumption
<1>2. /\ Cardinality(C) \in Nat /\ Cardinality(D) \in Nat
      /\ Cardinality(Q) \in Nat /\ Cardinality(Procs) \in Nat
  BY <1>1, FS_CardinalityType, StoreAssumption
<1>3. Cardinality(C) + 1 <= quota
  BY DEF Fits
<1> QED BY <1>1, <1>2, <1>3

(* Where a step of an upload leaves it, and the row it may write.          *)
LEMMA UploadStages ==
    ASSUME Shape, NEW p \in Procs, FindTask(p) \/ UploadStep(p)
    PROVE  /\ \A q \in Procs \ {p} : up'[q] = up[q]
           /\ up[p].pc # "idle" /\ up'[p].pc # "idle" => up'[p].task = up[p].task
           /\ \/ row' = row /\ up'[p].pc \in {"idle", "quotaWorkspace", "cleanup"}
              \/ row' = row /\ up[p].pc = "write" /\ up'[p].pc = "insert"
              \/ /\ row' = row /\ up[p].pc = "quotaWorkspace" /\ up'[p].pc = "quotaInstance"
                 /\ Fits(storedFileBytes(WorkspaceOf[up[p].task]), WorkspaceQuota)
              \/ /\ row' = row /\ up[p].pc = "quotaInstance" /\ up'[p].pc = "write"
                 /\ Fits(Cardinality(Claimed), InstanceQuota)
              \/ /\ row' = [row EXCEPT ![up[p].file] = up[p].task]
                 /\ up[p].pc = "insert" /\ up'[p].pc \in {"idle", "cleanup"}
<1>0. up \in [Procs -> Upload] /\ up[p] \in Upload /\ NoUpload.pc = "idle"
  BY DEF Shape, TypeOK, NoUpload
<1>1. CASE FindTask(p)
  BY <1>0, <1>1 DEF FindTask, NoUpload
<1>2. CASE assertWorkspaceQuota(p)
  BY <1>0, <1>2 DEF assertWorkspaceQuota, Upload
<1>3. CASE assertInstanceQuota(p)
  BY <1>0, <1>3 DEF assertInstanceQuota, Upload
<1>4. CASE WriteBytes(p)
  <2>1. PICK a \in Files : up' = [up EXCEPT ![p].pc = "insert", ![p].file = a] /\ up[p].pc = "write"
                           /\ row' = row
    BY <1>4 DEF WriteBytes
  <2>2. up'[p] = [[up[p] EXCEPT !.pc = "insert"] EXCEPT !.file = a]
        /\ \A q \in Procs \ {p} : up'[q] = up[q]
    BY <1>0, <2>1
  <2>3. up'[p].pc = "insert" /\ up'[p].task = up[p].task
    BY <1>0, <2>2 DEF Upload
  <2> QED BY <2>1, <2>2, <2>3
<1>5. CASE InsertFails(p)
  BY <1>0, <1>5 DEF InsertFails, Upload
<1>6. CASE InsertRow(p)
  BY <1>0, <1>6 DEF InsertRow, Upload
<1>7. CASE InsertUnacknowledged(p)
  BY <1>0, <1>7 DEF InsertUnacknowledged, Upload
<1>8. CASE WriteRefused(p) \/ RemoveBytes(p) \/ Crash(p)
  BY <1>0, <1>8 DEF WriteRefused, RemoveBytes, Crash
<1> QED BY <1>1, <1>2, <1>3, <1>4, <1>5, <1>6, <1>7, <1>8 DEF UploadStep

(* What the quota counts is finite, and a sum of ones is a count.          *)
LEMMA QuotaSets ==
    ASSUME Shape
    PROVE  /\ IsFiniteSet(Claimed) /\ IsFiniteSet(PassedInstance)
           /\ \A w : /\ storedFileBytes(w) = Cardinality(StoredIn(w))
                     /\ IsFiniteSet(StoredIn(w)) /\ IsFiniteSet(PassedWorkspace(w))
           /\ Cardinality(Procs) \in Nat
<1>1. IsFiniteSet(Claimed) /\ IsFiniteSet(PassedInstance)
  <2>1. Claimed \subseteq Files /\ PassedInstance \subseteq Procs
    BY DEF Claimed, PassedInstance
  <2> QED BY <2>1, FS_Subset, StoreAssumption
<1>2. ASSUME NEW w
      PROVE  /\ storedFileBytes(w) = Cardinality(StoredIn(w))
             /\ IsFiniteSet(StoredIn(w)) /\ IsFiniteSet(PassedWorkspace(w))
  <2>1. StoredIn(w) \subseteq Claimed /\ PassedWorkspace(w) \subseteq Procs
    BY DEF StoredIn, PassedWorkspace
  <2>2. storedFileBytes(w) = Cardinality(StoredIn(w))
    BY DEF storedFileBytes, StoredIn
  <2> QED BY <1>1, <2>1, <2>2, FS_Subset, StoreAssumption
<1> QED BY <1>1, <1>2, FS_CardinalityType, StoreAssumption

(* Nothing is stored and no upload has passed a check.                     *)
LEMMA InitQuota == Init => QuotaInv
<1> SUFFICES ASSUME Init PROVE QuotaInv
  OBVIOUS
<1>1. Claimed = {} /\ PassedInstance = {}
  BY DEF Init, Claimed, PassedInstance, NoUpload
<1>2. \A w : StoredIn(w) = {} /\ PassedWorkspace(w) = {}
  BY <1>1 DEF Init, StoredIn, PassedWorkspace, NoUpload
<1>3. Cardinality({}) = 0 /\ Cardinality(Procs) \in Nat
  BY FS_EmptySet, FS_CardinalityType, StoreAssumption
<1>4. Shape
  BY InitShape
<1>5. \A w : storedFileBytes(w) = 0 /\ Cardinality(PassedWorkspace(w)) = 0
  BY <1>2, <1>3, <1>4, QuotaSets
<1>6. Cardinality(Claimed) = 0 /\ Cardinality(PassedInstance) = 0
  BY <1>1, <1>3
<1> QED BY <1>3, <1>5, <1>6, StoreAssumption DEF QuotaInv

(* The files of the instance and of a workspace, once they only grow with  *)
(* the upload that passed the check for them.                              *)
LEMMA QuotaFollows ==
    ASSUME Shape, Shape', QuotaInv,
           InstanceQuota > 0 =>
              \/ Claimed' \subseteq Claimed /\ PassedInstance' \subseteq PassedInstance
              \/ \E x, y : /\ y \in PassedInstance /\ Claimed' \subseteq Claimed \cup {x}
                           /\ PassedInstance' \subseteq PassedInstance \ {y}
              \/ Fits(Cardinality(Claimed), InstanceQuota) /\ Claimed' \subseteq Claimed,
           \A w \in Workspaces :
              \/ StoredIn(w)' \subseteq StoredIn(w) /\ PassedWorkspace(w)' \subseteq PassedWorkspace(w)
              \/ \E x, y : /\ y \in PassedWorkspace(w) /\ StoredIn(w)' \subseteq StoredIn(w) \cup {x}
                           /\ PassedWorkspace(w)' \subseteq PassedWorkspace(w) \ {y}
              \/ Fits(storedFileBytes(w), WorkspaceQuota) /\ StoredIn(w)' \subseteq StoredIn(w)
    PROVE  QuotaInv'
<1>0. Cardinality(Procs) \in Nat /\ WorkspaceQuota \in Nat /\ InstanceQuota \in Nat
  BY QuotaSets, StoreAssumption
<1>1. ASSUME InstanceQuota > 0
      PROVE  Cardinality(Claimed') + Cardinality(PassedInstance')
                 <= InstanceQuota + Cardinality(Procs) - 1
  <2> DEFINE b == InstanceQuota + Cardinality(Procs) - 1
  <2>1. b \in Int /\ Cardinality(Claimed) + Cardinality(PassedInstance) <= b
    BY <1>0, <1>1 DEF QuotaInv
  <2>2. IsFiniteSet(Claimed) /\ IsFiniteSet(PassedInstance) /\ PassedInstance' \in SUBSET Procs
    BY QuotaSets DEF PassedInstance
  <2>3. CASE Fits(Cardinality(Claimed), InstanceQuota) /\ Claimed' \subseteq Claimed
    BY <1>0, <1>1, <2>2, <2>3, CountPassed
  <2> HIDE DEF b
  <2>4. CASE ~ (Fits(Cardinality(Claimed), InstanceQuota) /\ Claimed' \subseteq Claimed)
    <3>1. Cardinality(Claimed') + Cardinality(PassedInstance') <= b
      BY <1>1, <2>1, <2>2, <2>4, CountStep
    <3> QED BY <3>1 DEF b
  <2> QED BY <2>3, <2>4
<1>2. ASSUME WorkspaceQuota > 0, NEW w \in Workspaces
      PROVE  storedFileBytes(w)' + Cardinality(PassedWorkspace(w)')
                 <= WorkspaceQuota + Cardinality(Procs) - 1
  <2> DEFINE b == WorkspaceQuota + Cardinality(Procs) - 1
  <2>0. storedFileBytes(w) = Cardinality(StoredIn(w)) /\ storedFileBytes(w)' = Cardinality(StoredIn(w)')
    BY QuotaSets DEF storedFileBytes, StoredIn
  <2>1. b \in Int /\ Cardinality(StoredIn(w)) + Cardinality(PassedWorkspace(w)) <= b
    BY <1>0, <1>2, <2>0 DEF QuotaInv
  <2>2. IsFiniteSet(StoredIn(w)) /\ IsFiniteSet(PassedWorkspace(w))
        /\ PassedWorkspace(w)' \in SUBSET Procs
    BY QuotaSets DEF PassedWorkspace
  <2>3. CASE Fits(storedFileBytes(w), WorkspaceQuota) /\ StoredIn(w)' \subseteq StoredIn(w)
    BY <1>0, <1>2, <2>0, <2>2, <2>3, CountPassed
  <2> HIDE DEF b
  <2>4. CASE ~ (Fits(storedFileBytes(w), WorkspaceQuota) /\ StoredIn(w)' \subseteq StoredIn(w))
    <3>1. \/ StoredIn(w)' \subseteq StoredIn(w) /\ PassedWorkspace(w)' \subseteq PassedWorkspace(w)
          \/ \E x, y : /\ y \in PassedWorkspace(w) /\ StoredIn(w)' \subseteq StoredIn(w) \cup {x}
                       /\ PassedWorkspace(w)' \subseteq PassedWorkspace(w) \ {y}
      BY <2>4
    <3>2. Cardinality(StoredIn(w)') + Cardinality(PassedWorkspace(w)') <= b
      BY <2>1, <2>2, <3>1, CountStep
    <3> QED BY <2>0, <3>2 DEF b
  <2> QED BY <2>3, <2>4
<1> QED BY <1>1, <1>2 DEF QuotaInv

(* An upload adds a file only after both checks, and leaves with it.       *)
LEMMA UploadQuota ==
    ASSUME Shape, QuotaInv, NEW p \in Procs, FindTask(p) \/ UploadStep(p)
    PROVE  QuotaInv'
<1>0. Shape'
  BY UploadShape
<1>1. /\ \A q \in Procs \ {p} : up'[q] = up[q]
      /\ up[p].pc # "idle" /\ up'[p].pc # "idle" => up'[p].task = up[p].task
  BY UploadStages
<1>2. /\ PassedInstance' \subseteq PassedInstance \cup {p}
      /\ \A w : PassedWorkspace(w)' \subseteq PassedWorkspace(w) \cup {p}
  BY <1>1 DEF PassedInstance, PassedWorkspace
<1>3. CASE row' = row /\ up'[p].pc \in {"idle", "quotaWorkspace", "cleanup"}
  <2>1. Claimed' = Claimed /\ \A w : StoredIn(w)' = StoredIn(w)
    BY <1>3 DEF Claimed, StoredIn
  <2>2. p \notin PassedInstance' /\ \A w : p \notin PassedWorkspace(w)'
    BY <1>3 DEF PassedInstance, PassedWorkspace
  <2> QED BY <1>0, <1>2, <2>1, <2>2, QuotaFollows
<1>4. CASE row' = row /\ up[p].pc = "write" /\ up'[p].pc = "insert"
  <2>1. Claimed' = Claimed /\ \A w : StoredIn(w)' = StoredIn(w)
    BY <1>4 DEF Claimed, StoredIn
  <2>2. p \in PassedInstance /\ \A w : p \in PassedWorkspace(w)' => p \in PassedWorkspace(w)
    BY <1>1, <1>4 DEF PassedInstance, PassedWorkspace
  <2> QED BY <1>0, <1>2, <2>1, <2>2, QuotaFollows
<1>5. CASE /\ row' = row /\ up[p].pc = "quotaWorkspace" /\ up'[p].pc = "quotaInstance"
           /\ Fits(storedFileBytes(WorkspaceOf[up[p].task]), WorkspaceQuota)
  <2>1. Claimed' = Claimed /\ \A w : StoredIn(w)' = StoredIn(w)
    BY <1>5 DEF Claimed, StoredIn
  <2>2. p \notin PassedInstance'
    BY <1>5 DEF PassedInstance
  <2>3. \A w : w # WorkspaceOf[up[p].task] => p \notin PassedWorkspace(w)'
    BY <1>1, <1>5 DEF PassedWorkspace
  <2> QED BY <1>0, <1>2, <1>5, <2>1, <2>2, <2>3, QuotaFollows
<1>6. CASE /\ row' = row /\ up[p].pc = "quotaInstance" /\ up'[p].pc = "write"
           /\ Fits(Cardinality(Claimed), InstanceQuota)
  <2>1. Claimed' = Claimed /\ \A w : StoredIn(w)' = StoredIn(w)
    BY <1>6 DEF Claimed, StoredIn
  <2>2. \A w : p \in PassedWorkspace(w)' => p \in PassedWorkspace(w)
    BY <1>1, <1>6 DEF PassedWorkspace
  <2> QED BY <1>0, <1>2, <1>6, <2>1, <2>2, QuotaFollows
<1>7. CASE /\ row' = [row EXCEPT ![up[p].file] = up[p].task]
           /\ up[p].pc = "insert" /\ up'[p].pc \in {"idle", "cleanup"}
  <2>1. row \in [Files -> Tasks \cup {NoTask}] /\ up[p].file \in Files /\ up[p].task \in Tasks
    BY <1>7 DEF Shape, TypeOK, UploadFits, Written
  <2>2. p \in PassedInstance /\ p \notin PassedInstance' /\ \A w : p \notin PassedWorkspace(w)'
    BY <1>7 DEF PassedInstance, PassedWorkspace
  <2>3. Claimed' \subseteq Claimed \cup {up[p].file}
    BY <1>7, <2>1 DEF Claimed
  <2>4. ASSUME NEW w \in Workspaces
        PROVE  \/ StoredIn(w)' \subseteq StoredIn(w)
               \/ StoredIn(w)' \subseteq StoredIn(w) \cup {up[p].file} /\ p \in PassedWorkspace(w)
    <3>1. CASE WorkspaceOf[up[p].task] = w
      <4>1. p \in PassedWorkspace(w)
        BY <1>7, <3>1 DEF PassedWorkspace
      <4>2. StoredIn(w)' \subseteq StoredIn(w) \cup {up[p].file}
        BY <1>7, <2>1 DEF StoredIn, Claimed
      <4> QED BY <4>1, <4>2
    <3>2. CASE WorkspaceOf[up[p].task] # w
      BY <1>7, <2>1, <3>2 DEF StoredIn, Claimed
    <3> QED BY <3>1, <3>2
  <2>5. /\ PassedInstance' \subseteq PassedInstance \ {p}
        /\ \A w : PassedWorkspace(w)' \subseteq PassedWorkspace(w) \ {p}
    BY <1>2, <2>2
  <2>6. \A w \in Workspaces :
           \/ StoredIn(w)' \subseteq StoredIn(w) /\ PassedWorkspace(w)' \subseteq PassedWorkspace(w)
           \/ \E x, y : /\ y \in PassedWorkspace(w) /\ StoredIn(w)' \subseteq StoredIn(w) \cup {x}
                        /\ PassedWorkspace(w)' \subseteq PassedWorkspace(w) \ {y}
    BY <2>4, <2>5
  <2> QED BY <1>0, <2>2, <2>3, <2>5, <2>6, QuotaFollows
<1> QED BY <1>3, <1>4, <1>5, <1>6, <1>7, UploadStages

(* Every step keeps what each check has read behind what is stored.        *)
LEMMA NextQuota == Shape /\ QuotaInv /\ [Next]_vars => QuotaInv'
<1> SUFFICES ASSUME Shape, QuotaInv, [Next]_vars PROVE QuotaInv'
  OBVIOUS
<1>0. Shape'
  BY NextShape
<1>1. ASSUME UNCHANGED up, \A a \in Files : row'[a] = row[a] \/ row'[a] = NoTask
      PROVE  QuotaInv'
  <2>1. Claimed' \subseteq Claimed /\ PassedInstance' = PassedInstance
    BY <1>1 DEF Claimed, PassedInstance
  <2>2. \A w : StoredIn(w)' \subseteq StoredIn(w) /\ PassedWorkspace(w)' = PassedWorkspace(w)
    BY <1>1 DEF StoredIn, Claimed, PassedWorkspace
  <2> QED BY <1>0, <2>1, <2>2, QuotaFollows
<1> QED BY <1>1, NextIs, UploadQuota, RowsGoShape, SweepShape, BackupShape, TickShape DEF vars

(* The files of a workspace and of the instance exceed their quotas by no  *)
(* more than one for each other request that passed the check at the same  *)
(* time, for any number of requests (assertWithinQuota).                   *)
THEOREM QuotasHold == Spec => []QuotaOvershootBounded
<1>1. Shape /\ QuotaInv => QuotaOvershootBounded
  <2> SUFFICES ASSUME Shape, QuotaInv PROVE QuotaOvershootBounded
    OBVIOUS
  <2>1. /\ Cardinality(Claimed) \in Nat /\ Cardinality(PassedInstance) \in Nat
        /\ \A w : storedFileBytes(w) \in Nat /\ Cardinality(PassedWorkspace(w)) \in Nat
        /\ Cardinality(Procs) \in Nat
    BY QuotaSets, FS_CardinalityType
  <2> QED BY <2>1, StoreAssumption DEF QuotaInv, QuotaOvershootBounded
<1>2. Shape /\ QuotaInv /\ [Next]_vars => Shape' /\ QuotaInv'
  BY NextShape, NextQuota
<1>3. Init => Shape /\ QuotaInv
  BY InitShape, InitQuota
<1> QED BY <1>1, <1>2, <1>3, PTL DEF Spec
=============================================================================
