-------------------------- MODULE AttachmentStore --------------------------
(***************************************************************************)
(* Attachment rows, the bytes they name, and what removes either: uploads  *)
(* (attachment/attachment.service.ts), detaching and cascades, the nightly *)
(* sweep of orphan files (retention/cleanup.worker.ts) and the rotation of *)
(* dumps the sweep's grace period is derived from (scripts/backup.sh).     *)
(*                                                                         *)
(* Bytes are written before the row, so a file without a row may be an     *)
(* orphan or an upload under way; only its age tells them apart.  Ages are *)
(* counted in ticks and saturate at MaxAge.  Every file has size 1, and an *)
(* identifier is used again only when nothing remembers it.                *)
(***************************************************************************)
EXTENDS Integers, Sequences, FiniteSets

CONSTANTS Files, Tasks, NoTask, NoFile, Procs,
          Workspaces, WorkspaceOf,        \* the workspace of each task
          WorkspaceQuota, InstanceQuota,  \* 0 is unlimited
          BackupInterval, BackupKeep, MinOrphanGrace,
          BatchSize, MaxBatches,
          DumpFailures, LostAcks,
          MaxAge                          \* bound: ages saturate here

Larger(m, n) == IF m > n THEN m ELSE n

(* A faulty window that a backup setting can shrink to nothing.            *)
orphanGraceUnclamped == BackupInterval * Larger(BackupKeep, 1)

orphanGrace == Larger(BackupInterval * Larger(BackupKeep, 1), MinOrphanGrace)

ASSUME StoreAssumption ==
    /\ NoTask \notin Tasks /\ NoFile \notin Files
    /\ IsFiniteSet(Files) /\ IsFiniteSet(Procs)
    /\ WorkspaceOf \in [Tasks -> Workspaces]
    /\ WorkspaceQuota \in Nat /\ InstanceQuota \in Nat
    /\ BackupInterval \in Nat \ {0} /\ BackupKeep \in Nat
    /\ MinOrphanGrace \in Nat \ {0}
    /\ BatchSize \in Nat \ {0} /\ MaxBatches \in Nat \ {0}
    /\ DumpFailures \in BOOLEAN /\ LostAcks \in BOOLEAN
    /\ MaxAge \in Nat /\ MaxAge > orphanGrace

VARIABLES tasks,   \* Task rows
          row,     \* Attachment rows of kind FILE: the task each belongs to
          disk,    \* files under STORAGE_PATH
          age,     \* ticks since a file's mtime
          up,      \* uploads under way, one per request
          sweep,   \* the orphan sweep of the cleanup worker
          dumps,   \* kept dumps, the newest first
          due      \* ticks until the next backup cycle

vars == <<tasks, row, disk, age, up, sweep, dumps, due>>

Upload == [pc : {"idle", "quotaWorkspace", "quotaInstance", "write", "insert",
                 "cleanup"},
           task : Tasks \cup {NoTask}, file : Files \cup {NoFile}]

NoUpload == [pc |-> "idle", task |-> NoTask, file |-> NoFile]

Sweep == [pc : {"idle", "walk", "flush", "unlink", "done"},
          pending : SUBSET Files, old : SUBSET Files, batch : SUBSET Files,
          doomed : SUBSET Files, removed : Nat]

NoSweep == [pc |-> "idle", pending |-> {}, old |-> {}, batch |-> {},
            doomed |-> {}, removed |-> 0]

Claimed == {a \in Files : row[a] # NoTask}

Init ==
    /\ tasks = Tasks
    /\ row = [a \in Files |-> NoTask]
    /\ disk = {}
    /\ age = [a \in Files |-> 0]
    /\ up = [p \in Procs |-> NoUpload]
    /\ sweep = NoSweep
    /\ dumps = << >>
    /\ due = 0

-----------------------------------------------------------------------------
(* createFile, one action per awaited step.                                *)
FindTask(p) ==
    \E k \in tasks :
        /\ up[p].pc = "idle"
        /\ up' = [up EXCEPT ![p] = [NoUpload EXCEPT !.pc = "quotaWorkspace", !.task = k]]
        /\ UNCHANGED <<tasks, row, disk, age, sweep, dumps, due>>

storedFileBytes(w) ==
    Cardinality({a \in Claimed : WorkspaceOf[row[a]] = w})

(* A faulty check that forgets the bytes about to arrive.                  *)
FitsIgnoringIncoming(used, quota) == quota = 0 \/ used <= quota

Fits(used, quota) == quota = 0 \/ used + 1 <= quota

assertWorkspaceQuota(p) ==
    /\ up[p].pc = "quotaWorkspace"
    /\ up' = [up EXCEPT ![p] =
                 IF Fits(storedFileBytes(WorkspaceOf[@.task]), WorkspaceQuota)
                 THEN [@ EXCEPT !.pc = "quotaInstance"] ELSE NoUpload]
    /\ UNCHANGED <<tasks, row, disk, age, sweep, dumps, due>>

assertInstanceQuota(p) ==
    /\ up[p].pc = "quotaInstance"
    /\ up' = [up EXCEPT ![p] = IF Fits(Cardinality(Claimed), InstanceQuota)
                               THEN [@ EXCEPT !.pc = "write"] ELSE NoUpload]
    /\ UNCHANGED <<tasks, row, disk, age, sweep, dumps, due>>

(* uuidv7: nothing knows the new identifier.                               *)
Fresh(a) == /\ a \notin disk \cup Claimed \cup sweep.pending \cup sweep.old
            /\ a \notin sweep.batch \cup sweep.doomed
            /\ \A p \in Procs : up[p].file # a
            /\ \A i \in DOMAIN dumps : a \notin dumps[i].rows

WriteBytes(p) ==
    \E a \in Files :
        /\ up[p].pc = "write"
        /\ Fresh(a)
        /\ disk' = disk \cup {a}
        /\ age' = [age EXCEPT ![a] = 0]
        /\ up' = [up EXCEPT ![p].pc = "insert", ![p].file = a]
        /\ UNCHANGED <<tasks, row, sweep, dumps, due>>

(* No identifier left in this instance.                                    *)
WriteRefused(p) ==
    /\ up[p].pc = "write"
    /\ \A a \in Files : ~ Fresh(a)
    /\ up' = [up EXCEPT ![p] = NoUpload]
    /\ UNCHANGED <<tasks, row, disk, age, sweep, dumps, due>>

(* The transaction of the row and its activity entry.                      *)
InsertRow(p) ==
    /\ up[p].pc = "insert"
    /\ up[p].task \in tasks
    /\ row' = [row EXCEPT ![up[p].file] = up[p].task]
    /\ up' = [up EXCEPT ![p] = NoUpload]
    /\ UNCHANGED <<tasks, disk, age, sweep, dumps, due>>

(* It fails for any reason, its task having gone among them ...            *)
InsertFails(p) ==
    /\ up[p].pc = "insert"
    /\ up' = [up EXCEPT ![p].pc = "cleanup"]
    /\ UNCHANGED <<tasks, row, disk, age, sweep, dumps, due>>

(* ... or commits while its acknowledgement is lost.                       *)
InsertUnacknowledged(p) ==
    /\ LostAcks
    /\ up[p].pc = "insert"
    /\ up[p].task \in tasks
    /\ row' = [row EXCEPT ![up[p].file] = up[p].task]
    /\ up' = [up EXCEPT ![p].pc = "cleanup"]
    /\ UNCHANGED <<tasks, disk, age, sweep, dumps, due>>

RemoveBytes(p) ==
    /\ up[p].pc = "cleanup"
    /\ disk' = disk \ {up[p].file}
    /\ up' = [up EXCEPT ![p] = NoUpload]
    /\ UNCHANGED <<tasks, row, age, sweep, dumps, due>>

(* The process dies, or the best-effort cleanup fails: the file stays.     *)
Crash(p) ==
    /\ up[p].pc # "idle"
    /\ up' = [up EXCEPT ![p] = NoUpload]
    /\ UNCHANGED <<tasks, row, disk, age, sweep, dumps, due>>

-----------------------------------------------------------------------------
(* Rows go without their bytes: detaching one, or a cascade.               *)
RemoveAttachment(a) ==
    /\ row[a] # NoTask
    /\ row' = [row EXCEPT ![a] = NoTask]
    /\ UNCHANGED <<tasks, disk, age, up, sweep, dumps, due>>

DeleteTask(k) ==
    /\ k \in tasks
    /\ tasks' = tasks \ {k}
    /\ row' = [a \in Files |-> IF row[a] = k THEN NoTask ELSE row[a]]
    /\ UNCHANGED <<disk, age, up, sweep, dumps, due>>

CreateTask(k) ==
    /\ k \notin tasks
    /\ tasks' = tasks \cup {k}
    /\ UNCHANGED <<row, disk, age, up, sweep, dumps, due>>

-----------------------------------------------------------------------------
(* sweepOrphanFiles.  The cutoff is fixed when the sweep starts: a file is *)
(* old by it or never is.  opendir hands out the entries of its snapshot.  *)
SweepStart ==
    /\ sweep.pc = "idle"
    /\ sweep' = [NoSweep EXCEPT !.pc = "walk", !.pending = disk,
                                !.old = {a \in disk : age[a] > orphanGrace}]
    /\ UNCHANGED <<tasks, row, disk, age, up, dumps, due>>

(* stat fails on an entry that has gone, and the job with it.              *)
SweepEntry(a) ==
    LET batch == sweep.batch \cup ({a} \cap sweep.old) IN
    /\ sweep.pc = "walk"
    /\ a \in sweep.pending
    /\ sweep' = IF a \notin disk THEN NoSweep
                ELSE [sweep EXCEPT !.pending = @ \ {a}, !.batch = batch,
                        !.pc = IF Cardinality(batch) >= BatchSize
                               THEN "flush" ELSE "walk"]
    /\ UNCHANGED <<tasks, row, disk, age, up, dumps, due>>

(* A faulty end of the walk that drops the last, partial batch.            *)
SweepWalkedNoFlush ==
    /\ sweep.pc = "walk"
    /\ sweep.pending = {}
    /\ sweep' = [sweep EXCEPT !.pc = "done"]
    /\ UNCHANGED <<tasks, row, disk, age, up, dumps, due>>

SweepWalked ==
    /\ sweep.pc = "walk"
    /\ sweep.pending = {}
    /\ sweep' = [sweep EXCEPT !.pc = IF sweep.batch = {} THEN "done" ELSE "flush"]
    /\ UNCHANGED <<tasks, row, disk, age, up, dumps, due>>

(* One query says which keys of the batch a row claims.                    *)
SweepFlush ==
    /\ sweep.pc = "flush"
    /\ sweep' = [sweep EXCEPT !.pc = "unlink", !.batch = {},
                              !.doomed = sweep.batch \ Claimed]
    /\ UNCHANGED <<tasks, row, disk, age, up, dumps, due>>

Unlink(a) ==
    /\ sweep.pc = "unlink"
    /\ a \in sweep.doomed
    /\ disk' = disk \ {a}
    /\ sweep' = [sweep EXCEPT !.doomed = @ \ {a}, !.removed = @ + 1]
    /\ UNCHANGED <<tasks, row, age, up, dumps, due>>

SweepFlushed ==
    /\ sweep.pc = "unlink"
    /\ sweep.doomed = {}
    /\ sweep' = [sweep EXCEPT !.pc = "walk", !.pending =
                    IF sweep.removed >= BatchSize * MaxBatches THEN {} ELSE @]
    /\ UNCHANGED <<tasks, row, disk, age, up, dumps, due>>

SweepDone ==
    /\ sweep.pc = "done"
    /\ sweep' = NoSweep
    /\ UNCHANGED <<tasks, row, disk, age, up, dumps, due>>

SweepCrash ==
    /\ sweep.pc # "idle"
    /\ sweep' = NoSweep
    /\ UNCHANGED <<tasks, row, disk, age, up, dumps, due>>

-----------------------------------------------------------------------------
(* backup.sh: prune_pattern keeps the newest BACKUP_KEEP by count.         *)
Kept(n, ds) == SubSeq(ds, 1, IF n < Len(ds) THEN n ELSE Len(ds))

(* A faulty prune, off by one.                                             *)
pruneOffByOne(ds) == Kept(BackupKeep + 1, ds)

prune(ds) == Kept(BackupKeep, ds)

take_dump == <<[age |-> 0, rows |-> Claimed]>> \o dumps

BackupCycle ==
    /\ due = 0
    /\ dumps' = prune(take_dump)
    /\ due' = BackupInterval
    /\ UNCHANGED <<tasks, row, disk, age, up, sweep>>

BackupCycleFails ==
    /\ DumpFailures
    /\ due = 0
    /\ dumps' = prune(dumps)
    /\ due' = BackupInterval
    /\ UNCHANGED <<tasks, row, disk, age, up, sweep>>

(* The sidecar restarts, and runs a cycle at once ...                      *)
BootSkips == dumps # << >> /\ dumps[1].age < BackupInterval \div 2

BackupBoots ==
    /\ ~ BootSkips
    /\ due' = 0
    /\ UNCHANGED <<tasks, row, disk, age, up, sweep, dumps>>

(* ... unless a dump younger than half an interval stands for it.          *)
BackupBootSkips ==
    /\ BootSkips
    /\ due' = BackupInterval - dumps[1].age
    /\ dumps' = prune(dumps)
    /\ UNCHANGED <<tasks, row, disk, age, up, sweep>>

BackupOnce ==
    /\ dumps' = prune(take_dump)
    /\ UNCHANGED <<tasks, row, disk, age, up, sweep, due>>

-----------------------------------------------------------------------------
Older(n) == IF n < MaxAge THEN n + 1 ELSE MaxAge

(* Time passes.  A backup cycle that is due runs first, and an upload ends *)
(* within the floor of the grace period.  Sidecar restarts cannot stop the *)
(* clock, hence its strong fairness.                                       *)
Tick ==
    /\ due > 0
    /\ \A p \in Procs : up[p].pc \in {"insert", "cleanup"} =>
          age[up[p].file] < MinOrphanGrace
    /\ age' = [a \in Files |-> IF a \in disk THEN Older(age[a]) ELSE 0]
    /\ dumps' = [i \in DOMAIN dumps |-> [dumps[i] EXCEPT !.age = Older(@)]]
    /\ due' = due - 1
    /\ UNCHANGED <<tasks, row, disk, up, sweep>>

UploadStep(p) == \/ assertWorkspaceQuota(p) \/ assertInstanceQuota(p)
                 \/ WriteBytes(p) \/ WriteRefused(p)
                 \/ InsertRow(p) \/ InsertFails(p) \/ InsertUnacknowledged(p)
                 \/ RemoveBytes(p) \/ Crash(p)

SweepStep == \/ \E a \in Files : SweepEntry(a) \/ Unlink(a)
             \/ SweepWalked \/ SweepFlush \/ SweepFlushed \/ SweepDone

BackupStep == BackupCycle \/ BackupCycleFails \/ BackupBoots
              \/ BackupBootSkips \/ BackupOnce

Next == \/ \E p \in Procs : FindTask(p) \/ UploadStep(p)
        \/ \E a \in Files : RemoveAttachment(a)
        \/ \E k \in Tasks : DeleteTask(k) \/ CreateTask(k)
        \/ SweepStart \/ SweepStep \/ SweepCrash
        \/ BackupStep
        \/ Tick

Spec == Init /\ [][Next]_vars

FairSpec == /\ Spec
            /\ SF_vars(Tick) /\ WF_vars(BackupCycle)
            /\ WF_vars(SweepStart) /\ WF_vars(SweepStep)
            /\ \A p \in Procs : WF_vars(UploadStep(p))

-----------------------------------------------------------------------------
(* Properties.                                                             *)

(* Rows, files, uploads and the sweep keep their types, and no more dumps  *)
(* are kept than the rotation allows (prune).                              *)
TypeOK ==
    /\ tasks \subseteq Tasks
    /\ row \in [Files -> Tasks \cup {NoTask}]
    /\ disk \subseteq Files
    /\ age \in [Files -> 0 .. MaxAge]
    /\ up \in [Procs -> Upload]
    /\ sweep \in Sweep
    /\ dumps \in Seq([age : 0 .. MaxAge, rows : SUBSET Files])
    /\ Len(dumps) <= BackupKeep
    /\ due \in 0 .. BackupInterval

(* Every attachment row has its bytes: createFile writes them first, and   *)
(* neither its cleanup nor the sweep takes them from a row.                *)
LiveRowsHaveBytes == Claimed \subseteq disk

(* The ceilings are soft, by at most one file for each other request that  *)
(* passed the check at the same time (assertWithinQuota).                  *)
QuotaOvershootBounded ==
    /\ InstanceQuota > 0 =>
          Cardinality(Claimed) <= InstanceQuota + Cardinality(Procs) - 1
    /\ WorkspaceQuota > 0 => \A w \in Workspaces :
          storedFileBytes(w) <= WorkspaceQuota + Cardinality(Procs) - 1

(* No file is swept while a dump old enough to disown it is restorable:    *)
(* it is older than every kept dump (orphanGraceMs and backup.sh's prune). *)
SweptPredatesDumps ==
    \A a \in sweep.doomed \cap disk, i \in DOMAIN dumps : dumps[i].age < age[a]

Orphan(a) == a \in disk \ Claimed /\ \A p \in Procs : up[p].file # a

(* As long as sweeps keep reaching their end, every orphan is removed:     *)
(* the walk, the batches and the last flush leave none out.                *)
OrphansAreSwept ==
    ([]<>(sweep.pc = "done")) => \A a \in Files : Orphan(a) ~> ~ Orphan(a)

(* Rows, files, uploads and the sweep keep their types, and no row is      *)
(* without its bytes.                                                      *)
StoreSound == TypeOK /\ LiveRowsHaveBytes

-----------------------------------------------------------------------------
(* Why they hold: the inductive strengthening of the invariants above.     *)

(* An upload names its task throughout, and a file once it wrote one.      *)
Written(p) == up[p].pc \in {"insert", "cleanup"}

UploadFits(p) == /\ up[p].pc # "idle" => up[p].task \in Tasks
                 /\ Written(p) <=> up[p].file \in Files

Shape == TypeOK /\ \A p \in Procs : UploadFits(p)

(* Whatever the sweep still means to remove was, and is, past the grace.   *)
SweepInv == /\ sweep.batch \cup sweep.doomed \subseteq sweep.old
            /\ \A a \in sweep.old \cap disk : age[a] > orphanGrace

(* A file being uploaded is that upload's alone, and too young to sweep.   *)
UploadInv == \A p \in Procs : Written(p) =>
                /\ up[p].file \in disk \ Claimed
                /\ age[up[p].file] <= MinOrphanGrace
                /\ \A q \in Procs \ {p} : Written(q) => up[q].file # up[p].file

BytesInv == SweepInv /\ UploadInv /\ LiveRowsHaveBytes /\ sweep.doomed \cap Claimed = {}

(* The uploads that passed each check and have not ended are the overshoot *)
(* to come.                                                                *)
PassedInstance == {p \in Procs : up[p].pc \in {"write", "insert"}}

PassedWorkspace(w) == {p \in Procs : /\ up[p].pc \in {"quotaInstance", "write", "insert"}
                                     /\ WorkspaceOf[up[p].task] = w}

QuotaInv ==
    /\ InstanceQuota > 0 =>
          Cardinality(Claimed) + Cardinality(PassedInstance)
              <= InstanceQuota + Cardinality(Procs) - 1
    /\ WorkspaceQuota > 0 => \A w \in Workspaces :
          storedFileBytes(w) + Cardinality(PassedWorkspace(w))
              <= WorkspaceQuota + Cardinality(Procs) - 1

(* A cycle in every interval: the dumps are at most that far apart.        *)
RotationInv ==
    \A i \in DOMAIN dumps : /\ dumps[i].age <= dumps[1].age + (i - 1) * BackupInterval
                            /\ dumps[1].age <= BackupInterval - due
=============================================================================
