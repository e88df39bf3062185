----------------------------- MODULE TaskFiles -----------------------------
(***************************************************************************)
(* The attachments of the task the panel shows (use-task-attachments.ts,   *)
(* task-attachments.tsx): a list of its own, read once for each task shown *)
(* and changed by the panel's own writes only, and the count it reports to *)
(* the board's card.  The hook instance survives a switch of task.         *)
(***************************************************************************)
EXTENDS Integers, FiniteSets

CONSTANTS Shown,       \* the tasks the panel is opened on
          NoTask,
          Files,       \* ids of attachments
          Stored0,     \* the attachments of each task at first
          MaxFileWork  \* bound: writes, switches and calls that fail, together

ASSUME FilesAssumption ==
    /\ NoTask \notin Shown /\ IsFiniteSet(Files)
    /\ Stored0 \in [Shown -> SUBSET Files] /\ MaxFileWork \in Nat
    /\ \A t, u \in Shown : t # u => Stored0[t] \cap Stored0[u] = {}   \* an attachment has one taskId

VARIABLES stored,      \* the server's attachments
          shownTask,   \* the task prop
          listed,      \* attachments
          loadedTask, failedTask, \* loadedTaskId, failedTaskId
          storage,     \* storageEnabled
          counts,      \* attachmentCount on the board's cards
          fileCalls,
          foreign,     \* history: files others touched, or of a lost answer
          crossed,     \* history: a write out while the task was switched, or
                       \* begun while the list was read again
          fileWork

filesVars == <<stored, shownTask, listed, loadedTask, failedTask, storage, counts,
               fileCalls, foreign, crossed, fileWork>>

FileCall(kind, f, t, current) ==
    [kind |-> kind, file |-> f, task |-> t, rows |-> current, phase |-> "sent"]
NoFile == ""

(* A panel opens with its reads out.                                        *)
FilesWith(reads) ==
    /\ stored = Stored0
    /\ shownTask \in Shown
    /\ listed = IF reads = {} THEN Stored0[shownTask] ELSE {}
    /\ loadedTask = IF reads = {} THEN shownTask ELSE NoTask
    /\ failedTask = NoTask /\ fileCalls = reads
    /\ storage = TRUE /\ foreign = {} /\ crossed = FALSE /\ fileWork = 0
    /\ counts = [t \in Shown |-> Cardinality(Stored0[t])]

FilesInit == \E t \in Shown :
    shownTask = t /\ FilesWith({FileCall("list", NoFile, t, {}), FileCall("config", NoFile, t, {})})

(* Faulty variant: the list without the task it was read for.               *)
rowsOfAnyTask == listed

rows == IF loadedTask = shownTask THEN listed ELSE {}

loadFailed == failedTask = shownTask
filesLoading == loadedTask # shownTask /\ ~loadFailed
filesPending == \E c \in fileCalls : c.kind \in {"add", "remove"}

SpendFile == fileWork < MaxFileWork /\ fileWork' = fileWork + 1

FilesOffered == ~filesLoading /\ ~loadFailed /\ ~filesPending

-----------------------------------------------------------------------------
(* write: the list as it is rendered goes with the call.                    *)
StartWrite(kind, f) ==
    /\ FilesOffered /\ SpendFile
    /\ fileCalls' = fileCalls \cup {FileCall(kind, f, shownTask, rows)}
    /\ crossed' = (crossed \/ \E c \in fileCalls : c.kind = "list")
    /\ UNCHANGED <<stored, shownTask, listed, loadedTask, failedTask, storage, counts,
                   foreign>>

Unused(f) == /\ \A t \in Shown : f \notin stored[t] \cup Stored0[t]
             /\ f \notin listed \cup foreign /\ \A c \in fileCalls : c.file # f

(* An upload needs storage, a link does not.                                *)
upload(f) == storage /\ Unused(f) /\ StartWrite("add", f)
addLink(f) == ~storage /\ Unused(f) /\ StartWrite("add", f)
remove(f) == f \in rows /\ StartWrite("remove", f)

(* Another task: the reads that are out are aborted and its own starts.     *)
SwitchTask(t) ==
    /\ t # shownTask /\ SpendFile /\ shownTask' = t
    /\ fileCalls' = {c \in fileCalls : c.kind # "list"}
                        \cup {FileCall("list", NoFile, t, {})}
    /\ crossed' = (crossed \/ filesPending)
    /\ UNCHANGED <<stored, listed, loadedTask, failedTask, storage, counts, foreign>>

(* Another user's write; its event refreshes the card, never the list.      *)
OtherFile(t, f) ==
    /\ SpendFile
    /\ stored' = [stored EXCEPT ![t] = IF f \in @ THEN @ \ {f} ELSE @ \cup {f}]
    /\ (\A u \in Shown \ {t} : f \notin stored[u] \cup Stored0[u]) /\ (f \in stored[t] \/ Unused(f))
    /\ foreign' = foreign \cup {f}
    /\ counts' = [counts EXCEPT ![t] = Cardinality(stored'[t])]
    /\ UNCHANGED <<shownTask, listed, loadedTask, failedTask, storage, fileCalls, crossed>>

-----------------------------------------------------------------------------
Becomes(c, p, more) == fileCalls' = (fileCalls \ {c}) \cup {[c EXCEPT !.phase = p, !.rows = more]}

FileWrite(c) ==
    stored' = [stored EXCEPT ![c.task] = IF c.kind = "add" THEN @ \cup {c.file} ELSE @ \ {c.file}]

ServeFileWrite(c) ==
    /\ c.phase = "sent" /\ c.kind \in {"add", "remove"}
    /\ c.kind = "add" \/ c.file \in stored[c.task]
    /\ FileWrite(c)
    /\ \/ Becomes(c, "ok", c.rows) /\ UNCHANGED <<foreign, fileWork>>
       \/ SpendFile /\ Becomes(c, "failed", c.rows) /\ foreign' = foreign \cup {c.file}
    /\ UNCHANGED <<shownTask, listed, loadedTask, failedTask, storage, counts, crossed>>

ServeFileRead(c) ==
    /\ c.phase = "sent" /\ c.kind \in {"list", "config"}
    /\ Becomes(c, "ok", IF c.kind = "list" THEN stored[c.task] ELSE {})
    /\ UNCHANGED <<stored, shownTask, listed, loadedTask, failedTask, storage, counts,
                   foreign, crossed, fileWork>>

RefuseFile(c) ==
    /\ c.phase = "sent" /\ Becomes(c, "failed", c.rows)
    /\ \/ c.kind = "remove" /\ c.file \notin stored[c.task] /\ UNCHANGED fileWork
       \/ SpendFile
    /\ UNCHANGED <<stored, shownTask, listed, loadedTask, failedTask, storage, counts,
                   foreign, crossed>>

ListAnswered(c) ==
    /\ c.kind = "list"
    /\ IF c.phase = "ok"
       THEN listed' = c.rows /\ loadedTask' = c.task /\ failedTask' = NoTask
       ELSE failedTask' = c.task /\ UNCHANGED <<listed, loadedTask>>
    /\ UNCHANGED <<storage, counts, crossed>>

(* GET /config: an instance without storage, or an answer that never came.  *)
ConfigAnswered(c) ==
    /\ c.kind = "config"
    /\ IF c.phase = "ok" THEN storage' \in BOOLEAN ELSE UNCHANGED storage
    /\ UNCHANGED <<listed, loadedTask, failedTask, counts, crossed>>

WriteAnswered(c) ==
    /\ c.kind \in {"add", "remove"}
    /\ IF c.phase = "ok"
       THEN LET next == IF c.kind = "add" THEN c.rows \cup {c.file} ELSE c.rows \ {c.file}
            IN /\ listed' = next
               /\ counts' = [counts EXCEPT ![c.task] = Cardinality(next)]
       ELSE UNCHANGED <<listed, counts>>
    /\ UNCHANGED <<loadedTask, failedTask, storage, crossed>>

FileAnswered(c) ==
    /\ c.phase # "sent" /\ fileCalls' = fileCalls \ {c}
    /\ ListAnswered(c) \/ ConfigAnswered(c) \/ WriteAnswered(c)
    /\ UNCHANGED <<stored, shownTask, foreign, fileWork>>

FileNetwork == \E c \in fileCalls : \/ ServeFileWrite(c) \/ ServeFileRead(c)
                                    \/ RefuseFile(c) \/ FileAnswered(c)

FilesNext ==
    \/ \E f \in Files : upload(f) \/ addLink(f) \/ remove(f)
    \/ \E t \in Shown : SwitchTask(t) \/ \E f \in Files : OtherFile(t, f)
    \/ FileNetwork

FilesSpec == FilesInit /\ [][FilesNext]_filesVars

FilesFairness == WF_filesVars(FileNetwork)

-----------------------------------------------------------------------------
(* The server's rows, the list and the calls keep their shape.              *)
FilesTypeOK ==
    /\ stored \in [Shown -> SUBSET Files] /\ shownTask \in Shown
    /\ listed \subseteq Files /\ {loadedTask, failedTask} \subseteq Shown \cup {NoTask}
    /\ counts \in [Shown -> 0 .. Cardinality(Files)]
    /\ Cardinality({c \in fileCalls : c.kind \in {"add", "remove"}}) <= 1

(* With nothing out, the list differs from the server's only by what other  *)
(* users did since it was read: no upload, link or removal made through the *)
(* panel is dropped from it or stays in it (use-task-attachments.ts:169).   *)
(* Excepted are a switch of task with a write out, whose answer replaces    *)
(* whatever list is there, and a write made after a switch back while the   *)
(* list, still shown, is read again.                                        *)
OwnFilesListed ==
    (~filesPending /\ ~filesLoading /\ ~loadFailed /\ ~crossed) =>
        (rows \ stored[shownTask]) \cup (stored[shownTask] \ rows) \subseteq foreign

(* A panel never lists a file of a task it showed before, but for that late *)
(* answer ("The list, but only for the task it was read for",               *)
(* use-task-attachments.ts:89).                                             *)
FilesOfShownTask ==
    ~crossed => \A t \in Shown \ {shownTask} : rows \cap (stored[t] \cup Stored0[t]) = {}

(* The list of the shown task stops loading, whatever read of an earlier    *)
(* task is still out (use-task-attachments.ts:86).                          *)
FilesLoadingEnds == filesLoading ~> ~filesLoading

(* The files listed are those of the task shown, with the panel's own      *)
(* changes.                                                                *)
FilesSound == FilesTypeOK /\ OwnFilesListed /\ FilesOfShownTask

-----------------------------------------------------------------------------
(* Why they hold: the inductive strengthening of the invariants above.     *)
FileCalls == [kind : {"list", "config", "add", "remove"}, file : Files \cup {NoFile}, task : Shown,
              rows : SUBSET Files, phase : {"sent", "ok", "failed"}]
FileWrites == {c \in fileCalls : c.kind \in {"add", "remove"}}
FileLists == {c \in fileCalls : c.kind = "list"}

FilesShape ==
    /\ stored \in [Shown -> SUBSET Files] /\ shownTask \in Shown
    /\ listed \subseteq Files /\ loadedTask \in Shown \cup {NoTask} /\ failedTask \in Shown \cup {NoTask}
    /\ counts \in [Shown -> 0 .. Cardinality(Files)]
    /\ fileCalls \subseteq FileCalls /\ \A c \in FileWrites : c.file \in Files

(* Files no other task has or had; files that differ from a task's only by *)
(* what others did.                                                        *)
ApartFrom(files, t) == \A u \in Shown \ {t} : files \cap (stored[u] \cup Stored0[u]) = {}
UpToOthers(files, t) == (files \ stored[t]) \cup (stored[t] \ files) \subseteq foreign

(* The list an answer to the write leaves, if it is the last word.         *)
Landed(c) == IF c.phase # "ok" THEN c.rows
             ELSE IF c.kind = "add" THEN c.rows \cup {c.file} ELSE c.rows \ {c.file}

(* One write is out at a time, and the reads are the shown task's.         *)
CallsFit ==
    /\ \A c, d \in FileWrites : c = d
    /\ \A c \in FileLists : c.task = shownTask

OneOwner ==
    /\ \A t \in Shown : ApartFrom(stored[t] \cup Stored0[t], t)
    /\ \A c \in FileWrites : c.kind = "add" => ApartFrom({c.file}, c.task)

(* The list follows the server's, a write carries the list it started from *)
(* and a read what the server had.                                         *)
ListFollows ==
    /\ FileWrites = {} \/ FileLists = {}
    /\ loadedTask \in Shown => ApartFrom(listed, loadedTask)
    /\ FileWrites = {} /\ loadedTask \in Shown => UpToOthers(listed, loadedTask)
    /\ \A c \in FileWrites : /\ c.task = shownTask /\ loadedTask = shownTask
                             /\ c.rows = listed /\ UpToOthers(Landed(c), c.task)
    /\ \A c \in FileLists : c.phase = "ok" => ApartFrom(c.rows, c.task) /\ UpToOthers(c.rows, c.task)

FilesInv == FilesShape /\ CallsFit /\ OneOwner /\ (~crossed => ListFollows)
=============================================================================
